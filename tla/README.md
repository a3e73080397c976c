# A TLA+ model of XCA's certificate store, revocations, keys and transactions

XCA keeps X.509 certificates, requests, private keys, revocation lists and
templates in an SQL database, a local SQLite file or a server, and shows them
in trees. Every item is kept twice: as rows of the database and as an object in
memory, and much of the program's own logic (everything that is not OpenSSL or
Qt) is the code that keeps the two in step while certificates are imported,
renewed, revoked and deleted, while operations nest their database
transactions, and while other XCA processes change the same database.

Line numbers below refer to files of `src/`.

## Inventory

| Component | State | Operations | Hard behaviour | What makes it correct |
|---|---|---|---|---|
| SQL transactions `lib/sql.cpp` | static `mutex`, `error`, `items`, `DatabaseStamp`; the open database transaction | `begin`, `commit`, `rollback`, `done`, the destructor, `AffectedItems` | operations nest; a nested failure is only remembered; a crash between statements | a user operation is stored as a whole or not at all |
| Stamps and polling `lib/sql.cpp`, `lib/database_model.cpp` | column `items.stamp`, `DatabaseStamp` of each process | stamping in `finish()`, the poll in `timerEvent()`, `reloadContainer()` | two processes commit between two polls | every process comes to show what is stored |
| Item store and base model `lib/db_base.cpp`, `pki_base.cpp`, `pki_lookup.h` | table `items`, `Store`, `treeItem`, `rootItem` | `insertPKI`, `updateItem`, `deletePKI`, `insertChild`, load and reload | memory is changed before the commit | memory shows what was committed |
| Certificate chain store `lib/db_x509.cpp`, `pki_x509.cpp` | columns `certs.issuer`, `certs.ca`; `issuerSqlId`, the tree | import, new, renewal, deletion, `inToCont`, `remFromCont`, `findIssuer` | imports in any order, renewed CAs, cross certificates | one forest on both sides, the right anchor, no cycles |
| Revocations and CRLs `lib/x509rev.cpp`, `db_crl.cpp`, `pki_crl.cpp`, `widgets/RevocationList.cpp` | table `revocations`, `crls.issuer`, `authority.crlNo`; `revocation` of each object | revoke, unrevoke, manage, import and generate a CRL | the list of the CA and the mark of the certificate are separate; the list is rewritten as a whole | marked if and only if listed; a revocation is never lost |
| Keys and passwords `lib/db_key.cpp`, `pki_evp.cpp`, `widgets/MainWindow.cpp` | table `private_keys`, setting `pwhash`, `passwd` and `passHash` in memory | insert, change of the database password, own passwords, legacy upgrade | all keys are encrypted anew in one operation | every key can be decrypted with the password the database accepts |
| Opening `lib/database_model.cpp`, `database_schema.cpp` | setting `schema`, the password dialog | schema upgrade, `initPass` | a crash between two schema versions | a database is of one version |
| Links `lib/pki_x509super.cpp`, `db_x509super.cpp`, `db_key.cpp`, `pki_key.cpp` | columns `x509super.pkey`, `key_hash`; `keySqlId` of each object, the `Store` | insert, complete and delete keys, insert, renew and delete certificates and requests, reload | whoever comes second makes the link, if its process has loaded the other one | a certificate refers to its key and to no other one, no key is stored twice or lost |
| Templates, tokens, import of collections, dialogs, views, command line, formats | see `PROJECT.json` | | | |

The parts interact by calls: a view's context menu calls an operation of a
`db_*` model, which works on rows inside a `DbTransaction` and on the objects;
the models call each other (`db_x509::inToCont` relinks revocation lists,
`db_crl::insert` marks certificates). Two processes interact by the database
alone. The timer of the event loop polls every 1500 ms, also while a modal
dialog is open inside an operation.

Everything that is hard to test is listed under "hazards" in `PROJECT.json`,
with the line where it bites and the properties that cover it.

## Plan

1. `CertStore`: the two copies of the certificate tree, revocations and CRLs. *Done.*
2. `AtomicTransaction` and `DbTransaction`: nesting, stamps, polls, the
   refinement. *Done.*
3. `KeyPasswords`: `pwhash`, `passwd`, `passHash` and the encrypted keys of
   several clients and databases. *Done.*
4. `CaRevocations`: the revocation list as a sequence with duplicates, the
   Manage revocations dialog that works on a copy, CRL numbers and `newCrl()`
   with failures, two clients. *Done.*
5. `KeyLinks`: `x509super.pkey` and the references in memory, the completion of
   a public key, the `Store` that keeps deleted objects. *Done.*
6. Left: `DbOpen` (`initSqlDB`, servers that commit DDL implicitly), serial
   numbers and dates as bounded numbers, the signed flag of requests, tokens.

## Modules

| Module | Models |
|---|---|
| `CertStore` | `db_x509`, `pki_x509`, `db_crl`, `pki_crl` as one client sees them |
| `MC_CertStore` | the documents of the runs |
| `MC_CertStore_chain` | the assumption that those of one run are conventional |
| `CertStore_proofs` | the theorems for all documents |
| `CertStore_orderly_proofs` | the theorems for documents as a PKI issues them |
| `AtomicTransaction` | what callers of `DbTransaction` rely on |
| `DbTransaction` | `sql.cpp`, `insertPKI`, `updateItem`, `deletePKI`, the poll |
| `MC_DbTransaction` | two clients, two items of two types |
| `DbTransaction_proofs` | its theorems |
| `KeyPasswords` | `initPass`, `settings`, `db_key`, the encryption in `pki_evp`, `changeDbPass` |
| `MC_KeyPasswords` | one or two databases |
| `KeyPasswords_proofs` | its theorems |
| `CaRevocations` | `x509revList`, the revocation part of `db_x509` and `pki_x509`, `newCrl()`, the two dialogs |
| `MC_CaRevocations` | how often serials are typed |
| `CaRevocations_proofs` | its theorems |
| `KeyLinks` | `pki_x509super`, `db_x509super`, the insertion, completion and deletion in `db_key` and `pki_key` |
| `MC_KeyLinks` | two keys with one hash |
| `KeyLinks_proofs` | its theorems |

No module composes two of the others: they share the operations of `db_base`
but each has its own abstraction of the items, fine where its properties are
and coarse elsewhere. A certificate of `CertStore` has no key, one of
`KeyLinks` no issuer; a list is a set in `CertStore` and a sequence in
`CaRevocations`; the stamps that decide what a poll reloads are in
`DbTransaction`, and a reload may come at any time in the other modules.

### CertStore

A certificate or CRL is a document that never changes, so what it says
(names, keys, serial, dates, authority key identifier) is a constant function
and the identity of the document is that of its database item. The variables
are pairs of a column and its copy in memory:

| Database | Memory |
|---|---|
| `certs`: items in table `certs` | the same objects |
| `issuer`: `certs.issuer` | `signer`: `issuerSqlId`, looked up in the `Store`; `parent`: the parent in the tree |
| `revocations`: rows of table `revocations` per CA | `revoked`: `revocation` is valid |
| `crlsIssuer`: `crls.issuer` | `crlIssuer`: `pki_crl::issuerSqlId` |

`renewal` is the program counter of `certRenewal()`, which is three
transactions with message boxes in between. Every other operation is one step:
`Insert` is `findIssuer()`, `verify()` and all of `inToCont()`; `Delete` is
`deleteSqlData()` and `remFromCont()` with the relinking of every child;
`Revoke`, `UnRevoke`, `ManageRevocations`, `ImportCrl`, `GenerateCrl`,
`DeleteCrl` and `Reload` (close or crash, then open) are their handlers.

What is abstracted:

- A revocation list is the set of its serials; duplicates and CRL numbers are
  the subject of `CaRevocations`, dates and reasons are left out.
- Queries without ORDER BY return rows in any order: `FindIssuer` and
  `CrlIssuers` choose among the CAs that expire last, `MarkedBy` among children
  with one serial, `Twins` covers the order in which the children of a deleted
  CA move.
- `X509_check_issued()` is external: names, authority key identifier, key
  usage. `getUniqueSerial()` draws random numbers; a renewal may use any serial
  that passes its checks.
- Selecting several certificates for a renewal is modelled for one; revoking
  takes any set.
- `do_revoke()` with no common signer dereferences a null pointer; the process
  dies, which is `Reload`.
- `Chain` is what the loop of `recursiveSigning()` meets, as a set: the least one
  that has the start and the signers of its members. `WalkEnds` is the loop
  coming to an end; an insertion whose loop does not end is not a step.
- The documentation says the CA flag is disregarded when chains are built
  (certificates.rst:22); `findIssuer()` selects `certs.ca=1`. The model follows
  the code.

### DbTransaction

A client is a running XCA. `mutex`, `error`, `items`, `known` are the static
members of `DbTransaction`, `writes` the rows its open database transaction has
written, `stamping` the point inside `finish()` between computing the new stamp
and the commit, `late` the item `deletePKI()` reports after its commit, `store`
what the client shows. Rows of table `items` carry content and stamp.
`OneWriter` distinguishes SQLite, which has one writing transaction at a time,
from a server with row locks.

`FinishNested`, `RollBack`, `Stamp` and `Commit` are the branches of `finish()`;
`Insert`, `Change`, `Delete` and `DeleteFails` the operations between `begin()`
and `finish()`; `Poll` is `timerEvent()`, which runs at nesting level 0 and 1
because a modal dialog may be open inside the outermost transaction
(XcaTreeView.cpp:254-260); `Restart` is a crash and a new start.

What is abstracted: a failing `BEGIN` or `COMMIT` and drivers without
transactions; the results of the two UPDATE statements in `finish()`, which the
code does not look at (`CanWrite` decides whether they have an effect); the
contents of items. Objects of items another client has deleted stay in the
`Store` after a reload; `store` is what the tree shows. `polled`, `prompt`,
`broken` and `loyal` are history variables.

### KeyPasswords

Per database: `hash` (setting `pwhash`: style of the hash and the password it
belongs to), `own`, `lock` and `legacy` of its keys (column `ownPass`, the
password that decrypts column `private`, whether it is of the format before
PKCS#8) and `converted` (setting `legacy-keys-updated`). Per client: `mode` and
`db`, the cached settings (`loaded`, `setting`, `flagged`), the static
`passHash` and `passwd`, and `known`, the password types of its objects. `Init`
is a new database or one of any earlier version.

`Open` is the constructor of `database_model` up to the password dialog;
`NewPass`, `GivePass`, `Cancel` and `Abort` are the ways it ends, the first two
with `updateKeyEncryptionScheme()` (`Opened`); `Close` is the destructor and
`Restart` the end of the process. `InsertKey`, `DeleteKey`, `SetOwnPass` (set
and reset) and `ChangeDbPass` are the operations on keys, and
`SetOwnPassFails` and the second part of `ChangeDbPass` their failures, allowed
by `MayFail`.

`misled` is a history variable: a client went on after a failed change or
insertion of the password; it opened a database with the settings of another
one after an aborted opening; or a password was set while another client was
opening or using the database or before the client had seen all its keys. It
is set at the cause, never by comparing passwords afterwards, but for the
settings of an aborted opening, which do no harm if they happen to agree.
`KeysOpen` says there is no fourth way.

What is abstracted:

- The salt of a hash, and wrong answers in dialogs: the loops ask again or
  give up, and giving up changes nothing.
- Users know private passwords. `Decrypts` is false where no answer of theirs
  opens the key.
- An operation with its dialogs is one step. The key does not depend on what
  another client does meanwhile, and its password is that of the static
  variables; a client overtaken by a change during a dialog is one overtaken
  before it.
- A poll may come at any time: what polls miss is the subject of
  `DbTransaction`. Ids are not used twice, and an object of a deleted row is
  gone after the poll.
- The encrypted key that `setOwnPass()` leaves in the object after its failed
  repair is the one of the row with the type of the object.
- With `--no-gui` and without `--password` a database is opened as by `Cancel`.

### CaRevocations

The CAs are one CA and its renewals, 1 to `newest`. `rows` are the rows of
table `revocations` per CA and serial: a sequence of CRL numbers, as a serial
may be listed twice. `lastNo` is `authority.crlNo`. Per client: `ca`, the object
of the newest CA it has loaded, with its CRL number; `old`, the object a dialog
goes on working with after a reload; `marked`, the certificates shown as
revoked; `held`, the list a handler or the Manage revocations dialog has read
and will write back; `task`, the CRL being made. `issued` are the CRLs made
with a number; they are out in the world and never forgotten.

`SqlUpdate` is the rewriting of all rows of a CA from a copy, with the numbers
recovered from the old rows. `Revoke` and `UnRevoke` read the list,
`RevokeWrites` and `UnRevokeWrites` write it; the Manage revocations dialog is
`OpenManage`, `AddRev`, `DelRev`, `EditRev`, `ManageOk`, `ManageCancel` and
`GenerateFromManage`; a CRL is made by `OpenCrl`, `SignCrl`, and `CommitCrl` or
`DropCrl`. `ImportCrl` is `revokeCerts()`, `Renew` the renewal of the CA,
`Reload` the poll (also under an open dialog), `Restart` a crash.

`behind` says that a client's marks need not be the list (another client has
written it, its own write failed, it wrote through a replaced object); `calm`
that nobody has yet written a list or a CRL number over what others had changed
since it was read. XCA has no protection against that; the properties about
numbers and revocations are stated up to there. `typed` are the serials a user
has added to a list that had them.

What is abstracted: the user takes the number offered for a CRL or none;
dialogs work on the newest CA loaded; a CA is renewed only by a client whose
memory is up to date, and the old CA is not deleted (that is `CertStore`);
dates, reasons and the invalidity date are data; a CRL without number leaves
0 in the rows and is not in `issued`.

### KeyLinks

`item` are the rows of table `items`, which stay when an item is deleted
(`del=1`); `alive` those with rows in `public_keys` or `x509super`; `pkey` is
column `x509super.pkey`. Ids are given in order, `last` is the highest; an id
of a transaction that was rolled back is given again. Per client: `store`, the
ids for which the `Store` has an object, `shown`, the items in the trees,
`link`, `keySqlId` of its objects, and `completing`, where `db_key::insert()`
is with the completion of a public key.

`LookupKey` is `pki_x509super::lookupKey()`, `Unlinked` the rows that
`pki_key::insertSqlData()` links; both look for rows by the 32 bit hash, then
for the object, then compare the keys. `InsertKey`, `InsertDoc` and `Renew`
insert; `Complete`, `CompleteDelete` and `CompleteInsert` are the three parts
of the completion, with an information box and two transactions; `DeleteKey`
and `DeleteDoc` delete one item; `ReloadKeys` and `ReloadDocs` are what a poll
does when keys or only certificates have changed. With `MayFail` the database
may refuse an insertion or a deletion.

History variables say up to where a property can hold. `overtaken`: an
insertion missed a row because its process had not loaded the object, or a
renewal copied a reference that was out of date. The code then makes no link
and nothing makes it later, although `db_base.cpp:332` says that inserting
"Does all the linking from existing keys, crls, certs to the new imported or
generated item"; a key whose row was not loaded is stored a second time.
`behind`: the references in memory need not be those of the rows. `hung`: a
failed insertion of a key left references to its id, which the next item is
given. `kept`: the keys that were inserted and neither deleted by a user nor
lost by an interrupted completion.

What is abstracted:

- Certificates and requests are of one kind: keys treat them alike, and a
  change of either reloads the containers of both. A certificate that is stored
  already is not imported again, which changes nothing and is left out.
- A query without ORDER BY returns rows in any order; two public keys may have
  one hash.
- An insertion of a certificate that fails changes nothing; its transaction is
  rolled back and its object deleted.
- No poll comes while the error box of a failed deletion is open. The freed
  object which the trees then have counts as no item.
- A reload of all containers has keys before certificates, as
  `database_model` holds them. A poll that reloads keys always reloads
  certificates too.
- A dangling `pkey` can be stored only by SQLite, which does not check the
  foreign key; servers refuse the row.
- An index that has become invalid kills the process (`CompleteDelete` in phase
  `doomed` has only `Restart`).
- Keys on tokens, where deleting also asks the token, are left out.

## Runs

| Run | Question | States | Result |
|---|---|---|---|
| `CertStore_chain` | an ordinary hierarchy with renewals | 7578 | pass |
| `CertStore_cross` | cross certified roots, a pinned child | 1476 | pass |
| `DbTransaction_atomic` | nesting, failures, crashes, one watcher | 176555 | pass |
| `DbTransaction_news` | two writers, liveness | 116883 | pass |
| `KeyPasswords_sessions` | two clients, two databases, failures, aborted openings | 1142832 | pass |
| `CaRevocations_lists` | one client: failing writes, duplicates, a renewal of the CA, reloads under a dialog | 1638646 | pass |
| `CaRevocations_clients` | two clients, CRL numbers | 1599044 | pass |
| `KeyLinks_clients` | two clients, two keys of one hash, failures | 689833 | pass |
| `CertStore_keep_serial` | two certificates with one serial | | violates `RevokedIffListed` |
| `CertStore_cycle` | deleting one of two cross certified roots | | violates `ChainsEnd` |
| `KeyPasswords_aborted` | one client, two databases, no failures | | violates `PasswordOpensKeys` |
| `CaRevocations_renewal` | CRL numbers of a renewed CA | | violates `CrlNumberTracked` |

`CertStore_chain` has documents as a PKI issues them (`Conventional`, which TLC
evaluates as an assumption of `MC_CertStore_chain`); on these, every certificate
knows its signer (`SignerKnown`), is without issuer only when no CA for it is
stored (`NoNeedlessOrphan`), has the CA that expires last as anchor
(`LatestAnchor`) and is marked as revoked exactly when its CA lists it
(`RevokedIffListed`). `LatestAnchor` is not asked of self signed certificates: the
renewal of a root gets the root it was copied from as signer, and if it expires
earlier it is filed below that one although a root that expires still later may
be stored. `SelfSignedAnchored` says where it can be; it is proved with the rest.

`CertStore_cross` checks what holds for all documents: it has the most entangled
ones, so that an adoption can close a cycle and a child can be detached. The
properties of `CertStore_chain` need each part of `Conventional`. `SerialsUnique`:
with a renewal that keeps the serial `RevokedIffListed` fails
(`CertStore_keep_serial`, a finding). `CAsInterchangeable`: `SignerKnown` fails
for a child whose authority key identifier names the serial of a CA that was
replaced. `Hierarchy`: two roots that cross certified each other can become each
other's signer (`CertStore_cycle`, a finding); cross certification in one
direction is within it. XCA imports documents that break any of the three.

`KeyPasswords_sessions` checks that the password of a database opens its common
keys unless a client was misled (`KeysOpen`, `Agreed`), that the flag
`legacy-keys-updated` is right (`LegacyGone`) and that a new password spares
keys with one of their own (`ChangeSparesPrivate`). `KeyPasswords_aborted` drops
"unless" and shows one of the ways without any failure: the settings of an
aborted opening serve the next database. The other ways are a password set
unseen by another client and the failed change, the second part of
`ChangeDbPass`.

`DbTransaction_atomic` asks of what is shown only `PromptPollSeesAll`. Of a
client that does not poll between any two commits nothing of the kind holds:
`timerEvent()` reloads only the types of the rows with the highest stamp and
`finish()` raises `DatabaseStamp` past the stamps of others, so of two commits
between two polls the first may never be shown, whatever changelog:224 means by
"Support concurrent database access".

`CaRevocations_lists` checks that a client's marks are the list of the CA
(`MarkedIffListed`), that nothing but the user lists a serial twice
(`DuplicatesAreTyped`), that a serial which has been on a CRL is on every later
one (`OnEveryCrlSince`) and leaves the list only by the user's wish
(`RevocationsStay`); `CaRevocations_clients` the latter two, `LastNumber` and
`CrlNumbersGrow` for two clients, one with the dialog. `CaRevocations_renewal`
shows that CRL numbers start again when the CA is renewed.

`KeyLinks_clients` checks that every certificate refers to its key if that is
stored (`LinkedUnlessOvertaken`), that its object does so too (`MemoryLinks`),
that no key is stored twice (`OneKeyEach`) or lost by a completion
(`KeysKept`), and that no object shown resolves to another key, though the
`Store` keeps the objects of deleted items (`OwnKeyOnly`).

Bounds. Five certificates give each role in the code a document: an old and a
new CA, a CA below, an issued one and its renewal. A second object of a role
only repeats it, as each step relinks the children of one certificate. Two
items are enough for the transactions: the operations treat items one by one,
and a missed change needs two types. Two clients: a poll compares the client
with the database, whoever has written it. Nesting of two, as `finish()` tells
level 1 from all others. `MaxStamp` 2 allows three successive values of
`MAX(stamp)`, one more than a client and one commit it missed; transactions
begin only while a stamp is left. One key in one of two databases: keys are
encrypted one by one in one transaction, and two databases are needed to carry
settings from one to the other; the violation run has a second key. Two
passwords, one of them empty, as the empty one is tried without a dialog. The
clients are interchangeable (`SYMMETRY`); the run has no liveness property.

For the lists: two serials, one of a certificate in the database, which may be
typed twice, and one that comes with an imported CRL only; the CA and one
renewal; one CRL number, as a number is compared with those before it and
`CaRevocations_clients` has two. There one serial is enough, since numbers
belong to rows, and only one client opens the dialog: what the other one does
with a list held by a dialog it also does to one held by a handler.
`CONSTRAINT NothingOverwritten` stops at the first lost update; what follows is
left to the proofs of `TypeOK` and `MarkedIffListed`, the other properties say
nothing of it. For the links three ids: a key, its certificate and the key that
completes it or gets an id once more; two public keys with one hash, so that
only the comparison of the keys tells them apart. Clients and keys are
interchangeable (`SYMMETRY`).

Fairness (`DbTransaction_news`): weak fairness of `Finish`, as every operation
runs to its end and its `DbTransaction` is destroyed; strong fairness of
`Poll`, as the event loop serves the timer between two operations even if
operations follow each other for ever, though each of them disables it.
`NewsArrives` asks no more than that the client polls between any two commits
(`prompt`) and had no operation rolled back (`loyal`).

## Theorems

Checked by TLAPS for every value of the constants that satisfies the ASSUMEs.

`CertStore_proofs`. `Consistent` is inductive: types, the tree equals the one
the issuer columns give (`TreeMatchesDb`), a signer in memory is the stored
issuer or lost (`SignerMatchesDb`), an issuer can have issued its children
(`IssuerVerifies`), CRLs are filed under a CA that signed them
(`CrlIssuerVerifies`). Two facts are needed beside the checked ones: a self
signed certificate never loses itself as signer (`SelfSignedKnown`), or another
CA could adopt it and the tree would differ from the column; and what is not
stored is linked nowhere (`AbsentUnlinked`), or a certificate would come back
with old children. The proof has a lemma per handler; the central one is that
the certificates `inToCont()` detaches and adopts were children of the
superseded CA or of the root, so that both sides change alike. Anchors
(`AnchorOnlyMovesUp`) follow from it as an action property. `ImportsKeepChains`
needs no induction along the signers, as `Chain` is a set: a walk that does not
end stays in a set of certificates that all have another signer in it
(`EndlessChain`, `EndlessSet`). If an insertion made one, it
goes through the new certificate and on at the signer of that one. The walk from
there meets nobody the new certificate has adopted, or `recursiveSigning()` would
have refused the adoption; so it runs along the old signers and was endless
before.

`CertStore_orderly_proofs` assumes `Conventional` and shows `Orderly` inductive
beside `Consistent`. `Placed`, its part about the tree, needs the four
properties at once: `inToCont()` finds all that belongs to the new certificate
only because signers in memory are the stored ones (`SignerKnown`), orphans are
where no CA is (`NoNeedlessOrphan`), and whoever should move is below the CA it
leaves (`LatestAnchor`, and `SelfSignedAnchored` for roots). The levels of
`Hierarchy` give that a new certificate is not below what it adopts, so that
`recursiveSigning()` refuses nothing it should not (`AllAdopted`);
`CAsInterchangeable` that whoever is detached from a superseded CA is adopted by
the new one; `SerialsUnique` that a listed serial is that of one child. The
marks (`RevokedIffListed`) follow handler by handler, and `RevocationsStick`
with them, as the steps that lose a mark are those that shorten a list.

`DbTransaction_proofs`. `IInv` is `TypeOK`, `Balanced` and `Stampable`.
`Balanced` says that the static error flag is set exactly when a part was
rolled back and that an idle client has no writes: from it follows
`NestedIsFlat`, the refinement of `AtomicTransaction` in which nested begins
and finishes are stutters. `Stampable` says that every written row is new or
was reported, that no two clients have written one row, and that a computed
stamp is still above all others when it is given, which needs one writer at a
time: from it follows `StampsGrow`.

`PromptPollHolds` rests on `AllInformed`. `PromptPollSeesAll` speaks of an idle
client after its poll; in between, the client shows the rows as its own
statements see them, but for rows with the highest stamp, which is above the one
it knows and which its next poll will load (`Pending`). A commit is what makes
rows pending: with one writer its stamp is above all others (`CommitTop`), so
one commit is read as a whole, and a client that has polled before the next one
misses nothing. What a client's own commit writes it already shows. With two
writers both can compute the same stamp; the client that commits first then
knows that stamp, and its poll does not reload what the other one wrote, so the
theorem assumes `OneWriter`.

`KeyPasswords_proofs`. `Agreed` is inductive: types, and, while nobody was
misled, `PasswordOpensKeys` and `SessionsAgree`, which says that settings and
`passHash` of every client belong to the password of its database. Neither is
inductive alone: a key is stored with the password in memory, and memory is
right because the settings were read from the database or cleared with it.
`TypeOK` is needed for more than types there: a client has objects of the keys
of its own database only. `LegacyStaysGone` and `PrivateStaysPrivate` follow
action by action. All hold for any number of clients, databases and keys and
with failures.

`CaRevocations_proofs`. `Invariant` is `TypeOK`, `Numbers` and `Revocations`.
`Numbers` says that, while `calm`, an object that is up to date knows the last
number, a CRL being made has a greater one and `lastNo` bounds all numbers of
the CA; `LastNumber` and `CrlNumbersGrow` follow. `Revocations` says that the
rows have no serial twice that was not typed, that the number of a row is that
of a CRL which has the serial, as has each later one, and the same of the copy
a handler or dialog holds and of the CRL that is signed but not stored: the
list is rewritten from copies, so nothing about rows is inductive without them.
`RevocationsStay` follows step by step.

`KeyLinks_proofs`. `Invariant` is the types with what a completion is about
(`Completable`), `OwnLinks`, `Linked`, `MemoryLinks` and `KeysKept`. `OwnLinks`
says of every reference, stored or in any process, that it leads to a key of
its document while no failed insertion left links (`hung`); it holds although
deleted items stay in the `Store`, since an id is never given again while
something refers to it. `Linked` says, while nobody was overtaken, that
documents refer to their keys, no key is there twice, stored hashes are those
of the keys and a completion in progress has the only key of its public key:
hashes matter because rows are looked up by them. The theorems hold for any
number of processes, keys, ids and whichever hashes collide.

Model-checked only: `NewsArrives`, as liveness is out of the provers' reach.
Nothing is proved about databases with several writers beyond `NestedIsFlat` and
`TypeCorrect`, which do not assume `OneWriter`, nor about the placement of
certificates when the documents are not `Conventional`, where TLC refutes it.

## Not modelled

Schema upgrades (`initSqlDB`) are lists of SQL statements; whether a crash
leaves a database between two versions depends on the servers, which commit DDL
statements implicitly or not. The upgrade of one version is a transaction of
`DbTransaction` where DDL is transactional. Serial numbers and dates as bounded
numbers, the signed flag of requests and keys on tokens are left out (see
"Plan"). Parsing and formatting over OpenSSL (extensions, names, file formats,
PKCS#12 and PKCS#7), templates, tokens, views beyond the conditions of the
context menu, the command line and helper threads have no state shared with the
parts modelled; `PROJECT.json` lists each with its reason.
