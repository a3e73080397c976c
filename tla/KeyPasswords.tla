----------------------------- MODULE KeyPasswords -----------------------------
(***************************************************************************)
(* The database password and the passwords of the private keys:            *)
(* lib/settings.cpp, database_model::initPass() and the constructor around *)
(* it, lib/db_key.cpp, the encryption of lib/pki_evp.cpp and changeDbPass()*)
(* of widgets/MainWindow.cpp.                                              *)
(*                                                                         *)
(* A database stores the hash of its password; the private keys in it are  *)
(* encrypted with that password ("common") or with one of their own        *)
(* ("private").  A running XCA keeps the settings, the hash and the        *)
(* password in static variables and the password type of every key in its  *)
(* object.                                                                 *)
(***************************************************************************)
EXTENDS Naturals

CONSTANTS
  Client,    \* the running XCAs
  Db,        \* the databases
  Key,       \* the private keys
  DbOf,      \* the database of each key
  Password,
  Empty,     \* the empty password, also the value of a cleansed Passwd
  MayFail    \* whether statements of a database may fail

ASSUME DbOfAssumption == DbOf \in [Key -> Db]
ASSUME EmptyAssumption == Empty \in Password
ASSUME MayFailAssumption == MayFail \in BOOLEAN

\* The value of setting pwhash: salted and iterated, salted (both sha512),
\* md5, or not there. The salt is left out.
Hash == [style : {"T", "S", "md5"}, of : Password] \cup [style : {"none"}, of : {Empty}]
NoHash == [style |-> "none", of |-> Empty]
T(p) == [style |-> "T", of |-> p]

\* private_keys.ownPass and pki_evp::ownPass; "absent" is a row or an object
\* that is not there.
OwnPass == {"absent", "common", "private"}

VARIABLES
  hash,       \* DB: pwhash in table settings
  own,        \* DB: private_keys.ownPass
  lock,       \* DB: the password that decrypts private_keys.private
  legacy,     \* DB: keys in the format of XCA before PKCS#8
  converted,  \* DB: databases with setting legacy-keys-updated
  mode,       \* the database_model of the client
  db,         \* its database
  loaded,     \* clients with settings::loaded
  setting,    \* Settings["pwhash"] as load_settings() or set() left it
  flagged,    \* clients with Settings["legacy-keys-updated"]
  passHash,   \* pki_evp::passHash
  passwd,     \* pki_evp::passwd
  known,      \* pki_evp::ownPass of the objects in the Store
  misled      \* history: a client went on with a password or with settings
              \* that are not those of its database

dbVars == <<hash, own, lock, legacy, converted>>
session == <<mode, db, loaded, setting, flagged, passHash, passwd>>
vars == <<dbVars, session, known, misled>>

\* "aborted": the constructor of database_model threw an open_result.
Mode == {"closed", "asking", "open", "aborted"}

Set(f, c, v) == [f EXCEPT ![c] = v]
KeysOf(d) == {k \in Key : DbOf[k] = d}
Others(c) == {e \in Client \ {c} : db[e] = db[c] /\ mode[e] \in {"asking", "open"}}

\* The keys of d as a SELECT returns them.
Rows(d) == [k \in Key |-> IF DbOf[k] = d THEN own[k] ELSE "absent"]
NoRows == [k \in Key |-> "absent"]

\* validateDatabasePassword() accepts the password of the hash (not of an md5
\* hash); the loops around it ask the user until it does.
Usable(c) == passHash[c].style \in {"T", "S"}

\* decryptKey() succeeds on an object with password type t: the user knows
\* private passwords.
Decrypts(c, k, t) ==
  /\ own[k] # "absent"
  /\ t = "common" => Usable(c) /\ lock[k] = passHash[c].of

------------------------------------------------------------------------------
(* Opening and closing a database.                                         *)

\* openDatabase(), initSqlDB() and the first lines of initPass(). Settings
\* are read once; they are still there if the last opening was aborted.
Open(c, d) ==
  /\ mode[c] \in {"closed", "aborted"}
  /\ mode' = Set(mode, c, "asking")
  /\ db' = Set(db, c, d)
  /\ loaded' = loaded \cup {c}
  /\ IF c \in loaded
     THEN UNCHANGED <<setting, flagged>>
     ELSE /\ setting' = Set(setting, c, hash[d])
          /\ flagged' = IF d \in converted THEN flagged \cup {c} ELSE flagged
  /\ passHash' = Set(passHash, c, setting'[c])
  /\ misled' = (misled \/ (mode[c] = "aborted" /\ setting[c] # hash[d]))
  /\ UNCHANGED <<dbVars, passwd, known>>

AllConverted_Common(d, old) == \A k \in old \cap KeysOf(d) : own[k] = "private"

\* No key of d is left in the old format.
AllConverted(d, old) == old \cap KeysOf(d) = {}

\* Old keys updateKeyEncryptionScheme() can decrypt with password p.
Convertible(d, p) ==
  {k \in legacy \cap KeysOf(d) : own[k] = "common" /\ lock[k] = p}

\* The rest of the constructor: the containers are loaded and old keys are
\* converted, all or, if an update fails, none of them.
Opened(c, p) ==
  /\ passHash' = Set(passHash, c, T(p))
  /\ passwd' = Set(passwd, c, p)
  /\ mode' = Set(mode, c, "open")
  /\ known' = Set(known, c, Rows(db[c]))
  /\ IF c \in flagged
     THEN UNCHANGED <<legacy, converted, flagged>>
     ELSE /\ \/ legacy' = legacy \ Convertible(db[c], p)
             \/ MayFail /\ legacy' = legacy
          /\ IF AllConverted(db[c], legacy')
             THEN /\ flagged' = flagged \cup {c}
                  /\ \/ converted' = converted \cup {db[c]}
                     \/ MayFail /\ converted' = converted
             ELSE UNCHANGED <<converted, flagged>>
  /\ UNCHANGED <<own, lock, db, loaded>>

\* A database without a hash gets a new password. The INSERT fails if another
\* client was faster, and nobody looks at its result.
NewPass(c, p) ==
  /\ mode[c] = "asking"
  /\ setting[c] = NoHash
  /\ setting' = Set(setting, c, T(p))
  /\ \/ /\ hash' = IF hash[db[c]] = NoHash THEN Set(hash, db[c], T(p)) ELSE hash
        /\ misled' = (misled \/ Others(c) # {})
     \/ /\ MayFail
        /\ misled' = TRUE
        /\ UNCHANGED hash
  /\ Opened(c, p)

\* The user gives the password of the hash or it is the empty one, which is
\* tried first. pwhash_upgrade() replaces old hashes in memory only.
GivePass(c, p) ==
  /\ mode[c] = "asking"
  /\ setting[c] # NoHash
  /\ setting[c].of = p
  /\ Opened(c, p)
  /\ UNCHANGED <<hash, setting, misled>>

\* The dialog is shown and is not answered with the password.
Dismissed(c) ==
  /\ mode[c] = "asking"
  /\ setting[c] = NoHash \/ setting[c].of # Empty

\* Cancel, or --no-gui without a password: the database is opened all the same.
Cancel(c) ==
  /\ Dismissed(c)
  /\ setting[c] # NoHash
  /\ mode' = Set(mode, c, "open")
  /\ known' = Set(known, c, Rows(db[c]))
  /\ UNCHANGED <<dbVars, db, loaded, setting, flagged, passHash, passwd, misled>>

\* Exit, or Cancel without a hash: the constructor throws and no destructor
\* clears the settings. init_database() catches it.
Abort(c) ==
  /\ Dismissed(c)
  /\ mode' = Set(mode, c, "aborted")
  /\ UNCHANGED <<dbVars, db, loaded, setting, flagged, passHash, passwd, known, misled>>

ClearSettings_Never(c) == UNCHANGED <<loaded, setting, flagged>>

\* settings::clear()
ClearSettings(c) ==
  /\ loaded' = loaded \ {c}
  /\ setting' = Set(setting, c, NoHash)
  /\ flagged' = flagged \ {c}

Close_NoFlush(c) ==
  /\ mode[c] = "open"
  /\ mode' = Set(mode, c, "closed")
  /\ ClearSettings(c)
  /\ passwd' = Set(passwd, c, Empty)
  /\ UNCHANGED <<dbVars, db, passHash, known, misled>>

\* ~database_model()
Close(c) ==
  /\ mode[c] = "open"
  /\ mode' = Set(mode, c, "closed")
  /\ ClearSettings(c)
  /\ passwd' = Set(passwd, c, Empty)
  /\ known' = Set(known, c, NoRows)
  /\ UNCHANGED <<dbVars, db, passHash, misled>>

\* The process ends, or crashes, and is started again.
Restart(c) ==
  /\ mode' = Set(mode, c, "closed")
  /\ ClearSettings(c)
  /\ passHash' = Set(passHash, c, NoHash)
  /\ passwd' = Set(passwd, c, Empty)
  /\ known' = Set(known, c, NoRows)
  /\ UNCHANGED <<dbVars, db, misled>>

------------------------------------------------------------------------------
(* Operations on the keys of an open database.                             *)

\* insert() of a generated or imported key, encrypted for ptCommon. Ids of
\* items are not used twice.
InsertKey(c, k) ==
  /\ mode[c] = "open"
  /\ DbOf[k] = db[c]
  /\ own[k] = "absent"
  /\ \A e \in Client : known[e][k] = "absent"
  /\ Usable(c)
  /\ own' = Set(own, k, "common")
  /\ lock' = Set(lock, k, passHash[c].of)
  /\ known' = [known EXCEPT ![c][k] = "common"]
  /\ UNCHANGED <<hash, legacy, converted, session, misled>>

DeleteKey(c, k) ==
  /\ known[c][k] # "absent"
  /\ own' = Set(own, k, "absent")
  /\ lock' = Set(lock, k, Empty)
  /\ legacy' = legacy \ {k}
  /\ known' = [known EXCEPT ![c][k] = "absent"]
  /\ UNCHANGED <<hash, converted, session, misled>>

\* encryptKey() and sqlUpdatePrivateKey() of a key with password type t; p is
\* the answer to the dialog for a private password.
EncryptsTo(c, k, t, p) ==
  /\ Decrypts(c, k, known[c][k])
  /\ t = "common" => Usable(c) /\ p = passHash[c].of

\* The context menu offers to set an own password or to go back to the common one.
OtherType(t) == IF t = "common" THEN "private" ELSE "common"

SetOwnPass(c, k, p) ==
  LET t == OtherType(known[c][k])
  IN /\ known[c][k] # "absent"
     /\ EncryptsTo(c, k, t, p)
     /\ own' = Set(own, k, t)
     /\ lock' = Set(lock, k, p)
     /\ legacy' = legacy \ {k}
     /\ known' = [known EXCEPT ![c][k] = t]
     /\ UNCHANGED <<hash, converted, session, misled>>

\* The update failed. The second setOwnPass(), which is to restore the type,
\* decrypts the old row as the new type: if it throws the object keeps that.
SetOwnPassFails(c, k, p) ==
  LET t == OtherType(known[c][k])
  IN /\ MayFail
     /\ known[c][k] # "absent"
     /\ EncryptsTo(c, k, t, p)
     /\ known' = [known EXCEPT ![c][k] = t]
     /\ UNCHANGED <<dbVars, session, misled>>

\* timerEvent(): the containers are loaded again.
Poll(c) ==
  /\ mode[c] = "open"
  /\ known' = Set(known, c, Rows(db[c]))
  /\ UNCHANGED <<dbVars, session, misled>>

------------------------------------------------------------------------------
(* Changing the password of the database.                                  *)

KeyList_All(c) == {k \in KeysOf(db[c]) : known[c][k] # "absent"}

\* SELECT item FROM private_keys WHERE ownPass=0, and of these the objects
\* the Store has.
KeyList(c) ==
  {k \in KeysOf(db[c]) : own[k] = "common" /\ known[c][k] # "absent"}
Unseen(c) ==
  {k \in KeysOf(db[c]) : own[k] = "common" /\ known[c][k] = "absent"}

\* The keys that are encrypted with the new password p; those whose object has
\* another type get q, a new password of their own.
Reencrypt(c, p, q) ==
  /\ own' = [k \in Key |-> IF k \in KeyList(c) THEN known[c][k] ELSE own[k]]
  /\ lock' = [k \in Key |-> IF k \notin KeyList(c) THEN lock[k]
                            ELSE IF known[c][k] = "common" THEN p ELSE q]
  /\ legacy' = legacy \ KeyList(c)

\* UPDATE settings SET value=? WHERE key_='pwhash'
UpdateHash(c, p) ==
  hash' = IF hash[db[c]] = NoHash THEN hash ELSE Set(hash, db[c], T(p))

Remember_NotTheHash(c, p) ==
  /\ setting' = Set(setting, c, T(p))
  /\ passwd' = Set(passwd, c, p)
  /\ UNCHANGED passHash

\* The new password goes to memory.
Remember(c, p) ==
  /\ setting' = Set(setting, c, T(p))
  /\ passHash' = Set(passHash, c, T(p))
  /\ passwd' = Set(passwd, c, p)

\* checkOldGetNewPass() knows only the new hash; a key that cannot be decrypted
\* throws before anything is changed. Failed updates, of a key, of the
\* setting or the commit, are ignored: the client goes on with the new password.
ChangeDbPass(c, p, q) ==
  /\ mode[c] = "open"
  /\ setting[c].style = "T"
  /\ \A k \in KeyList(c) : Decrypts(c, k, known[c][k])
  /\ Remember(c, p)
  /\ \/ /\ Reencrypt(c, p, q)
        /\ UpdateHash(c, p)
        /\ misled' = (misled \/ hash[db[c]] = NoHash \/ Others(c) # {} \/ Unseen(c) # {})
     \/ /\ MayFail
        /\ \/ Reencrypt(c, p, q)
           \/ UNCHANGED <<own, lock, legacy>>
        /\ misled' = TRUE
        /\ UNCHANGED hash
  /\ UNCHANGED <<converted, mode, db, loaded, flagged, known>>

------------------------------------------------------------------------------
\* A new database, or one of any earlier version: old hashes and old keys.
Init ==
  /\ hash \in [Db -> Hash]
  /\ own \in [Key -> OwnPass]
  /\ lock \in [Key -> Password]
  /\ \A k \in Key :
       /\ own[k] = "absent" => lock[k] = Empty
       /\ own[k] = "common" => lock[k] = hash[DbOf[k]].of
       /\ hash[DbOf[k]] = NoHash => own[k] = "absent"
  /\ legacy \in SUBSET {k \in Key : own[k] # "absent"}
  /\ converted = {}
  /\ mode = [c \in Client |-> "closed"]
  /\ db \in [Client -> Db]
  /\ loaded = {}
  /\ setting = [c \in Client |-> NoHash]
  /\ flagged = {}
  /\ passHash = [c \in Client |-> NoHash]
  /\ passwd = [c \in Client |-> Empty]
  /\ known = [c \in Client |-> NoRows]
  /\ misled = FALSE

OpenStep(c) ==
  \/ \E d \in Db : Open(c, d)
  \/ \E p \in Password : NewPass(c, p) \/ GivePass(c, p)
  \/ Cancel(c) \/ Abort(c) \/ Close(c) \/ Restart(c)

KeyStep(c) ==
  \/ \E k \in Key : InsertKey(c, k) \/ DeleteKey(c, k)
  \/ \E k \in Key, p \in Password : SetOwnPass(c, k, p) \/ SetOwnPassFails(c, k, p)
  \/ Poll(c)

Next ==
  \E c \in Client :
    \/ OpenStep(c)
    \/ KeyStep(c)
    \/ \E p, q \in Password : ChangeDbPass(c, p, q)

Spec == Init /\ [][Next]_vars

------------------------------------------------------------------------------
\* Every variable has its type, and a client has objects of the keys of the
\* database it has open only.
TypeOK ==
  /\ hash \in [Db -> Hash]
  /\ own \in [Key -> OwnPass]
  /\ lock \in [Key -> Password]
  /\ legacy \subseteq {k \in Key : own[k] # "absent"}
  /\ converted \subseteq Db
  /\ mode \in [Client -> Mode]
  /\ db \in [Client -> Db]
  /\ loaded \subseteq Client
  /\ setting \in [Client -> Hash]
  /\ flagged \subseteq Client
  /\ passHash \in [Client -> Hash]
  /\ passwd \in [Client -> Password]
  /\ known \in [Client -> [Key -> OwnPass]]
  /\ misled \in BOOLEAN
  /\ \A c \in Client, k \in Key :
       known[c][k] # "absent" => mode[c] = "open" /\ DbOf[k] = db[c]

\* The password a database asks for when it is opened decrypts all its keys of
\* type common (doc/rst/introduction.rst:33-38).
PasswordOpensKeys ==
  \A k \in Key :
    own[k] = "common" => hash[DbOf[k]] # NoHash /\ lock[k] = hash[DbOf[k]].of

\* It does as long as no client was misled: a client that went on after a
\* failed change of the password or an aborted opening, or two clients, one of
\* which changed the password unseen by the other.
KeysOpen == misled \/ PasswordOpensKeys

\* legacy-keys-updated is set only when no key of the old format is left, those
\* with a password of their own included, and no key of it comes back.
LegacyGone == \A k \in legacy : DbOf[k] \notin converted

\* A new database password leaves the keys with a password of their own alone:
\* nobody is asked for those passwords.
ChangeSparesPrivate ==
  [][\A k \in Key :
       hash'[DbOf[k]] # hash[DbOf[k]] /\ own[k] = "private" =>
         own'[k] = "private" /\ lock'[k] = lock[k] /\ (k \in legacy => k \in legacy')]_vars

\* What the clients go by is what the database has: the password type of the
\* keys aside, which may be stale.
SessionsAgree ==
  \A c \in Client :
    /\ mode[c] = "closed" => c \notin loaded
    /\ mode[c] = "open" =>
         /\ hash[db[c]] # NoHash
         /\ setting[c] # NoHash /\ setting[c].of = hash[db[c]].of
         /\ passHash[c].of = hash[db[c]].of
    /\ mode[c] = "asking" =>
         /\ setting[c] = NoHash <=> hash[db[c]] = NoHash
         /\ setting[c].of = hash[db[c]].of
         /\ passHash[c] = setting[c]

\* The inductive invariant of the proofs.
Agreed == TypeOK /\ (misled \/ (PasswordOpensKeys /\ SessionsAgree))

==============================================================================
