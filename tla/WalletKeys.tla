----------------------------- MODULE WalletKeys -----------------------------
(***************************************************************************)
(* The keys of the wallet: the key store (keystore.cpp), its encryption    *)
(* (crypter.cpp and CWallet::EncryptWallet), the pool of keys made in      *)
(* advance (wallet.cpp), and wallet.dat, with a process that may be killed *)
(* between any two writes and writes that may fail.                        *)
(*                                                                         *)
(* A key is a number, drawn in order.  A ciphertext is the name of the     *)
(* master key that opens it, and a master key record is the pair of a      *)
(* passphrase and the master key it opens.  A wallet file is the record    *)
(* of what its entries load to.  Berkeley DB is taken at its word: a       *)
(* committed write survives the process, an open transaction does not.     *)
(* One GUI thread issues the operations and cs_wallet is held over each,   *)
(* so only a crash comes between the steps of one of them.                 *)
(***************************************************************************)
EXTENDS Integers, FiniteSets

CONSTANTS Passphrases, PoolTarget, MaxKey, MaxMasterKeys, MaxWriteFaults, MaxCrashes

VARIABLES mem,      \* CWallet and its key store
          file,     \* wallet.dat, wallet.dat.rewrite and the open transaction
          op,       \* the operation in progress
          user,     \* what the user knows: addresses given out, passphrase
          made,     \* the last key drawn
          writeFaults, crashes

kvars == <<mem, file, op, user, made, writeFaults, crashes>>

FEATURE_BASE == 10500
FEATURE_WALLETCRYPT == 40000
FEATURE_LATEST == 60000

NoFun == [x \in {} |-> 0]
With(f, x, v) == [y \in DOMAIN f \cup {x} |-> IF y = x THEN v ELSE f[y]]
Without(f, x) == [y \in DOMAIN f \ {x} |-> f[y]]
Least(S) == CHOOSE x \in S : \A y \in S : x <= y
Greatest(S) == CHOOSE x \in S : \A y \in S : x >= y

EmptyDat == [keys |-> {}, ckeys |-> NoFun, mkeys |-> NoFun, pool |-> NoFun,
             default |-> 0, minversion |-> 0, slack |-> {}]
Gone == <<>>

NewWallet == [keys |-> {}, ckeys |-> NoFun, crypto |-> FALSE, master |-> 0,
              mkeys |-> NoFun, maxID |-> 0, pool |-> {}, default |-> 0,
              version |-> FEATURE_BASE, max |-> FEATURE_BASE]

Idle == [name |-> "idle", key |-> 0, index |-> 0, left |-> 0]

IsLocked(m) == m.crypto /\ m.master = 0

HaveKey(m, k) == k \in m.keys \/ k \in DOMAIN m.ckeys

(***************************************************************************)
(* CWalletDB::LoadWallet.  Plain key records sort before encrypted ones,   *)
(* and LoadCryptedKey refuses a store that holds plain keys: such a file   *)
(* is corrupt, and the node does not start with it.                        *)
(***************************************************************************)
LoadFails(dat) == dat.keys # {} /\ dat.ckeys # NoFun

\* ReadKeyValue over the records of the file.
ReadKeyValue(dat) ==
    [NewWallet EXCEPT
        !.keys = dat.keys, !.ckeys = dat.ckeys, !.crypto = dat.ckeys # NoFun,
        !.mkeys = dat.mkeys, !.pool = DOMAIN dat.pool, !.default = dat.default,
        !.maxID = IF dat.mkeys = NoFun THEN 0 ELSE Greatest(DOMAIN dat.mkeys)]

LoadWallet(dat) ==
    [ReadKeyValue(dat) EXCEPT
        !.version = IF dat.minversion = 0 THEN FEATURE_BASE ELSE dat.minversion,
        !.max = IF dat.minversion > FEATURE_BASE THEN dat.minversion ELSE FEATURE_BASE]

(***************************************************************************)
(* CCryptoKeyStore::SetCrypted, Lock, Unlock; CWallet::Unlock.  Unlock     *)
(* gives up at the first master key record the passphrase does not open,   *)
(* and tries the opened master key on one encrypted key only.              *)
(***************************************************************************)
SetCrypted(m) == m.crypto \/ m.keys = {}

Locked(m) == IF SetCrypted(m) THEN [m EXCEPT !.crypto = TRUE, !.master = 0] ELSE m

OpensStore(m, mk) ==
    SetCrypted(m) /\ (m.ckeys # NoFun => m.ckeys[Least(DOMAIN m.ckeys)] = mk)

Opens(m, pass) ==
    LET RECURSIVE Try(_)
        Try(ids) == IF ids = {} THEN 0
                    ELSE LET r == m.mkeys[Least(ids)]
                         IN  IF r.pass # pass THEN 0
                             ELSE IF OpensStore(m, r.mk) THEN r.mk
                             ELSE Try(ids \ {Least(ids)})
    IN  Try(DOMAIN m.mkeys)

Unlocked(m, pass) == IF IsLocked(m) /\ Opens(m, pass) # 0
                     THEN [m EXCEPT !.crypto = TRUE, !.master = Opens(m, pass)]
                     ELSE m

(***************************************************************************)
(* SetMinVersion in memory and as the records it writes.  Nothing calls    *)
(* SetMaxVersion, so an explicit upgrade past the maximum goes all the     *)
(* way.                                                                    *)
(***************************************************************************)
MinVersion(m, v, explicit) ==
    IF m.version >= v THEN m
    ELSE LET to == IF explicit /\ v > m.max THEN FEATURE_LATEST ELSE v
         IN  [m EXCEPT !.version = to, !.max = IF to > @ THEN to ELSE @]

WriteMinVersion(dat, m) ==
    IF m.version > FEATURE_WALLETCRYPT THEN [dat EXCEPT !.minversion = m.version]
    ELSE dat

(***************************************************************************)
(* The writes of a step: Done is the file when the write succeeds, and a   *)
(* failed write leaves it alone.                                           *)
(***************************************************************************)
Fault == writeFaults < MaxWriteFaults /\ writeFaults' = writeFaults + 1
Fine == writeFaults' = writeFaults

(***************************************************************************)
(* GenerateNewKey and AddKey: the store first, then the record.  A failed  *)
(* write throws out of the operation.                                      *)
(***************************************************************************)
AddKey(m, k) ==
    IF m.crypto THEN [m EXCEPT !.ckeys = With(@, k, m.master)]
    ELSE [m EXCEPT !.keys = @ \cup {k}]

WriteKey(dat, m, k) ==
    IF m.crypto THEN [dat EXCEPT !.ckeys = With(@, k, m.master)]
    ELSE [dat EXCEPT !.keys = @ \cup {k}]

GenerateNewKey(next) ==
    /\ made < MaxKey
    /\ made' = made + 1
    /\ mem' = AddKey(mem, made + 1)
    /\ \/ /\ file' = [file EXCEPT !.dat = WriteKey(@, mem, made + 1)]
          /\ op' = [op EXCEPT !.name = next, !.key = made + 1]
          /\ Fine
       \/ /\ Fault
          /\ op' = Idle
          /\ UNCHANGED file
    /\ UNCHANGED <<user, crashes>>

-----------------------------------------------------------------------------
(***************************************************************************)
(* A new receiving address (AddressTableModel::addRow, through             *)
(* GetKeyFromPool) or a change key (CReserveKey in sendCoins).  Both run   *)
(* with the wallet unlocked and top the pool up first.                     *)
(***************************************************************************)
Begin(name) ==
    /\ op = Idle /\ file.dat # Gone
    /\ ~IsLocked(mem)
    /\ op' = [Idle EXCEPT !.name = name]
    /\ UNCHANGED <<mem, file, user, made, writeFaults, crashes>>

NewAddress == mem.default # 0 /\ Begin("address")

SendCoins == mem.default # 0 /\ Begin("send")

\* AppInit2: a wallet without a default key gets one from the pool.
FirstRun == mem.default = 0 /\ Begin("first")

PoolUsers == {"address", "send", "first"}

TopUpKeyPool ==
    /\ op.name \in PoolUsers /\ op.key = 0
    /\ Cardinality(mem.pool) < PoolTarget + 1
    /\ GenerateNewKey(op.name)

TopUpWrite ==
    /\ op.name \in PoolUsers /\ op.key # 0 /\ op.index = 0
    /\ LET nEnd == IF mem.pool = {} THEN 1 ELSE Greatest(mem.pool) + 1
       IN  \/ /\ file' = [file EXCEPT !.dat.pool = With(@, nEnd, op.key)]
              /\ mem' = [mem EXCEPT !.pool = @ \cup {nEnd}]
              /\ op' = [op EXCEPT !.key = 0]
              /\ Fine
           \/ Fault /\ op' = Idle /\ UNCHANGED <<file, mem>>
    /\ UNCHANGED <<user, made, crashes>>

(***************************************************************************)
(* ReserveKeyFromKeyPool: the oldest index leaves the set, and its record  *)
(* must be there and name a known key, or the call throws.                 *)
(***************************************************************************)
(* The variant leaves the index in the set. *)
ReserveKeyKept ==
    /\ op.name \in PoolUsers /\ op.key = 0
    /\ Cardinality(mem.pool) >= PoolTarget + 1
    /\ LET n == Least(mem.pool)
       IN  op' = IF n \in DOMAIN file.dat.pool /\ HaveKey(mem, file.dat.pool[n])
                 THEN [op EXCEPT !.index = n, !.key = file.dat.pool[n]] ELSE Idle
    /\ UNCHANGED <<mem, file, user, made, writeFaults, crashes>>

ReserveKey ==
    /\ op.name \in PoolUsers /\ op.key = 0
    /\ Cardinality(mem.pool) >= PoolTarget + 1
    /\ LET n == Least(mem.pool)
       IN  /\ mem' = [mem EXCEPT !.pool = @ \ {n}]
           /\ op' = IF n \in DOMAIN file.dat.pool /\ HaveKey(mem, file.dat.pool[n])
                    THEN [op EXCEPT !.index = n, !.key = file.dat.pool[n]]
                    ELSE Idle
    /\ UNCHANGED <<file, user, made, writeFaults, crashes>>

\* KeepKey ignores whether the record went.
KeepKey ==
    /\ op.index # 0
    /\ \/ /\ file' = [file EXCEPT !.dat.pool = Without(@, op.index)]
          /\ user' = [user EXCEPT !.given = @ \cup {op.key}]
          /\ Fine
       \/ /\ Fault
          /\ user' = [user EXCEPT !.given = @ \cup {op.key}, !.silent = @ \cup {"keep"}]
          /\ UNCHANGED file
    /\ op' = IF op.name = "first" THEN [Idle EXCEPT !.name = "default", !.key = op.key]
             ELSE Idle
    /\ UNCHANGED <<mem, made, crashes>>

\* A send that fails or is declined: ~CReserveKey gives the key back.
ReturnKey ==
    /\ op.name = "send" /\ op.index # 0
    /\ mem' = [mem EXCEPT !.pool = @ \cup {op.index}]
    /\ op' = Idle
    /\ UNCHANGED <<file, user, made, writeFaults, crashes>>

SetDefaultKey ==
    /\ op.name = "default"
    /\ \/ /\ file' = [file EXCEPT !.dat.default = op.key]
          /\ mem' = [mem EXCEPT !.default = op.key]
          /\ Fine
       \/ Fault /\ UNCHANGED <<file, mem>>
    /\ op' = Idle
    /\ UNCHANGED <<user, made, crashes>>

-----------------------------------------------------------------------------
(***************************************************************************)
(* EncryptWallet.  A failed TxnBegin returns with the master key already   *)
(* in mapMasterKeys.  A failure to write a key or to commit ends the       *)
(* process, and the file is still the unencrypted one.  Encrypting the new *)
(* wallet that a crash inside Rewrite leads to is left out: its Rewrite    *)
(* would merge into the stale wallet.dat.rewrite (DB_NOOVERWRITE, with     *)
(* DB_KEYEXIST ignored).                                                   *)
(***************************************************************************)
EncryptWallet(pass) ==
    /\ op = Idle /\ ~mem.crypto /\ file.dat # Gone /\ mem.default # 0
    /\ mem.maxID < MaxMasterKeys /\ file.rewrite = Gone
    /\ LET id == mem.maxID + 1
           r == [pass |-> pass, mk |-> id]
       IN  /\ mem' = [mem EXCEPT !.mkeys = With(@, id, r), !.maxID = id]
           /\ \/ /\ file' = [file EXCEPT !.txn = [file.dat EXCEPT !.mkeys = With(@, id, r)]]
                 /\ op' = [Idle EXCEPT !.name = "encrypt"]
                 /\ user' = [user EXCEPT !.pass = pass]
                 /\ Fine
              \/ /\ Fault
                 /\ user' = [user EXCEPT !.halfdone = TRUE]
                 /\ UNCHANGED <<file, op>>
    /\ UNCHANGED <<made, crashes>>

Exit == mem' = NewWallet /\ op' = [Idle EXCEPT !.name = "down"]

EncryptKeys ==
    /\ op.name = "encrypt"
    /\ LET mk == mem.maxID
           crypted == [k \in mem.keys |-> mk]
           m == MinVersion([mem EXCEPT !.keys = {}, !.ckeys = crypted, !.crypto = TRUE],
                           FEATURE_WALLETCRYPT, TRUE)
       IN  \/ /\ mem' = m
              /\ file' = [file EXCEPT !.txn =
                            WriteMinVersion([@ EXCEPT !.keys = {}, !.ckeys = crypted,
                                                      !.slack = @ \cup file.dat.keys], m)]
              /\ op' = [op EXCEPT !.name = "commit"]
              /\ Fine
           \/ Fault /\ Exit /\ file' = [file EXCEPT !.txn = Gone]
    /\ UNCHANGED <<user, made, crashes>>

CommitTxn ==
    /\ op.name = "commit"
    /\ \/ /\ file' = [file EXCEPT !.dat = file.txn, !.txn = Gone]
          /\ mem' = Unlocked(Locked(mem), user.pass)
          /\ op' = [op EXCEPT !.name = "erase"]
          /\ Fine
       \/ Fault /\ Exit /\ file' = [file EXCEPT !.txn = Gone]
    /\ UNCHANGED <<user, made, crashes>>

(***************************************************************************)
(* NewKeyPool: the old records go one by one, then new keys are written    *)
(* under the indices from 1.  It checks neither result.                    *)
(***************************************************************************)
ErasePool ==
    /\ op.name = "erase"
    /\ \E gone \in SUBSET mem.pool :
         /\ file' = [file EXCEPT !.dat.pool =
                       [n \in DOMAIN @ \ gone |-> file.dat.pool[n]]]
         /\ IF gone = mem.pool THEN Fine /\ UNCHANGED user
            ELSE Fault /\ user' = [user EXCEPT !.silent = @ \cup {"pool"}]
    /\ mem' = [mem EXCEPT !.pool = {}]
    /\ op' = IF IsLocked(mem) \/ PoolTarget = 0 THEN [op EXCEPT !.name = "rewrite"]
             ELSE [op EXCEPT !.name = "newpool", !.left = PoolTarget]
    /\ UNCHANGED <<made, crashes>>

NewPoolKey ==
    /\ op.name = "newpool" /\ op.key = 0
    /\ GenerateNewKey("newpool")

NewPoolWrite ==
    /\ op.name = "newpool" /\ op.key # 0
    /\ LET n == PoolTarget - op.left + 1
       IN  /\ mem' = [mem EXCEPT !.pool = @ \cup {n}]
           /\ \/ file' = [file EXCEPT !.dat.pool = With(@, n, op.key)] /\ Fine /\ UNCHANGED user
              \/ Fault /\ user' = [user EXCEPT !.silent = @ \cup {"pool"}] /\ UNCHANGED file
    /\ op' = [op EXCEPT !.key = 0, !.left = @ - 1,
                        !.name = IF op.left = 1 THEN "rewrite" ELSE @]
    /\ UNCHANGED <<made, crashes>>

(***************************************************************************)
(* Lock and CDB::Rewrite: copy the records (not the slack) into            *)
(* wallet.dat.rewrite, remove wallet.dat, rename.  EncryptWallet ignores   *)
(* a failure, which leaves the old file in place.                          *)
(***************************************************************************)
RewriteCopy ==
    /\ op.name = "rewrite"
    /\ mem' = Locked(mem)
    /\ \/ /\ file' = [file EXCEPT !.rewrite = [file.dat EXCEPT !.slack = {}]]
          /\ op' = [op EXCEPT !.name = "remove"]
          /\ Fine /\ UNCHANGED user
       \/ /\ Fault
          /\ user' = [user EXCEPT !.silent = @ \cup {"rewrite"}, !.encrypted = TRUE]
          /\ op' = Idle
          /\ UNCHANGED file
    /\ UNCHANGED <<made, crashes>>

RewriteRemove ==
    /\ op.name = "remove"
    /\ file' = [file EXCEPT !.dat = Gone]
    /\ op' = [op EXCEPT !.name = "rename"]
    /\ UNCHANGED <<mem, user, made, writeFaults, crashes>>

RewriteRename ==
    /\ op.name = "rename"
    /\ file' = [file EXCEPT !.dat = file.rewrite, !.rewrite = Gone]
    /\ op' = Idle
    /\ user' = [user EXCEPT !.encrypted = TRUE]
    /\ UNCHANGED <<mem, made, writeFaults, crashes>>

-----------------------------------------------------------------------------
Lock ==
    /\ op = Idle /\ mem.crypto /\ mem.master # 0
    /\ mem' = Locked(mem)
    /\ UNCHANGED <<file, op, user, made, writeFaults, crashes>>

Unlock(pass) ==
    /\ op = Idle /\ IsLocked(mem)
    /\ mem' = Unlocked(mem, pass)
    /\ mem' # mem
    /\ UNCHANGED <<file, op, user, made, writeFaults, crashes>>

(***************************************************************************)
(* WalletModel::changePassphrase and ChangeWalletPassphrase: the wallet is *)
(* locked whatever happens; the record in memory changes and is written,   *)
(* and the result of the write is ignored.                                 *)
(***************************************************************************)
ChangeWalletPassphrase(old, new) ==
    /\ op = Idle /\ mem.crypto
    /\ LET mk == Opens(Locked(mem), old)
           ids == {id \in DOMAIN mem.mkeys : mem.mkeys[id].mk = mk}
           r == [pass |-> new, mk |-> mk]
       IN  IF mk = 0
           THEN mem' = Locked(mem) /\ UNCHANGED <<file, user, writeFaults>>
           ELSE /\ mem' = [Locked(mem) EXCEPT !.mkeys = With(@, Least(ids), r)]
                /\ \/ /\ file' = [file EXCEPT !.dat.mkeys = With(@, Least(ids), r)]
                      /\ user' = [user EXCEPT !.pass = new]
                      /\ Fine
                   \/ /\ Fault
                      /\ user' = [user EXCEPT !.pass = new, !.silent = @ \cup {"mkey"}]
                      /\ UNCHANGED file
    /\ UNCHANGED <<op, made, crashes>>

\* The process dies: an open transaction is rolled back at the next start.
Crash ==
    /\ op.name # "down" /\ crashes < MaxCrashes
    /\ crashes' = crashes + 1
    /\ Exit
    /\ file' = [file EXCEPT !.txn = Gone]
    /\ UNCHANGED <<user, made, writeFaults>>

(***************************************************************************)
(* The next start opens wallet.dat with DB_CREATE: a missing file is a new *)
(* wallet.                                                                 *)
(***************************************************************************)
Restart ==
    /\ op.name = "down"
    /\ file.dat # Gone => ~LoadFails(file.dat)
    /\ file' = [file EXCEPT !.dat = IF @ = Gone THEN EmptyDat ELSE @]
    /\ mem' = LoadWallet(file'.dat)
    /\ op' = Idle
    /\ UNCHANGED <<user, made, writeFaults, crashes>>

WalletInit ==
    /\ mem = NewWallet
    /\ file = [dat |-> EmptyDat, rewrite |-> Gone, txn |-> Gone]
    /\ op = Idle
    /\ user = [given |-> {}, pass |-> 0, encrypted |-> FALSE, silent |-> {},
               halfdone |-> FALSE]
    /\ made = 0 /\ writeFaults = 0 /\ crashes = 0

WalletNext ==
    \/ NewAddress \/ SendCoins \/ FirstRun
    \/ TopUpKeyPool \/ TopUpWrite \/ ReserveKey \/ KeepKey \/ ReturnKey \/ SetDefaultKey
    \/ \E p \in Passphrases : EncryptWallet(p) \/ Unlock(p)
    \/ EncryptKeys \/ CommitTxn \/ ErasePool \/ NewPoolKey \/ NewPoolWrite
    \/ RewriteCopy \/ RewriteRemove \/ RewriteRename
    \/ Lock
    \/ \E old, new \in Passphrases : ChangeWalletPassphrase(old, new)
    \/ Crash \/ Restart

WalletSpec == WalletInit /\ [][WalletNext]_kvars

-----------------------------------------------------------------------------
\* What is left on disk for the next start, or for the user to rename.
Images == {d \in {file.dat, file.rewrite} : d # Gone}

Recovers(d, k) ==
    \/ k \in d.keys
    \/ /\ k \in DOMAIN d.ckeys
       /\ \E id \in DOMAIN d.mkeys :
            /\ d.mkeys[id].mk = d.ckeys[k]
            /\ d.mkeys[id].pass = user.pass \/ "mkey" \in user.silent

(***************************************************************************)
(* Whenever the process dies, every key whose address was given out is in  *)
(* wallet.dat or in the copy that replaces it, under the passphrase the    *)
(* user last set, and the file loads: encrypting, changing the passphrase  *)
(* and rewriting lose no key at any point.                                 *)
(***************************************************************************)
KeysRecoverable ==
    /\ \A k \in user.given : \E d \in Images : Recovers(d, k)
    /\ \A d \in Images : ~LoadFails(d) /\ (d.ckeys # NoFun => d.minversion = FEATURE_LATEST)

(***************************************************************************)
(* The pool in memory and the pool on disk agree: each index the wallet    *)
(* will take has a record, of a key the store has, that no other index has *)
(* and that was never given out; so ReserveKeyFromKeyPool does not throw   *)
(* and no address is handed out twice, over crashes and encryption.        *)
(***************************************************************************)
PoolSound ==
    user.silent \cap {"keep", "pool"} = {} /\ op.name # "down" /\ file.dat # Gone =>
      \A n \in mem.pool :
        /\ n \in DOMAIN file.dat.pool
        /\ HaveKey(mem, file.dat.pool[n])
        /\ file.dat.pool[n] \notin user.given
        /\ \A n2 \in mem.pool : file.dat.pool[n2] = file.dat.pool[n] => n2 = n

(***************************************************************************)
(* Once EncryptWallet has returned true and nothing it does not check      *)
(* failed, no page of wallet.dat holds an unencrypted key; and the user's  *)
(* passphrase opens the locked wallet in memory.                           *)
(***************************************************************************)
EncryptionComplete ==
    /\ user.encrypted /\ "rewrite" \notin user.silent /\ mem.crypto /\ file.dat # Gone =>
         file.dat.keys = {} /\ file.dat.slack = {}
    /\ IsLocked(mem) /\ op = Idle /\ ~user.halfdone /\ "mkey" \notin user.silent => Opens(mem, user.pass) # 0

(***************************************************************************)
(* Keys are safe: with wallet.dat and the passphrase the user has, every   *)
(* key whose address was given out can be recovered after a crash          *)
(* anywhere; the key pool lists only keys there are; and once              *)
(* EncryptWallet is done no file holds a plain key (wallet.cpp,            *)
(* crypter.cpp, db.cpp's Rewrite).                                         *)
(***************************************************************************)
KeysSafe == KeysRecoverable /\ PoolSound /\ EncryptionComplete
=============================================================================
