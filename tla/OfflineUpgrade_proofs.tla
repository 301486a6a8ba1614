------------------------- MODULE OfflineUpgrade_proofs -------------------------
(***************************************************************************)
(* No row of the user's database is lost by an upgrade, for any number of  *)
(* starts, rows, errors and killed processes; and an empty database takes  *)
(* its place only after a start has looked in the gap of a restore.        *)
(***************************************************************************)
EXTENDS OfflineUpgrade, TLAPS

Untouched == {"backup", "build", "sidecars", "swap"}
Rebuilding == {"backup"} \cup PastBackup
Serving == {"open", "create", "ready"}

OnLive == live.rows \cup live.wal
Kept == committed \ exposed

\* The lock keeps everybody else's hands off the database that is rebuilt.
Versioned ==
    \A p \in Starts : /\ pc[p] \in Untouched => live.version = "old"
                      /\ pc[p] \in {"sync", "check", "moveaway"} => live.version = "current"

\* The older backend has a log only in a database it knows.
Logs ==
    /\ old \in {"attached", "logless"} => live.version = "old"
    /\ live.wal # {} => old = "attached"
    /\ live.version \in {"absent", "bare"} => live.rows = {}

\* Only a user with rows has anything to upgrade.
Known ==
    /\ live.version = "old" => committed # {}
    /\ \A p \in Starts : pc[p] \in Rebuilding => committed # {}

\* What a swap will remove is in migration-backups, and so is every copy.
Archived ==
    /\ moved \subseteq archive
    /\ \A p \in Starts :
          /\ pc[p] \in {"build", "sidecars", "swap"} => OnLive \ exposed \subseteq archive
          /\ pc[p] \in PastBackup => backup[p] \subseteq archive

\* Nobody rebuilds while a start opens, creates or serves the database.
Exclusive ==
    /\ \A q \in Starts : pc[q] \in Serving =>
          /\ \A p \in Starts : pc[p] \notin Rebuilding
          /\ live.version # "old"
          /\ live.version \in {"absent", "bare"} => Kept = {}
          /\ pc[q] = "create" => live.version = "bare"
          /\ pc[q] = "ready" => live.version = "current"
    /\ \A p \in Starts : pc[p] = "putback" => live = Absent

\* The rows are in the live database, in its moved log, or in the copy.
Complete ==
    /\ /\ live.version # "absent"
       /\ \A p \in Starts : pc[p] # "swap"
       => Kept \subseteq OnLive
    /\ \A p \in Starts :
          /\ pc[p] \in PastBackup => Kept \subseteq backup[p]
          /\ pc[p] = "swap" => Kept \subseteq OnLive \cup (IF old = "logless" THEN moved ELSE {})
          /\ pc[p] \in {"sync", "check", "moveaway"} => backup[p] \subseteq live.rows

IInv ==
    /\ TypeOK /\ Versioned /\ Logs /\ Known /\ Archived /\ RowsOnDisk
    /\ ~gap => Exclusive
    /\ ~gap /\ ~torn => Complete

-----------------------------------------------------------------------------
USE StartsAssumption DEF files, locks, aux

\* The initial states satisfy the invariant.
LEMMA InitIInv == Init => IInv
<1> SUFFICES ASSUME Init PROVE IInv
  OBVIOUS
<1>0. /\ live \in [version : Versions, rows : SUBSET Rows, wal : SUBSET Rows]
      /\ live.wal = {}
      /\ \/ live.version = "absent" /\ live.rows = {}
         \/ live.version = "old" /\ live.rows # {}
  <2>1. CASE live = Absent
    BY <2>1 DEF Absent, Versions
  <2>2. ASSUME NEW rows \in (SUBSET Rows) \ {{}},
               live = [version |-> "old", rows |-> rows, wal |-> {}]
        PROVE  /\ live \in [version : Versions, rows : SUBSET Rows, wal : SUBSET Rows]
               /\ live.wal = {} /\ live.version = "old" /\ live.rows # {}
    <3>1. rows \in SUBSET Rows /\ rows \notin {{}}
      BY <2>2
    <3>2. rows # {}
      BY <3>1
    <3>3. live.rows = rows /\ live.wal = {} /\ live.version = "old"
      BY <2>2
    <3>4. live \in [version : Versions, rows : SUBSET Rows, wal : SUBSET Rows]
      BY <2>2, <3>1 DEF Versions
    <3> QED BY <3>2, <3>3, <3>4
  <2> QED BY <2>1, <2>2 DEF Init
<1>1. TypeOK
  <2>1. LocksOwned
    BY DEF Init, LocksOwned, Upgrading, Creating
  <2>2. pc \in [Starts -> Steps]
    BY DEF Init, Steps
  <2> QED BY <1>0, <2>1, <2>2 DEF Init, TypeOK
<1>2. Versioned /\ Logs /\ Known /\ Archived
  BY <1>0
     DEF Init, Versioned, Logs, Known, Archived, OnLive, Rebuilding, PastBackup, Untouched,
         Absent
<1>3. RowsOnDisk
  BY DEF Init, RowsOnDisk
<1>4. Exclusive
  BY DEF Init, Exclusive, Serving
<1>5. Complete
  BY DEF Init, Complete, OnLive, Kept, PastBackup
<1> QED BY <1>1, <1>2, <1>3, <1>4, <1>5 DEF IInv

\* A new start holds nothing yet.
LEMMA LaunchIInv == ASSUME IInv, NEW p \in Starts, Launch(p) PROVE IInv'
<1>1. TypeOK'
  BY DEF Launch, Goes, IInv, TypeOK, LocksOwned, Steps, Waiting, Upgrading, Creating,
         Versions, Absent
<1>2. Versioned' /\ Logs' /\ Known'
  BY DEF Launch, Goes, IInv, TypeOK, LocksOwned, Upgrading, Versioned, Logs, Known,
         Untouched, Rebuilding, PastBackup, Absent
<1>3. Archived' /\ RowsOnDisk'
  BY DEF Launch, Goes, IInv, TypeOK, LocksOwned, Upgrading, Versioned, Logs, Archived,
         RowsOnDisk, Exclusive, OnLive, PastBackup, Replacing, Absent
<1>4. ~gap' => Exclusive'
  BY DEF Launch, Goes, IInv, TypeOK, LocksOwned, Upgrading, Creating, Versioned, Logs,
         Known, Exclusive, Serving, Rebuilding, PastBackup, Kept, Absent
<1>5. ~gap' /\ ~torn' => Complete'
  BY DEF Launch, Goes, IInv, TypeOK, LocksOwned, Upgrading, Versioned, Logs, Exclusive,
         Complete, OnLive, Kept, Serving, Rebuilding, PastBackup, Replacing, Absent
<1> QED BY <1>1, <1>2, <1>3, <1>4, <1>5 DEF IInv

\* Reading the database's version decides where the start goes, and changes no file.
LEMMA LookIInv == ASSUME IInv, NEW p \in Starts, Look(p) PROVE IInv'
<1>1. TypeOK'
  <2>1. /\ upgradeLock # p /\ initLock # p
        /\ \/ pc' = [pc EXCEPT ![p] = "open"]
           \/ pc' = [pc EXCEPT ![p] = "wait"]
    BY DEF Look, Goes, IInv, TypeOK, LocksOwned, Upgrading, Creating
  <2>2. pc' \in [Starts -> Steps]
    BY <2>1 DEF IInv, TypeOK, Steps, Waiting
  <2>3. LocksOwned'
    BY <2>1 DEF Look, IInv, TypeOK, LocksOwned, Upgrading, Creating
  <2>4. gap' \in BOOLEAN
    BY DEF Look, IInv, TypeOK
  <2> QED BY <2>2, <2>3, <2>4 DEF Look, IInv, TypeOK
<1>2. Versioned' /\ Logs' /\ Known'
  BY DEF Look, Goes, IInv, TypeOK, LocksOwned, Upgrading, Versioned, Logs, Known, Untouched,
         Rebuilding, PastBackup, Absent
<1>3. Archived' /\ RowsOnDisk'
  BY DEF Look, Goes, IInv, TypeOK, LocksOwned, Upgrading, Versioned, Logs, Archived,
         RowsOnDisk, Exclusive, OnLive, PastBackup, Replacing, Absent
<1>4. ~gap' => Exclusive'
  BY ZenonT(60)
     DEF Look, Goes, IInv, TypeOK, LocksOwned, Upgrading, Creating, Versioned, Logs, Known,
         Exclusive, Serving, Rebuilding, PastBackup, Kept, Absent
<1>5. ~gap' /\ ~torn' => Complete'
  BY DEF Look, Goes, IInv, TypeOK, LocksOwned, Upgrading, Versioned, Logs, Exclusive,
         Complete, OnLive, Kept, Serving, Rebuilding, PastBackup, Replacing, Absent
<1> QED BY <1>1, <1>2, <1>3, <1>4, <1>5 DEF IInv

\* The lock is free, so no other start is between its backup and its release.
LEMMA AcquireIInv == ASSUME IInv, NEW p \in Starts, Acquire(p) PROVE IInv'
<1>1. TypeOK'
  <2>1. pc[p] = "wait" /\ initLock # p /\ pc' = [pc EXCEPT ![p] = "verify"]
    BY DEF Acquire, Goes, IInv, TypeOK, LocksOwned, Creating
  <2>2. pc' \in [Starts -> Steps]
    BY <2>1 DEF IInv, TypeOK, Steps, Upgrading
  <2>3. LocksOwned'
    BY <2>1, <2>2 DEF Acquire, IInv, TypeOK, LocksOwned, Upgrading, Creating
  <2> QED BY <2>2, <2>3 DEF Acquire, IInv, TypeOK
<1>2. Versioned' /\ Logs' /\ Known'
  BY DEF Acquire, Goes, IInv, TypeOK, LocksOwned, Upgrading, Versioned, Logs, Known,
         Untouched, Rebuilding, PastBackup, Absent
<1>3. Archived' /\ RowsOnDisk'
  BY DEF Acquire, Goes, IInv, TypeOK, LocksOwned, Upgrading, Versioned, Logs, Archived,
         RowsOnDisk, Exclusive, OnLive, PastBackup, Replacing, Absent
<1>4. ~gap' => Exclusive'
  BY SMTT(40) DEF Acquire, Goes, IInv, TypeOK, LocksOwned, Upgrading, Creating, Versioned,
         Logs, Known, Exclusive, Serving, Rebuilding, PastBackup, Kept, Absent
<1>5. ~gap' /\ ~torn' => Complete'
  BY DEF Acquire, Goes, IInv, TypeOK, LocksOwned, Upgrading, Versioned, Logs, Exclusive,
         Complete, OnLive, Kept, Serving, Rebuilding, PastBackup, Replacing, Absent
<1> QED BY <1>1, <1>2, <1>3, <1>4, <1>5 DEF IInv

\* An upgrade begins only on the version read again under the lock.
LEMMA VerifyIInv == ASSUME IInv, NEW p \in Starts, Verify(p) PROVE IInv'
<1>1. TypeOK'
  <2>1. live' \in [version : Versions, rows : SUBSET Rows, wal : SUBSET Rows]
    BY DEF Verify, Settled, IInv, TypeOK
  <2>2. pc[p] = "verify" /\ upgradeLock = p /\ initLock # p
    BY DEF Verify, IInv, TypeOK, LocksOwned, Upgrading, Creating
  <2>3. \/ pc' = [pc EXCEPT ![p] = "open"] /\ upgradeLock' = NoStart
        \/ pc' = [pc EXCEPT ![p] = "backup"] /\ upgradeLock' = upgradeLock
        \/ pc' = [pc EXCEPT ![p] = "raised"] /\ upgradeLock' = NoStart
    BY <2>2 DEF Verify, Goes, Raise, Freed
  <2>4. UNCHANGED <<archive, moved, initLock, backup, old, started, faults, aux>>
    BY DEF Verify
  <2>5. pc' \in [Starts -> Steps] /\ upgradeLock' \in Starts \cup {NoStart}
    BY <2>3 DEF IInv, TypeOK, Steps, Waiting, Upgrading
  <2>6. LocksOwned'
    BY <2>2, <2>3, <2>4 DEF IInv, TypeOK, LocksOwned, Upgrading, Creating
  <2> QED BY <2>1, <2>4, <2>5, <2>6 DEF IInv, TypeOK, aux
<1>2. Versioned' /\ Logs' /\ Known'
  BY DEF Verify, Goes, Raise, Freed, Settled, IInv, TypeOK, LocksOwned, Upgrading,
         Versioned, Logs, Known, Untouched, Rebuilding, PastBackup, Absent
<1>3. Archived' /\ RowsOnDisk'
  BY DEF Verify, Goes, Raise, Freed, Settled, IInv, TypeOK, LocksOwned, Upgrading,
         Versioned, Logs, Archived, RowsOnDisk, Exclusive, OnLive, PastBackup, Replacing,
         Absent
<1>4. ~gap' => Exclusive'
  BY DEF Verify, Goes, Raise, Freed, Settled, IInv, TypeOK, LocksOwned, Upgrading, Creating,
         Versioned, Logs, Known, Exclusive, Serving, Rebuilding, PastBackup, Kept, Absent
<1>5. ~gap' /\ ~torn' => Complete'
  BY DEF Verify, Goes, Raise, Freed, Settled, IInv, TypeOK, LocksOwned, Upgrading,
         Versioned, Logs, Exclusive, Complete, OnLive, Kept, Serving, Rebuilding,
         PastBackup, Replacing, Absent
<1> QED BY <1>1, <1>2, <1>3, <1>4, <1>5 DEF IInv

\* The copy has every row on disk, those of the log included.
LEMMA BackupIInv == ASSUME IInv, NEW p \in Starts, Backup(p) PROVE IInv'
<1>1. TypeOK'
  BY DEF Backup, Goes, Settled, IInv, TypeOK, LocksOwned, Steps, Waiting, Upgrading,
         Creating, Versions, Absent
<1>2. Versioned' /\ Logs' /\ Known'
  BY DEF Backup, Goes, Settled, IInv, TypeOK, LocksOwned, Upgrading, Versioned, Logs, Known,
         Untouched, Rebuilding, PastBackup, Absent
<1>3. Archived' /\ RowsOnDisk'
  BY DEF Backup, Goes, Settled, IInv, TypeOK, LocksOwned, Upgrading, Versioned, Logs,
         Archived, RowsOnDisk, Exclusive, OnLive, PastBackup, Replacing, Absent
<1>4. ~gap' => Exclusive'
  BY DEF Backup, Goes, Settled, IInv, TypeOK, LocksOwned, Upgrading, Creating, Versioned,
         Logs, Known, Exclusive, Serving, Rebuilding, PastBackup, Kept, Absent
<1>5. ~gap' /\ ~torn' => Complete'
  <2> SUFFICES ASSUME ~gap, ~torn PROVE Complete'
    BY DEF Backup
  <2>1. \A q \in Starts : q # p => pc[q] \notin PastBackup
    BY DEF Backup, IInv, TypeOK, LocksOwned, Upgrading, PastBackup
  <2>2. Kept \subseteq OnLive
    BY <2>1 DEF Backup, IInv, Versioned, Untouched, Complete, PastBackup
  <2>3. OnLive' = OnLive /\ Kept' = Kept /\ backup'[p] = OnLive
    BY DEF Backup, Settled, OnLive, Kept, IInv, TypeOK
  <2>4. \A q \in Starts : pc'[q] = IF q = p THEN "build" ELSE pc[q]
    BY DEF Backup, Goes, IInv, TypeOK
  <2> QED BY <2>1, <2>2, <2>3, <2>4 DEF Complete, PastBackup
<1> QED BY <1>1, <1>2, <1>3, <1>4, <1>5 DEF IInv

\* The new database is built from the copy, beside the one in place.
LEMMA BuildIInv == ASSUME IInv, NEW p \in Starts, Build(p) PROVE IInv'
<1>1. TypeOK'
  BY DEF Build, Goes, Raise, Freed, IInv, TypeOK, LocksOwned, Steps, Waiting, Upgrading,
         Creating, Versions, Absent
<1>2. Versioned' /\ Logs' /\ Known'
  BY DEF Build, Goes, Raise, Freed, IInv, TypeOK, LocksOwned, Upgrading, Versioned, Logs,
         Known, Untouched, Rebuilding, PastBackup, Absent
<1>3. Archived' /\ RowsOnDisk'
  BY DEF Build, Goes, Raise, Freed, IInv, TypeOK, LocksOwned, Upgrading, Versioned, Logs,
         Archived, RowsOnDisk, Exclusive, OnLive, PastBackup, Replacing, Absent
<1>4. ~gap' => Exclusive'
  BY DEF Build, Goes, Raise, Freed, IInv, TypeOK, LocksOwned, Upgrading, Creating,
         Versioned, Logs, Known, Exclusive, Serving, Rebuilding, PastBackup, Kept, Absent
<1>5. ~gap' /\ ~torn' => Complete'
  BY DEF Build, Goes, Raise, Freed, IInv, TypeOK, LocksOwned, Upgrading, Versioned, Logs,
         Exclusive, Complete, OnLive, Kept, Serving, Rebuilding, PastBackup, Replacing,
         Absent
<1> QED BY <1>1, <1>2, <1>3, <1>4, <1>5 DEF IInv

\* The old log goes to migration-backups, where the copy already has its rows.
LEMMA MoveSidecarsIInv == ASSUME IInv, NEW p \in Starts, MoveSidecars(p) PROVE IInv'
<1>1. TypeOK'
  BY DEF MoveSidecars, Goes, IInv, TypeOK, LocksOwned, Steps, Waiting, Upgrading, Creating,
         Versions, Absent
<1>2. Versioned' /\ Logs' /\ Known'
  BY DEF MoveSidecars, Goes, IInv, TypeOK, LocksOwned, Upgrading, Versioned, Logs, Known,
         Untouched, Rebuilding, PastBackup, Absent
<1>3. Archived' /\ RowsOnDisk'
  BY DEF MoveSidecars, Goes, IInv, TypeOK, LocksOwned, Upgrading, Versioned, Logs, Archived,
         RowsOnDisk, Exclusive, OnLive, PastBackup, Replacing, Absent
<1>4. ~gap' => Exclusive'
  BY DEF MoveSidecars, Goes, IInv, TypeOK, LocksOwned, Upgrading, Creating, Versioned, Logs,
         Known, Exclusive, Serving, Rebuilding, PastBackup, Kept, Absent
<1>5. ~gap' /\ ~torn' => Complete'
  <2> SUFFICES ASSUME ~gap, ~torn PROVE Complete'
    BY DEF MoveSidecars
  <2>1. \A q \in Starts : q # p => pc[q] \notin PastBackup
    BY DEF MoveSidecars, IInv, TypeOK, LocksOwned, Upgrading, PastBackup
  <2>2. \A q \in Starts : pc'[q] = IF q = p THEN "swap" ELSE pc[q]
    BY DEF MoveSidecars, Goes, IInv, TypeOK
  <2>3. Kept \subseteq OnLive /\ Kept \subseteq backup[p]
    BY <2>1 DEF MoveSidecars, IInv, Versioned, Untouched, Complete, PastBackup
  <2>4. live'.rows = live.rows /\ Kept' = Kept /\ backup' = backup
    BY DEF MoveSidecars, Kept, IInv, TypeOK
  <2>5. IF old = "attached" THEN old' = "logless" /\ moved' = live.wal
        ELSE live.wal = {}
    BY DEF MoveSidecars, IInv, Logs
  <2>6. Kept' \subseteq OnLive' \cup (IF old' = "logless" THEN moved' ELSE {})
    BY <2>3, <2>4, <2>5 DEF OnLive
  <2> QED BY <2>1, <2>2, <2>3, <2>4, <2>6 DEF Complete, PastBackup
<1> QED BY <1>1, <1>2, <1>3, <1>4, <1>5 DEF IInv

\* What the new database replaces is in the archive, and its rows are the copy's.
LEMMA SwapIInv == ASSUME IInv, NEW p \in Starts, Swap(p) PROVE IInv'
<1>1. TypeOK'
  BY DEF Swap, Goes, IInv, TypeOK, LocksOwned, Steps, Waiting, Upgrading, Creating,
         Versions, Absent
<1>2. Versioned' /\ Logs' /\ Known'
  BY DEF Swap, Goes, IInv, TypeOK, LocksOwned, Upgrading, Versioned, Logs, Known, Untouched,
         Rebuilding, PastBackup, Absent
<1>3. Archived' /\ RowsOnDisk'
  BY DEF Swap, Goes, IInv, TypeOK, LocksOwned, Upgrading, Versioned, Logs, Archived,
         RowsOnDisk, Exclusive, OnLive, PastBackup, Replacing, Absent
<1>4. ~gap' => Exclusive'
  BY DEF Swap, Goes, IInv, TypeOK, LocksOwned, Upgrading, Creating, Versioned, Logs, Known,
         Exclusive, Serving, Rebuilding, PastBackup, Kept, Absent
<1>5. ~gap' /\ ~torn' => Complete'
  BY DEF Swap, Goes, IInv, TypeOK, LocksOwned, Upgrading, Versioned, Logs, Exclusive,
         Complete, OnLive, Kept, Serving, Rebuilding, PastBackup, Replacing, Absent
<1> QED BY <1>1, <1>2, <1>3, <1>4, <1>5 DEF IInv

\* Between the swap and its check the start holds the lock, and nobody opens the file.
LEMMA SyncIInv == ASSUME IInv, NEW p \in Starts, Sync(p) PROVE IInv'
<1>1. TypeOK'
  BY DEF Sync, Goes, IInv, TypeOK, LocksOwned, Steps, Waiting, Upgrading, Creating,
         Versions, Absent
<1>2. Versioned' /\ Logs' /\ Known'
  BY DEF Sync, Goes, IInv, TypeOK, LocksOwned, Upgrading, Versioned, Logs, Known, Untouched,
         Rebuilding, PastBackup, Absent
<1>3. Archived' /\ RowsOnDisk'
  BY DEF Sync, Goes, IInv, TypeOK, LocksOwned, Upgrading, Versioned, Logs, Archived,
         RowsOnDisk, Exclusive, OnLive, PastBackup, Replacing, Absent
<1>4. ~gap' => Exclusive'
  BY DEF Sync, Goes, IInv, TypeOK, LocksOwned, Upgrading, Creating, Versioned, Logs, Known,
         Exclusive, Serving, Rebuilding, PastBackup, Kept, Absent
<1>5. ~gap' /\ ~torn' => Complete'
  BY DEF Sync, Goes, IInv, TypeOK, LocksOwned, Upgrading, Versioned, Logs, Exclusive,
         Complete, OnLive, Kept, Serving, Rebuilding, PastBackup, Replacing, Absent
<1> QED BY <1>1, <1>2, <1>3, <1>4, <1>5 DEF IInv

\* The checked database has the rows of the copy.
LEMMA CheckIInv == ASSUME IInv, NEW p \in Starts, Check(p) PROVE IInv'
<1>1. TypeOK'
  BY DEF Check, Goes, Freed, Fault, CanFail, IInv, TypeOK, LocksOwned, Steps, Waiting,
         Upgrading, Creating, Versions, Absent
<1>2. Versioned' /\ Logs' /\ Known'
  BY DEF Check, Goes, Freed, Fault, CanFail, IInv, TypeOK, LocksOwned, Upgrading, Versioned,
         Logs, Known, Untouched, Rebuilding, PastBackup, Absent
<1>3. Archived' /\ RowsOnDisk'
  BY DEF Check, Goes, Freed, Fault, CanFail, IInv, TypeOK, LocksOwned, Upgrading, Versioned,
         Logs, Archived, RowsOnDisk, Exclusive, OnLive, PastBackup, Replacing, Absent
<1>4. ~gap' => Exclusive'
  BY DEF Check, Goes, Freed, Fault, CanFail, IInv, TypeOK, LocksOwned, Upgrading, Creating,
         Versioned, Logs, Known, Exclusive, Serving, Rebuilding, PastBackup, Kept, Absent
<1>5. ~gap' /\ ~torn' => Complete'
  BY DEF Check, Goes, Freed, Fault, CanFail, IInv, TypeOK, LocksOwned, Upgrading, Versioned,
         Logs, Exclusive, Complete, OnLive, Kept, Serving, Rebuilding, PastBackup,
         Replacing, Absent
<1> QED BY <1>1, <1>2, <1>3, <1>4, <1>5 DEF IInv

\* A broken database leaves its place; the copy keeps the rows.
LEMMA MoveAwayIInv == ASSUME IInv, NEW p \in Starts, MoveAway(p) PROVE IInv'
<1>1. TypeOK'
  BY DEF MoveAway, Goes, IInv, TypeOK, LocksOwned, Steps, Waiting, Upgrading, Creating,
         Versions, Absent
<1>2. Versioned' /\ Logs' /\ Known'
  BY DEF MoveAway, Goes, IInv, TypeOK, LocksOwned, Upgrading, Versioned, Logs, Known,
         Untouched, Rebuilding, PastBackup, Absent
<1>3. Archived' /\ RowsOnDisk'
  BY DEF MoveAway, Goes, IInv, TypeOK, LocksOwned, Upgrading, Versioned, Logs, Archived,
         RowsOnDisk, Exclusive, OnLive, PastBackup, Replacing, Absent
<1>4. ~gap' => Exclusive'
  BY DEF MoveAway, Goes, IInv, TypeOK, LocksOwned, Upgrading, Creating, Versioned, Logs,
         Known, Exclusive, Serving, Rebuilding, PastBackup, Kept, Absent
<1>5. ~gap' /\ ~torn' => Complete'
  BY DEF MoveAway, Goes, IInv, TypeOK, LocksOwned, Upgrading, Versioned, Logs, Exclusive,
         Complete, OnLive, Kept, Serving, Rebuilding, PastBackup, Replacing, Absent
<1> QED BY <1>1, <1>2, <1>3, <1>4, <1>5 DEF IInv

\* The copy takes the place of the broken database.
LEMMA PutBackIInv == ASSUME IInv, NEW p \in Starts, PutBack(p) PROVE IInv'
<1>1. TypeOK'
  BY DEF PutBack, Goes, Raise, Freed, IInv, TypeOK, LocksOwned, Steps, Waiting, Upgrading,
         Creating, Versions, Absent
<1>2. Versioned' /\ Logs' /\ Known'
  BY DEF PutBack, Goes, Raise, Freed, IInv, TypeOK, LocksOwned, Upgrading, Versioned, Logs,
         Known, Untouched, Rebuilding, PastBackup, Absent
<1>3. Archived' /\ RowsOnDisk'
  BY DEF PutBack, Goes, Raise, Freed, IInv, TypeOK, LocksOwned, Upgrading, Versioned, Logs,
         Archived, RowsOnDisk, Exclusive, OnLive, PastBackup, Replacing, Absent
<1>4. ~gap' => Exclusive'
  BY DEF PutBack, Goes, Raise, Freed, IInv, TypeOK, LocksOwned, Upgrading, Creating,
         Versioned, Logs, Known, Exclusive, Serving, Rebuilding, PastBackup, Kept, Absent
<1>5. ~gap' /\ ~torn' => Complete'
  BY DEF PutBack, Goes, Raise, Freed, IInv, TypeOK, LocksOwned, Upgrading, Versioned, Logs,
         Exclusive, Complete, OnLive, Kept, Serving, Rebuilding, PastBackup, Replacing,
         Absent
<1> QED BY <1>1, <1>2, <1>3, <1>4, <1>5 DEF IInv

\* A start that opens the database finds no other start rebuilding it.
LEMMA OpenIInv == ASSUME IInv, NEW p \in Starts, Open(p) PROVE IInv'
<1>1. TypeOK'
  BY DEF Open, Goes, IInv, TypeOK, LocksOwned, Steps, Waiting, Upgrading, Creating,
         Versions, Absent
<1>2. Versioned' /\ Logs' /\ Known'
  BY DEF Open, Goes, IInv, TypeOK, LocksOwned, Upgrading, Versioned, Logs, Known, Untouched,
         Rebuilding, PastBackup, Absent
<1>v. live.version = "absent" \/ live.version = "bare" \/ live.version = "old"
         \/ live.version = "current"
  BY DEF IInv, TypeOK, Versions
<1>c. CASE live.version \in {"absent", "bare"}
  <2>1. /\ live' = [Absent EXCEPT !.version = "bare"]
        /\ pc' = [pc EXCEPT ![p] = "create"]
        /\ UNCHANGED <<archive, moved, backup, old, aux>>
    BY <1>c DEF Open, Goes
  <2>2. live.rows = {} /\ live.wal = {}
    BY <1>c DEF IInv, Logs
  <2>3. live'.version = "bare" /\ live'.rows = {} /\ live'.wal = {}
    BY <2>1 DEF Absent
  <2>4. \A q \in Starts : pc'[q] = IF q = p THEN "create" ELSE pc[q]
    BY <2>1 DEF IInv, TypeOK
  <2>5. Archived'
    BY <2>1, <2>3, <2>4 DEF IInv, Archived, OnLive, PastBackup
  <2>6. RowsOnDisk'
    BY <2>1, <2>2 DEF IInv, RowsOnDisk
  <2>7. ASSUME ~gap PROVE Exclusive'
    <3>1. /\ \A q \in Starts : pc[q] \notin Rebuilding
          /\ Kept = {}
      BY <1>c, <2>7 DEF Open, IInv, Exclusive, Serving
    <3>2. \A q \in Starts : pc[q] # "create"
      BY DEF Open, IInv, TypeOK, LocksOwned, Creating
    <3>3. \A q \in Starts : pc[q] # "ready"
      BY <1>c, <2>7 DEF IInv, Exclusive, Serving
    <3> QED BY <2>1, <2>3, <2>4, <3>1, <3>2, <3>3
            DEF Exclusive, Serving, Rebuilding, PastBackup, Kept
  <2>8. ASSUME ~gap PROVE Complete'
    <3>1. /\ \A q \in Starts : pc[q] \notin Rebuilding
          /\ Kept = {}
      BY <1>c, <2>8 DEF Open, IInv, Exclusive, Serving
    <3> QED BY <2>1, <2>4, <3>1 DEF Complete, Rebuilding, PastBackup, Kept
  <2>9. gap' = gap
    BY <2>1
  <2> QED BY <1>1, <1>2, <2>5, <2>6, <2>7, <2>8, <2>9 DEF IInv
<1>d. CASE live.version \notin {"absent", "bare"}
  <2>1. /\ pc' = [pc EXCEPT ![p] = IF live.version = "current" THEN "ready" ELSE "raised"]
        /\ UNCHANGED <<live, archive, moved, backup, old, aux>>
    BY <1>d, <1>v DEF Open, Goes
  <2>2. \A q \in Starts : pc'[q] = IF q = p THEN (IF live.version = "current" THEN "ready" ELSE "raised")
                                   ELSE pc[q]
    BY <2>1 DEF IInv, TypeOK
  <2>3. Archived' /\ RowsOnDisk'
    BY <2>1, <2>2 DEF IInv, Archived, RowsOnDisk, OnLive, PastBackup
  <2>4. ~gap' => Exclusive'
    BY <2>1, <2>2 DEF Open, IInv, Exclusive, Serving, Rebuilding, PastBackup, Kept
  <2>5. ~gap' /\ ~torn' => Complete'
    BY <2>1, <2>2 DEF Open, IInv, Complete, PastBackup, Kept, OnLive
  <2> QED BY <1>1, <1>2, <2>3, <2>4, <2>5 DEF IInv
<1> QED BY <1>c, <1>d

\* A database is created only in a place where no row ever was.
LEMMA CreateIInv == ASSUME IInv, NEW p \in Starts, Create(p) PROVE IInv'
<1>1. TypeOK'
  BY DEF Create, Goes, IInv, TypeOK, LocksOwned, Steps, Waiting, Upgrading, Creating,
         Versions, Absent
<1>2. Versioned' /\ Logs' /\ Known'
  BY DEF Create, Goes, IInv, TypeOK, LocksOwned, Upgrading, Versioned, Logs, Known,
         Untouched, Rebuilding, PastBackup, Absent
<1>3. Archived' /\ RowsOnDisk'
  BY DEF Create, Goes, IInv, TypeOK, LocksOwned, Upgrading, Versioned, Logs, Archived,
         RowsOnDisk, Exclusive, OnLive, PastBackup, Replacing, Absent
<1>4. ~gap' => Exclusive'
  BY DEF Create, Goes, IInv, TypeOK, LocksOwned, Upgrading, Creating, Versioned, Logs,
         Known, Exclusive, Serving, Rebuilding, PastBackup, Kept, Absent
<1>5. ~gap' /\ ~torn' => Complete'
  BY DEF Create, Goes, IInv, TypeOK, LocksOwned, Upgrading, Versioned, Logs, Exclusive,
         Complete, OnLive, Kept, Serving, Rebuilding, PastBackup, Replacing, Absent
<1> QED BY <1>1, <1>2, <1>3, <1>4, <1>5 DEF IInv

\* A ready backend's rows go to the database in place.
LEMMA WriteIInv == ASSUME IInv, NEW p \in Starts, NEW r \in Rows, Write(p, r) PROVE IInv'
<1>1. TypeOK'
  BY DEF Write, IInv, TypeOK, LocksOwned, Steps, Waiting, Upgrading, Creating, Versions,
         Absent
<1>2. Versioned' /\ Logs' /\ Known'
  BY DEF Write, IInv, TypeOK, LocksOwned, Upgrading, Versioned, Logs, Known, Untouched,
         Rebuilding, PastBackup, Absent
<1>3. Archived' /\ RowsOnDisk'
  <2>1. live'.rows = live.rows \cup {r} /\ live'.wal = live.wal /\ live.version = "current"
    BY DEF Write, IInv, TypeOK
  <2>2. Archived'
    BY DEF Write, IInv, Versioned, Archived, Untouched
  <2>3. RowsOnDisk'
    BY <2>1 DEF Write, IInv, RowsOnDisk
  <2> QED BY <2>2, <2>3
<1>4. ~gap' => Exclusive'
  BY DEF Write, IInv, TypeOK, LocksOwned, Upgrading, Creating, Versioned, Logs, Known,
         Exclusive, Serving, Rebuilding, PastBackup, Kept, Absent
<1>5. ~gap' /\ ~torn' => Complete'
  BY DEF Write, IInv, TypeOK, LocksOwned, Upgrading, Versioned, Logs, Exclusive, Complete,
         OnLive, Kept, Serving, Rebuilding, PastBackup, Replacing, Absent
<1> QED BY <1>1, <1>2, <1>3, <1>4, <1>5 DEF IInv

\* An error leaves the files as the steps before it made them, and lets go of the locks.
LEMMA FailIInv == ASSUME IInv, NEW p \in Starts, Fail(p) PROVE IInv'
<1>1. TypeOK'
  BY DEF Fail, Fault, CanFail, Raise, Freed, Goes, IInv, TypeOK, LocksOwned, Steps, Waiting,
         Upgrading, Creating, Versions, Absent
<1>2. Versioned' /\ Logs' /\ Known'
  BY DEF Fail, Fault, CanFail, Raise, Freed, Goes, IInv, TypeOK, LocksOwned, Upgrading,
         Versioned, Logs, Known, Untouched, Rebuilding, PastBackup, Absent
<1>3. Archived' /\ RowsOnDisk'
  BY DEF Fail, Fault, CanFail, Raise, Freed, Goes, IInv, TypeOK, LocksOwned, Upgrading,
         Versioned, Logs, Archived, RowsOnDisk, Exclusive, OnLive, PastBackup, Replacing,
         Absent
<1>4. ~gap' => Exclusive'
  BY DEF Fail, Fault, CanFail, Raise, Freed, Goes, IInv, TypeOK, LocksOwned, Upgrading,
         Creating, Versioned, Logs, Known, Exclusive, Serving, Rebuilding, PastBackup, Kept,
         Absent
<1>5. ~gap' /\ ~torn' => Complete'
  BY ZenonT(40)
     DEF Fail, Fault, CanFail, Raise, Freed, Goes, IInv, TypeOK, LocksOwned, Upgrading,
         Versioned, Logs, Exclusive, Complete, OnLive, Kept, Serving, Rebuilding,
         PastBackup, Replacing, Absent
<1> QED BY <1>1, <1>2, <1>3, <1>4, <1>5 DEF IInv

\* A killed start lets go of its locks and leaves every file as it is.
LEMMA KillIInv == ASSUME IInv, NEW p \in Starts, Kill(p) PROVE IInv'
<1>1. TypeOK'
  BY DEF Kill, Fault, CanFail, Freed, Goes, IInv, TypeOK, LocksOwned, Steps, Waiting,
         Upgrading, Creating, Versions, Absent
<1>2. Versioned' /\ Logs' /\ Known'
  BY DEF Kill, Fault, CanFail, Freed, Goes, IInv, TypeOK, LocksOwned, Upgrading, Versioned,
         Logs, Known, Untouched, Rebuilding, PastBackup, Absent
<1>3. Archived' /\ RowsOnDisk'
  BY DEF Kill, Fault, CanFail, Freed, Goes, IInv, TypeOK, LocksOwned, Upgrading, Versioned,
         Logs, Archived, RowsOnDisk, Exclusive, OnLive, PastBackup, Replacing, Absent
<1>4. ~gap' => Exclusive'
  BY DEF Kill, Fault, CanFail, Freed, Goes, IInv, TypeOK, LocksOwned, Upgrading, Creating,
         Versioned, Logs, Known, Exclusive, Serving, Rebuilding, PastBackup, Kept, Absent
<1>5. ~gap' /\ ~torn' => Complete'
  BY ZenonT(40)
     DEF Kill, Fault, CanFail, Freed, Goes, IInv, TypeOK, LocksOwned, Upgrading, Versioned,
         Logs, Exclusive, Complete, OnLive, Kept, Serving, Rebuilding, PastBackup,
         Replacing, Absent
<1> QED BY <1>1, <1>2, <1>3, <1>4, <1>5 DEF IInv

\* The older backend opens only a database of its own version.
LEMMA OldOpenIInv == ASSUME IInv, OldOpen PROVE IInv'
<1>1. TypeOK'
  BY DEF OldOpen, IInv, TypeOK, LocksOwned, Steps, Waiting, Upgrading, Creating, Versions,
         Absent
<1>2. Versioned' /\ Logs' /\ Known'
  BY DEF OldOpen, IInv, TypeOK, LocksOwned, Upgrading, Versioned, Logs, Known, Untouched,
         Rebuilding, PastBackup, Absent
<1>3. Archived' /\ RowsOnDisk'
  BY DEF OldOpen, IInv, TypeOK, LocksOwned, Upgrading, Versioned, Logs, Archived,
         RowsOnDisk, Exclusive, OnLive, PastBackup, Replacing, Absent
<1>4. ~gap' => Exclusive'
  BY DEF OldOpen, IInv, TypeOK, LocksOwned, Upgrading, Creating, Versioned, Logs, Known,
         Exclusive, Serving, Rebuilding, PastBackup, Kept, Absent
<1>5. ~gap' /\ ~torn' => Complete'
  BY DEF OldOpen, IInv, TypeOK, LocksOwned, Upgrading, Versioned, Logs, Exclusive, Complete,
         OnLive, Kept, Serving, Rebuilding, PastBackup, Replacing, Absent
<1> QED BY <1>1, <1>2, <1>3, <1>4, <1>5 DEF IInv

\* The older backend's rows are in its log, which is live or exposed to a swap.
LEMMA OldWriteIInv == ASSUME IInv, NEW r \in Rows, OldWrite(r) PROVE IInv'
<1>1. TypeOK'
  BY DEF OldWrite, IInv, TypeOK, LocksOwned, Steps, Waiting, Upgrading, Creating, Versions,
         Absent
<1>2. Versioned' /\ Logs' /\ Known'
  BY DEF OldWrite, IInv, TypeOK, LocksOwned, Upgrading, Versioned, Logs, Known, Untouched,
         Rebuilding, PastBackup, Absent
<1>3. Archived' /\ RowsOnDisk'
  BY DEF OldWrite, IInv, TypeOK, LocksOwned, Upgrading, Versioned, Logs, Archived,
         RowsOnDisk, Exclusive, OnLive, PastBackup, Replacing, Absent
<1>4. ~gap' => Exclusive'
  <2> SUFFICES ASSUME ~gap PROVE Exclusive'
    BY DEF OldWrite
  <2>1. live'.version = live.version
    BY DEF OldWrite, IInv, TypeOK
  <2>2. live.version # "old" => exposed' = exposed \cup {r}
    BY DEF OldWrite, IInv, Logs
  <2>3. live.version # "old" => live' = live /\ Kept' \subseteq Kept
    BY <2>2 DEF OldWrite, IInv, Logs, Kept
  <2>4. \A p \in Starts : pc[p] = "putback" => live' = Absent
    BY <2>3 DEF IInv, Exclusive, Absent
  <2> QED BY <2>1, <2>3, <2>4 DEF OldWrite, IInv, Exclusive
<1>5. ~gap' /\ ~torn' => Complete'
  BY DEF OldWrite, IInv, TypeOK, LocksOwned, Upgrading, Versioned, Logs, Exclusive,
         Complete, OnLive, Kept, Serving, Rebuilding, PastBackup, Replacing, Absent
<1> QED BY <1>1, <1>2, <1>3, <1>4, <1>5 DEF IInv

\* The older backend folds its log into the database it had opened.
LEMMA OldCloseIInv == ASSUME IInv, OldClose PROVE IInv'
<1>1. TypeOK'
  BY ZenonT(40)
     DEF OldClose, IInv, TypeOK, LocksOwned, Steps, Waiting, Upgrading, Creating, Versions,
         Absent
<1>2. Versioned' /\ Logs' /\ Known'
  BY DEF OldClose, IInv, TypeOK, LocksOwned, Upgrading, Versioned, Logs, Known, Untouched,
         Rebuilding, PastBackup, Absent
<1>l. /\ OnLive \subseteq OnLive' /\ OnLive' \subseteq OnLive \cup moved
      /\ live.rows \subseteq live'.rows
      /\ old = "logless" => moved \subseteq OnLive'
      /\ UNCHANGED <<archive, pc, backup, aux>> /\ moved' = {}
  <2>1. CASE old = "attached"
    <3>1. live' = [live EXCEPT !.rows = @ \cup live.wal, !.wal = {}] /\ moved' = {}
      BY <2>1 DEF OldClose
    <3>2. live'.rows = live.rows \cup live.wal /\ live'.wal = {}
      BY <3>1 DEF IInv, TypeOK
    <3>3. OnLive' = OnLive /\ live.rows \subseteq live'.rows
      BY <3>2, Zenon DEF OnLive
    <3> QED BY <2>1, <3>1, <3>3, Zenon DEF OldClose
  <2>2. CASE old = "logless"
    BY <2>2, SMTT(30) DEF OldClose, IInv, TypeOK, OnLive
  <2>3. CASE old = "detached"
    BY <2>3, SMTT(30) DEF OldClose, IInv, TypeOK, OnLive
  <2> QED BY <2>1, <2>2, <2>3 DEF OldClose, IInv, TypeOK
<1>3. Archived' /\ RowsOnDisk'
  <2>1. Archived'
    BY <1>l DEF IInv, Archived
  <2>2. RowsOnDisk'
    BY <1>l DEF IInv, RowsOnDisk, OnLive
  <2> QED BY <2>1, <2>2
<1>4. ~gap' => Exclusive'
  <2> SUFFICES ASSUME ~gap PROVE Exclusive'
    BY DEF OldClose
  <2>1. live' = live \/ (live.version = "old" /\ live'.version = "old")
    <3>1. CASE old = "attached"
      BY <3>1 DEF OldClose, IInv, TypeOK, Logs
    <3>2. CASE old = "logless"
      BY <3>2 DEF OldClose, IInv, TypeOK, Logs
    <3>3. CASE old = "detached"
      BY <3>3 DEF OldClose, IInv, TypeOK
    <3> QED BY <3>1, <3>2, <3>3 DEF OldClose, IInv, TypeOK
  <2>2. \A p \in Starts : pc[p] = "putback" => live' = Absent
    BY <2>1 DEF IInv, Exclusive, Absent
  <2> QED BY <2>1, <2>2 DEF OldClose, IInv, Exclusive, Kept
<1>5. ~gap' /\ ~torn' => Complete'
  <2> SUFFICES ASSUME ~gap, ~torn PROVE Complete'
    BY <1>l
  <2>1. live'.version = live.version
    BY DEF OldClose, IInv, TypeOK
  <2>2. \A p \in Starts : pc[p] = "swap" => Kept \subseteq OnLive'
    <3> SUFFICES ASSUME NEW p \in Starts, pc[p] = "swap" PROVE Kept \subseteq OnLive'
      OBVIOUS
    <3>1. Kept \subseteq OnLive \cup (IF old = "logless" THEN moved ELSE {})
      BY DEF IInv, Complete
    <3>2. CASE old = "logless"
      BY <3>1, <3>2, <1>l
    <3>3. CASE old # "logless"
      BY <3>1, <3>3, <1>l
    <3> QED BY <3>2, <3>3
  <2>3. Kept' = Kept
    BY <1>l DEF Kept
  <2>4. ASSUME live'.version # "absent", \A p \in Starts : pc[p] # "swap"
        PROVE  Kept \subseteq OnLive'
    <3>1. Kept \subseteq OnLive
      BY <2>1, <2>4 DEF IInv, Complete
    <3> QED BY <1>l, <3>1
  <2>5. \A p \in Starts : /\ pc[p] \in PastBackup => Kept \subseteq backup[p]
                          /\ pc[p] \in {"sync", "check", "moveaway"} => backup[p] \subseteq live'.rows
    BY <1>l DEF IInv, Complete
  <2> QED BY <1>l, <2>2, <2>3, <2>4, <2>5 DEF Complete
<1> QED BY <1>1, <1>2, <1>3, <1>4, <1>5 DEF IInv

\* A step that changes nothing.
LEMMA StutterIInv == ASSUME IInv, UNCHANGED vars PROVE IInv'
<1>1. TypeOK' /\ Versioned' /\ Logs' /\ Known'
  BY DEF vars, IInv, TypeOK, LocksOwned, Versioned, Logs, Known
<1>2. Archived' /\ RowsOnDisk'
  BY DEF vars, IInv, Archived, RowsOnDisk, OnLive
<1>3. (~gap' => Exclusive') /\ (~gap' /\ ~torn' => Complete')
  BY DEF vars, IInv, Exclusive, Complete, OnLive, Kept
<1> QED BY <1>1, <1>2, <1>3 DEF IInv

\* Every action keeps the invariant.
LEMMA NextIInv == IInv /\ [Next]_vars => IInv'
<1> SUFFICES ASSUME IInv, [Next]_vars PROVE IInv'
  OBVIOUS
<1>1. ASSUME NEW p \in Starts, Launch(p) PROVE IInv'
  BY <1>1, LaunchIInv
<1>2. ASSUME NEW p \in Starts, Look(p) PROVE IInv'
  BY <1>2, LookIInv
<1>3. ASSUME NEW p \in Starts, Acquire(p) PROVE IInv'
  BY <1>3, AcquireIInv
<1>4. ASSUME NEW p \in Starts, Verify(p) PROVE IInv'
  BY <1>4, VerifyIInv
<1>5. ASSUME NEW p \in Starts, Backup(p) PROVE IInv'
  BY <1>5, BackupIInv
<1>6. ASSUME NEW p \in Starts, Build(p) PROVE IInv'
  BY <1>6, BuildIInv
<1>7. ASSUME NEW p \in Starts, MoveSidecars(p) PROVE IInv'
  BY <1>7, MoveSidecarsIInv
<1>8. ASSUME NEW p \in Starts, Swap(p) PROVE IInv'
  BY <1>8, SwapIInv
<1>9. ASSUME NEW p \in Starts, Check(p) PROVE IInv'
  BY <1>9, CheckIInv
<1>10. ASSUME NEW p \in Starts, MoveAway(p) PROVE IInv'
  BY <1>10, MoveAwayIInv
<1>11. ASSUME NEW p \in Starts, PutBack(p) PROVE IInv'
  BY <1>11, PutBackIInv
<1>12. ASSUME NEW p \in Starts, Open(p) PROVE IInv'
  BY <1>12, OpenIInv
<1>13. ASSUME NEW p \in Starts, Create(p) PROVE IInv'
  BY <1>13, CreateIInv
<1>14. ASSUME NEW p \in Starts, Fail(p) PROVE IInv'
  BY <1>14, FailIInv
<1>15. ASSUME NEW p \in Starts, Kill(p) PROVE IInv'
  BY <1>15, KillIInv
<1>16. ASSUME NEW p \in Starts, NEW r \in Rows, Write(p, r) PROVE IInv'
  BY <1>16, WriteIInv
<1>17. ASSUME NEW r \in Rows, OldWrite(r) PROVE IInv'
  BY <1>17, OldWriteIInv
<1>s. ASSUME NEW p \in Starts, Sync(p) PROVE IInv'
  BY <1>s, SyncIInv
<1>18. CASE OldOpen
  BY <1>18, OldOpenIInv
<1>19. CASE OldClose
  BY <1>19, OldCloseIInv
<1>20. CASE UNCHANGED vars
  BY <1>20, StutterIInv
<1> QED
  BY <1>1, <1>2, <1>3, <1>4, <1>5, <1>6, <1>7, <1>8, <1>9, <1>10,
     <1>11, <1>12, <1>13, <1>14, <1>15, <1>16, <1>17, <1>18, <1>19, <1>20, <1>s
  DEF Next, Step

\* The invariant holds in every reachable state, whatever starts do and die of.
THEOREM UpgradeInvariant == Spec => []IInv
BY InitIInv, NextIInv, PTL DEF Spec

\* Type correctness; above all, a lock is held by the start that is in its `with`,
\* and by no other.
THEOREM UpgradeTypeOK == Spec => []TypeOK
<1>1. IInv => TypeOK
  BY DEF IInv
<1> QED BY UpgradeInvariant, <1>1, PTL

\* A committed row is in the live database or in migration-backups, however many
\* starts overlap, raise or are killed between any two steps.
THEOREM UpgradeRowsOnDisk == Spec => []RowsOnDisk
<1>1. IInv => RowsOnDisk
  BY DEF IInv
<1> QED BY UpgradeInvariant, <1>1, PTL

\* A start that is ready serves a database of this version with every row.
THEOREM UpgradeReadyServes == Spec => []ReadyServes
<1>1. IInv => ReadyServes
  <2> SUFFICES ASSUME IInv, NEW p \in Starts, pc[p] = "ready", ~torn, ~gap
               PROVE live.version = "current" /\ Kept \subseteq live.rows
    BY DEF ReadyServes, Kept
  <2>1. live.version = "current" /\ \A q \in Starts : pc[q] \notin Rebuilding
    BY DEF IInv, Exclusive, Serving
  <2>2. Kept \subseteq OnLive
    BY <2>1 DEF IInv, Complete, Rebuilding, PastBackup
  <2>3. live.wal = {}
    BY <2>1 DEF IInv, Logs
  <2> QED BY <2>1, <2>2, <2>3 DEF OnLive
<1> QED BY UpgradeInvariant, <1>1, PTL

\* Only a refused build, an error and the end of a restore make a start raise after
\* the copy was made.
LEMMA WhoRaises ==
    ASSUME IInv, Next, NEW p \in Starts, pc[p] \in PastBackup, pc'[p] = "raised"
    PROVE  \/ Build(p) /\ UNCHANGED <<live, aux>>
           \/ PutBack(p)
           \/ Fail(p)
<1>1. ASSUME NEW q \in Starts, q # p, Launch(q) \/ Step(q) \/ Fail(q) \/ Kill(q)
      PROVE  pc'[p] = pc[p]
  BY <1>1 DEF Step, Launch, Look, Acquire, Verify, Backup, Build, MoveSidecars, Swap, Sync, Check,
              MoveAway, PutBack, Open, Create, Fail, Kill, Goes, Raise, IInv, TypeOK
<1>2. ASSUME Launch(p) \/ Kill(p) \/ Look(p) \/ Acquire(p) \/ Verify(p) \/ Backup(p)
             \/ MoveSidecars(p) \/ Swap(p) \/ Sync(p) \/ Check(p) \/ MoveAway(p) \/ Open(p)
             \/ Create(p)
      PROVE  FALSE
  BY <1>2
     DEF Launch, Look, Acquire, Verify, Backup, MoveSidecars, Swap, Sync, Check, MoveAway, Open,
              Create, Kill, Goes, PastBackup, IInv, TypeOK
<1>3. ASSUME \/ \E q \in Starts, r \in Rows : Write(q, r)
             \/ OldOpen \/ OldClose \/ \E r \in Rows : OldWrite(r)
      PROVE  FALSE
  BY <1>3 DEF Write, OldOpen, OldClose, OldWrite, PastBackup
<1>4. PICK q \in Starts : Launch(q) \/ Step(q) \/ Fail(q) \/ Kill(q)
  BY <1>3 DEF Next
<1>5. q = p
  BY <1>1, <1>4 DEF PastBackup
<1>6. Build(p) \/ PutBack(p) \/ Fail(p)
  BY <1>2, <1>4, <1>5 DEF Step
<1> QED BY <1>6 DEF Build

\* An upgrade that raises leaves every row in the old database, or in the new one if its
\* flush raised; if the restore raised, every row is in migration-backups.
THEOREM UpgradeFailedKeepsRows == Spec => FailedKeepsRows
<1> DEFINE Live(rows) == committed' \ exposed' \subseteq rows
           Keeps(p) ==
             \/ pc[p] = "sync" /\ live'.version = "current" /\ Live(live'.rows)
             \/ pc[p] \in {"moveaway", "putback"} /\ faults' # faults /\ Live(archive')
             \/ live'.version = "old" /\ Live(live'.rows \cup live'.wal)
<1>1. ASSUME IInv, Next, NEW p \in Starts, pc[p] \in PastBackup, pc'[p] = "raised",
             ~torn', ~gap
      PROVE  Keeps(p)
  <2>1. /\ \A q \in Starts : q # p => pc[q] \notin PastBackup
        /\ faults \in Nat
    BY <1>1 DEF IInv, TypeOK, LocksOwned, PastBackup, Upgrading
  <2>2. ASSUME ~torn, pc[p] \in {"build", "sidecars", "swap"}, UNCHANGED <<live, aux>> \/ Fail(p),
               pc[p] = "swap" => moved = {}
        PROVE  Keeps(p)
    <3>1. live' = live /\ committed' = committed /\ exposed' = exposed
      BY <2>2 DEF Fail
    <3>2. live.version = "old"
      BY <1>1, <2>2 DEF IInv, Versioned, Untouched
    <3>3. CASE pc[p] = "swap"
      <4>1. Kept \subseteq OnLive
        BY <1>1, <2>2, <3>3 DEF IInv, Complete
      <4> QED BY <3>1, <3>2, <4>1 DEF OnLive, Kept
    <3>4. CASE pc[p] # "swap"
      <4>1. Kept \subseteq OnLive
        BY <1>1, <2>1, <2>2, <3>2, <3>4 DEF IInv, Complete, PastBackup
      <4> QED BY <3>1, <3>2, <4>1 DEF OnLive, Kept
    <3> QED BY <3>3, <3>4
  <2>3. CASE Build(p) /\ UNCHANGED <<live, aux>>
    BY <1>1, <2>2, <2>3 DEF Build
  <2>4. CASE PutBack(p)
    <3>1. live' = [version |-> "old", rows |-> backup[p], wal |-> {}] /\ UNCHANGED aux
      BY <2>4 DEF PutBack
    <3>2. Kept \subseteq backup[p]
      BY <1>1, <3>1 DEF IInv, Complete
    <3> QED BY <3>1, <3>2 DEF Kept
  <2>5. CASE Fail(p)
    <3>1. /\ UNCHANGED <<live, archive, committed, exposed>> /\ faults' # faults
          /\ ~torn /\ (pc[p] = "swap" => moved = {}) /\ pc[p] # "check"
      <4>1. faults' # faults
        BY <2>1, <2>5 DEF Fail, Fault
      <4>2. ~torn /\ (pc[p] = "swap" => moved = {})
        BY <1>1, <2>5, Zenon DEF Fail
      <4> QED BY <2>5, <4>1, <4>2 DEF Fail
    <3>2. Kept \subseteq backup[p] /\ backup[p] \subseteq archive
      BY <1>1, <3>1 DEF IInv, Complete, Archived
    <3>3. CASE pc[p] = "sync"
      <4>1. live.version = "current" /\ backup[p] \subseteq live.rows
        BY <1>1, <3>1, <3>3 DEF IInv, Versioned, Complete
      <4> QED BY <3>1, <3>2, <3>3, <4>1 DEF Kept
    <3>4. CASE pc[p] \in {"moveaway", "putback"}
      BY <3>1, <3>2, <3>4 DEF Kept
    <3>5. CASE pc[p] \in {"build", "sidecars", "swap"}
      BY <2>2, <2>5, <3>1, <3>5
    <3> QED BY <1>1, <3>1, <3>3, <3>4, <3>5 DEF PastBackup
  <2> QED BY <1>1, <2>3, <2>4, <2>5, WhoRaises
<1>2. IInv /\ [Next]_vars =>
        [\A p \in Starts :
            pc[p] \in PastBackup /\ pc'[p] = "raised" /\ ~torn' /\ ~gap =>
              \/ /\ pc[p] = "sync" /\ live'.version = "current"
                 /\ committed' \ exposed' \subseteq live'.rows
              \/ /\ pc[p] \in {"moveaway", "putback"} /\ faults' # faults
                 /\ committed' \ exposed' \subseteq archive'
              \/ /\ live'.version = "old"
                 /\ committed' \ exposed' \subseteq live'.rows \cup live'.wal]_vars
  BY <1>1
<1> QED BY UpgradeInvariant, <1>2, PTL DEF Spec, FailedKeepsRows
-----------------------------------------------------------------------------
(* NoEmptySubstitute does not hold of the code.  It does while no start has  *)
(* looked in the gap of a restore: that gap is the only way to the empty     *)
(* database.                                                                 *)

\* Rows that were committed once were committed to a database that lasted, and
\* every database of the older version, and every copy of one, has rows.
Rooted ==
    /\ committed # {} => Kept # {}
    /\ old # "closed" => committed # {}
    /\ live.version = "old" => live.rows # {}
    /\ \A p \in Starts : pc[p] \in PastBackup => backup[p] # {}
    /\ ~gap => NoEmptySubstitute

LEMMA InitRooted == Init => Rooted
<1> SUFFICES ASSUME Init PROVE Rooted
  OBVIOUS
<1>1. live.version = "old" => live.rows # {}
  <2>1. CASE live = Absent
    BY <2>1 DEF Absent
  <2>2. ASSUME NEW rows \in (SUBSET Rows) \ {{}},
               live = [version |-> "old", rows |-> rows, wal |-> {}]
        PROVE  live.rows # {}
    BY <2>2
  <2> QED BY <2>1, <2>2 DEF Init
<1>2. live.version # "current"
  BY DEF Init, Absent
<1> QED BY <1>1, <1>2 DEF Init, Rooted, Kept, PastBackup, NoEmptySubstitute

\* A step that commits nothing, and leaves the live database or another one with
\* rows, or one that is neither old nor current.
LEMMA RootedStep ==
    ASSUME IInv, Rooted, UNCHANGED <<committed, exposed>>,
           gap => gap', old' = "closed" \/ old # "closed",
           \A p \in Starts : pc'[p] \in PastBackup => backup'[p] # {},
           \/ live'.version = live.version /\ live.rows \subseteq live'.rows
           \/ live'.rows # {}
           \/ live'.version \notin {"old", "current"}
    PROVE  Rooted'
BY DEF Rooted, Kept, NoEmptySubstitute

LEMMA NextRooted ==
    ASSUME IInv, Rooted, [Next]_vars PROVE Rooted'
<1>0. /\ live \in [version : Versions, rows : SUBSET Rows, wal : SUBSET Rows]
      /\ pc \in [Starts -> Steps] /\ backup \in [Starts -> SUBSET Rows]
      /\ \A p \in Starts : pc[p] \in PastBackup => backup[p] # {}
      /\ \A p \in Starts : pc[p] \in Untouched => live.version = "old"
  BY DEF IInv, TypeOK, Versioned, Rooted
<1>1. ASSUME NEW p \in Starts, NEW step, pc' = [pc EXCEPT ![p] = step], backup' = backup,
             step \in PastBackup => pc[p] \in PastBackup
      PROVE  \A q \in Starts : pc'[q] \in PastBackup => backup'[q] # {}
  BY <1>0, <1>1
<1>2. live.rows \subseteq Settled(live).rows /\ Settled(live).version = live.version
  BY <1>0 DEF Settled
<1>3. ASSUME NEW p \in Starts, Launch(p) \/ Look(p) \/ Acquire(p) \/ Build(p) \/ Sync(p)
                            \/ Check(p)
      PROVE  Rooted'
  <2>1. CASE Launch(p)
    BY <1>0, <2>1, RootedStep DEF Launch, Goes, PastBackup
  <2>2. CASE Look(p)
    BY <1>1, <2>2, RootedStep DEF Look, Goes, PastBackup
  <2>3. CASE Acquire(p)
    BY <1>1, <2>3, RootedStep DEF Acquire, Goes, PastBackup
  <2>4. CASE Build(p)
    BY <1>1, <2>4, RootedStep DEF Build, Goes, Raise, PastBackup
  <2>5. CASE Check(p)
    BY <1>1, <2>5, RootedStep DEF Check, Goes, PastBackup
  <2>6. CASE Sync(p)
    BY <1>1, <2>6, RootedStep DEF Sync, Goes, PastBackup
  <2> QED BY <1>3, <2>1, <2>2, <2>3, <2>4, <2>5, <2>6
<1>4. ASSUME NEW p \in Starts, Verify(p) PROVE Rooted'
  <2>1. PICK step \in {"open", "backup", "raised"} : pc' = [pc EXCEPT ![p] = step]
    BY <1>4 DEF Verify, Goes, Raise
  <2>2. \A q \in Starts : pc'[q] \in PastBackup => backup'[q] # {}
    BY <1>1, <1>4, <2>1 DEF Verify, PastBackup
  <2> QED BY <1>2, <1>4, <2>2, RootedStep DEF Verify
<1>5. ASSUME NEW p \in Starts, Backup(p) PROVE Rooted'
  <2>1. live.rows # {}
    BY <1>0, <1>5 DEF Backup, Rooted, Untouched
  <2>2. \A q \in Starts : pc'[q] \in PastBackup => backup'[q] # {}
    BY <1>0, <1>5, <2>1 DEF Backup, Goes
  <2> QED BY <1>2, <1>5, <2>2, RootedStep DEF Backup
<1>6. ASSUME NEW p \in Starts, MoveSidecars(p) PROVE Rooted'
  <2>1. live'.version = live.version /\ live'.rows = live.rows
    BY <1>0, <1>6 DEF MoveSidecars
  <2>2. \A q \in Starts : pc'[q] \in PastBackup => backup'[q] # {}
    BY <1>1, <1>6 DEF MoveSidecars, Goes, PastBackup
  <2> QED BY <1>6, <2>1, <2>2, RootedStep DEF MoveSidecars
<1>7. ASSUME NEW p \in Starts, Swap(p) \/ PutBack(p) PROVE Rooted'
  <2>1. pc[p] \in PastBackup /\ live'.rows = backup[p] /\ backup[p] # {}
    BY <1>0, <1>7 DEF Swap, PutBack, PastBackup
  <2>2. \A q \in Starts : pc'[q] \in PastBackup => backup'[q] # {}
    BY <1>1, <1>7 DEF Swap, PutBack, Goes, Raise, PastBackup
  <2> QED BY <1>7, <2>1, <2>2, RootedStep DEF Swap, PutBack
<1>8. ASSUME NEW p \in Starts, MoveAway(p) PROVE Rooted'
  <2>1. \A q \in Starts : pc'[q] \in PastBackup => backup'[q] # {}
    BY <1>1, <1>8 DEF MoveAway, Goes, PastBackup
  <2> QED BY <1>8, <2>1, RootedStep DEF MoveAway, Absent
<1>9. ASSUME NEW p \in Starts, Open(p) PROVE Rooted'
  <2>1. \A q \in Starts : pc'[q] \in PastBackup => backup'[q] # {}
    BY <1>1, <1>9 DEF Open, Goes, PastBackup
  <2>2. \/ live' = live
        \/ live'.version = "bare"
    BY <1>9 DEF Open, Absent
  <2> QED BY <1>9, <2>1, <2>2, RootedStep DEF Open
<1>10. ASSUME NEW p \in Starts, Create(p) PROVE Rooted'
  <2>1. \A q \in Starts : pc'[q] \in PastBackup => backup'[q] # {}
    BY <1>1, <1>10 DEF Create, Goes, PastBackup
  <2>2. CASE live.version # "bare"
    BY <1>10, <2>1, <2>2, RootedStep DEF Create
  <2>3. CASE live.version = "bare"
    \* The file was made for a user who had none, or in the gap.
    <3>1. ~gap => committed = {}
      BY <1>10, <2>3 DEF Create, IInv, Exclusive, Serving, Rooted
    <3>2. live'.version = "current" /\ UNCHANGED <<old, aux>>
      BY <1>0, <1>10, <2>3 DEF Create
    <3> QED BY <2>1, <3>1, <3>2 DEF Rooted, Kept, NoEmptySubstitute
  <2> QED BY <2>2, <2>3
<1>11. ASSUME NEW p \in Starts, NEW r \in Rows, Write(p, r) PROVE Rooted'
  <2>1. /\ live'.version = "current" /\ live'.rows # {}
        /\ committed' = committed \cup {r} /\ r \notin committed
        /\ UNCHANGED <<pc, backup, old, exposed>>
    BY <1>0, <1>11 DEF Write
  <2>2. Kept' # {}
    BY <2>1 DEF Kept, IInv, TypeOK
  <2> QED BY <1>0, <2>1, <2>2 DEF Rooted, NoEmptySubstitute
<1>12. ASSUME NEW p \in Starts, Fail(p) \/ Kill(p) PROVE Rooted'
  <2>1. \A q \in Starts : pc'[q] \in PastBackup => backup'[q] # {}
    BY <1>1, <1>12 DEF Fail, Kill, Goes, Raise, PastBackup
  <2> QED BY <1>12, <2>1, RootedStep DEF Fail, Kill
<1>13. CASE OldOpen
  BY <1>0, <1>13 DEF OldOpen, IInv, Known, Rooted, Kept, NoEmptySubstitute
<1>14. ASSUME NEW r \in Rows, OldWrite(r) PROVE Rooted'
  <2>1. committed # {} /\ Kept # {}
    BY <1>14 DEF OldWrite, Rooted
  <2>2. Kept \subseteq Kept'
    BY <1>14 DEF OldWrite, Kept
  <2>3. live'.version = live.version /\ live'.rows = live.rows
    BY <1>0, <1>14 DEF OldWrite
  <2> QED BY <1>0, <1>14, <2>1, <2>2, <2>3 DEF OldWrite, Rooted, NoEmptySubstitute
<1>15. CASE OldClose
  <2>1. live'.version = live.version /\ live.rows \subseteq live'.rows
    BY <1>0, <1>15 DEF OldClose
  <2> QED BY <1>0, <1>15, <2>1, RootedStep DEF OldClose
<1>16. CASE UNCHANGED vars
  BY <1>0, <1>16, RootedStep DEF vars
<1> QED BY <1>3, <1>4, <1>5, <1>6, <1>7, <1>8, <1>9, <1>10, <1>11, <1>12, <1>13, <1>14, <1>15,
           <1>16, Zenon DEF Next, Step

\* For any starts, rows, errors and killed processes: an empty database is passed
\* off for the user's only after a start has looked in the gap of a restore.
THEOREM UpgradeNoEmptyWithoutGap == Spec => [](~gap => NoEmptySubstitute)
<1>1. Rooted => (~gap => NoEmptySubstitute)
  BY DEF Rooted
<1> QED BY <1>1, InitRooted, NextRooted, UpgradeInvariant, PTL DEF Spec
=============================================================================
