---------------------------- MODULE OfflineUpgrade ----------------------------
(***************************************************************************)
(* strict_common/offline_upgrade.py and strict_common/schema.py: how the   *)
(* local backend opens its database.  A start first rebuilds a database of *)
(* a published older version beside the live one and swaps the files       *)
(* (ensure_local_database_current), then opens or creates it               *)
(* (initialize_database).                                                  *)
(*                                                                         *)
(* A start may be killed between any two steps: the shell ends it with     *)
(* SIGTERM when the user leaves (src/main/main.ts:1306), also in the middle*)
(* of an upgrade, and a new start may then run beside it or after it.  The *)
(* backend of the older version may still be finishing a request with the  *)
(* database open: nobody waits for it.                                     *)
(*                                                                         *)
(* The content of a database is the set of rows committed to it; `rows` is *)
(* its main file and `wal` what is in its write-ahead log only.  A file    *)
(* that is not the live one counts in `archive`: backups, sidecars moved   *)
(* beside them, and a failed v10.                                          *)
(***************************************************************************)
EXTENDS Naturals

CONSTANTS Starts,      \* backend processes of this version
          NoStart,
          Rows,
          MaxStarts,   \* bound: processes started in all
          MaxFaults    \* bound: steps that raise, and killed processes

ASSUME StartsAssumption == NoStart \notin Starts
ASSUME BoundsAssumption == MaxStarts \in Nat /\ MaxFaults \in Nat

VARIABLES
    live,       \* the file at database_path
    archive,    \* rows in the files of migration-backups
    upgradeLock, initLock,  \* holders of <path>.upgrade.lock and <path>.init.lock
    pc,         \* start |-> what it does next
    backup,     \* start |-> rows of the backup it made
    old,        \* the connection of the older version's backend
    moved,      \* rows in the write-ahead log that was moved away under old
    started, faults,
    committed,  \* auxiliary: rows some backend committed
    exposed,    \* auxiliary: rows the older backend committed to a file that a
                \* start was replacing
    torn,       \* auxiliary: a log was moved away, its database not replaced
    gap         \* auxiliary: a start found no database where one had been

files == <<live, archive, moved>>
locks == <<upgradeLock, initLock>>
aux == <<committed, exposed, torn, gap>>
vars == <<files, locks, pc, backup, old, started, faults, aux>>

Versions == {"absent", "bare", "old", "current"}
Absent == [version |-> "absent", rows |-> {}, wal |-> {}]

Waiting == {"wait", "open"}
Upgrading == {"verify", "backup", "build", "sidecars", "swap", "check",
              "sync", "moveaway", "putback"}
Creating == {"create"}
Steps == {"down", "look", "ready", "raised"} \cup Waiting \cup Upgrading \cup Creating

\* From the copy of its rows until the start has ended, what another process
\* commits to the live file is not in the copy.
PastBackup == {"build", "sidecars", "swap", "sync", "check", "moveaway", "putback"}
Replacing == \E p \in Starts : pc[p] \in PastBackup

\* A lock belongs to the start that is in its `with`.
LocksOwned ==
    \A p \in Starts : /\ upgradeLock = p <=> pc[p] \in Upgrading
                      /\ initLock = p <=> pc[p] \in Creating

TypeOK ==
    /\ LocksOwned
    /\ live \in [version : Versions, rows : SUBSET Rows, wal : SUBSET Rows]
    /\ archive \subseteq Rows /\ moved \subseteq Rows
    /\ upgradeLock \in Starts \cup {NoStart}
    /\ initLock \in Starts \cup {NoStart}
    /\ pc \in [Starts -> Steps]
    /\ backup \in [Starts -> SUBSET Rows]
    /\ old \in {"closed", "attached", "logless", "detached"}
    /\ started \in Nat /\ faults \in Nat
    /\ committed \subseteq Rows /\ exposed \subseteq committed
    /\ torn \in BOOLEAN /\ gap \in BOOLEAN

\* A new user has no database; one who updates the app has an old one with rows.
Init ==
    /\ \/ live = Absent
       \/ \E rows \in (SUBSET Rows) \ {{}} : live = [version |-> "old", rows |-> rows, wal |-> {}]
    /\ archive = {} /\ moved = {}
    /\ upgradeLock = NoStart /\ initLock = NoStart
    /\ pc = [p \in Starts |-> "down"]
    /\ backup = [p \in Starts |-> {}]
    /\ old = "closed"
    /\ started = 0 /\ faults = 0
    /\ committed = live.rows /\ exposed = {}
    /\ torn = FALSE /\ gap = FALSE

-----------------------------------------------------------------------------
(* Files and locks                                                          *)

Goes(p, step) == pc' = [pc EXCEPT ![p] = step]

\* Closing the last connection of a database folds its log into the main file.
Settled(db) == IF old = "attached" THEN db
               ELSE [db EXCEPT !.rows = @ \cup db.wal, !.wal = {}]

\* Mutant: a start that raises keeps the upgrade lock.
KeptLock(p) == upgradeLock

\* Leaving the `with`, or the end of the process, gives the lock back.
Freed(p) == IF upgradeLock = p THEN NoStart ELSE upgradeLock

Raise(p) == Goes(p, "raised") /\ upgradeLock' = Freed(p)

CanFail == faults < MaxFaults
Fault == CanFail /\ faults' = faults + 1

-----------------------------------------------------------------------------
(* ensure_local_database_current                                            *)

\* The shell starts a backend.
Launch(p) ==
    /\ pc[p] = "down" /\ started < MaxStarts
    /\ started' = started + 1
    /\ Goes(p, "look")
    /\ backup' = [backup EXCEPT ![p] = {}]
    /\ UNCHANGED <<files, locks, old, faults, aux>>

\* Whether there is anything to upgrade is asked before the lock is taken.
Look(p) ==
    /\ pc[p] = "look"
    /\ Goes(p, IF live.version = "absent" THEN "open" ELSE "wait")
    /\ gap' = (gap \/ (live.version = "absent" /\ committed # {}))
    /\ UNCHANGED <<files, locks, backup, old, started, faults, committed, exposed, torn>>

\* Mutant: two starts upgrade at once.
AcquireShared(p) ==
    /\ pc[p] = "wait"
    /\ upgradeLock' = p
    /\ Goes(p, "verify")
    /\ UNCHANGED <<files, initLock, backup, old, started, faults, aux>>

Acquire(p) ==
    /\ pc[p] = "wait" /\ upgradeLock = NoStart
    /\ upgradeLock' = p
    /\ Goes(p, "verify")
    /\ UNCHANGED <<files, initLock, backup, old, started, faults, aux>>

\* verify_database, then _inspect_source: only a published old version goes on.
Verify(p) ==
    /\ pc[p] = "verify"
    /\ live' = Settled(live)
    /\ CASE live.version = "current" -> Goes(p, "open") /\ upgradeLock' = Freed(p)
         [] live.version = "old" -> Goes(p, "backup") /\ UNCHANGED upgradeLock
         [] OTHER -> Raise(p)
    /\ UNCHANGED <<archive, moved, initLock, backup, old, started, faults, aux>>

\* Mutant: the backup copies the main file only.
BackupMainFile(p) ==
    /\ pc[p] = "backup"
    /\ backup' = [backup EXCEPT ![p] = live.rows]
    /\ archive' = archive \cup live.rows
    /\ live' = Settled(live)
    /\ Goes(p, "build")
    /\ UNCHANGED <<moved, locks, old, started, faults, aux>>

\* _backup_database reads through the log.
Backup(p) ==
    /\ pc[p] = "backup"
    /\ backup' = [backup EXCEPT ![p] = live.rows \cup live.wal]
    /\ archive' = archive \cup live.rows \cup live.wal
    /\ live' = Settled(live)
    /\ Goes(p, "build")
    /\ UNCHANGED <<moved, locks, old, started, faults, aux>>

\* _build_v10 fills the stage from the backup and verifies it, or refuses a
\* content that version 10 cannot hold.
Build(p) ==
    /\ pc[p] = "build"
    /\ \/ Goes(p, "sidecars") /\ UNCHANGED upgradeLock
       \/ Raise(p)
    /\ UNCHANGED <<files, initLock, backup, old, started, faults, aux>>

\* _replace_database moves the log beside the backup ...
MoveSidecars(p) ==
    /\ pc[p] = "sidecars"
    /\ archive' = archive \cup live.wal
    /\ moved' = IF old = "attached" THEN live.wal ELSE moved
    /\ live' = [live EXCEPT !.wal = {}]
    /\ old' = IF old = "attached" THEN "logless" ELSE old
    /\ Goes(p, "swap")
    /\ UNCHANGED <<locks, backup, started, faults, aux>>

\* ... and puts the stage in the database's place ...
Swap(p) ==
    /\ pc[p] = "swap"
    /\ live' = [version |-> "current", rows |-> backup[p], wal |-> {}]
    /\ old' = IF old = "closed" THEN old ELSE "detached"
    /\ Goes(p, "sync")
    /\ UNCHANGED <<archive, moved, locks, backup, started, faults, aux>>

\* ... and flushes it there, outside of the `try` that restores the old one.
Sync(p) ==
    /\ pc[p] = "sync"
    /\ Goes(p, "check")
    /\ UNCHANGED <<files, locks, backup, old, started, faults, aux>>

\* The live database is verified again; a failure goes to _restore_backup.
Check(p) ==
    /\ pc[p] = "check"
    /\ \/ Goes(p, "open") /\ upgradeLock' = Freed(p) /\ UNCHANGED faults
       \/ Fault /\ Goes(p, "moveaway") /\ UNCHANGED upgradeLock
    /\ UNCHANGED <<files, initLock, backup, old, started, aux>>

MoveAway(p) ==
    /\ pc[p] = "moveaway"
    /\ archive' = archive \cup live.rows \cup live.wal
    /\ live' = Absent
    /\ Goes(p, "putback")
    /\ UNCHANGED <<moved, locks, backup, old, started, faults, aux>>

\* Mutant: the restore leaves the database to the next start.
LeaveAway(p) ==
    /\ pc[p] = "putback"
    /\ Raise(p)
    /\ UNCHANGED <<files, initLock, backup, old, started, faults, aux>>

PutBack(p) ==
    /\ pc[p] = "putback"
    /\ live' = [version |-> "old", rows |-> backup[p], wal |-> {}]
    /\ Raise(p)
    /\ UNCHANGED <<archive, moved, initLock, backup, old, started, faults, aux>>

-----------------------------------------------------------------------------
(* initialize_database                                                      *)

\* The first write of a new connection makes the file; its tables come later.
Open(p) ==
    /\ pc[p] = "open" /\ initLock = NoStart
    /\ CASE live.version = "current" ->
                Goes(p, "ready") /\ UNCHANGED <<live, initLock>>
         [] live.version = "old" ->
                Goes(p, "raised") /\ UNCHANGED <<live, initLock>>
         [] OTHER ->
                /\ Goes(p, "create") /\ initLock' = p
                /\ live' = [Absent EXCEPT !.version = "bare"]
    /\ UNCHANGED <<archive, moved, upgradeLock, backup, old, started, faults, aux>>

\* The tables and the identity are one transaction.
Create(p) ==
    /\ pc[p] = "create"
    /\ live' = IF live.version = "bare" THEN [live EXCEPT !.version = "current"] ELSE live
    /\ initLock' = NoStart
    /\ Goes(p, "ready")
    /\ UNCHANGED <<archive, moved, upgradeLock, backup, old, started, faults, aux>>

-----------------------------------------------------------------------------
(* Backends at work, and their end                                          *)

\* A connection of the running backend refuses any other version.
Write(p, r) ==
    /\ pc[p] = "ready" /\ live.version = "current" /\ r \notin committed
    /\ live' = [live EXCEPT !.rows = @ \cup {r}]
    /\ committed' = committed \cup {r}
    /\ UNCHANGED <<archive, moved, locks, pc, backup, old, started, faults,
                   exposed, torn, gap>>

\* A step raises and nothing is restored: the disk is full, a copy fails its check,
\* another process has the file open, the wait for a lock is over.  A step that
\* changes files in parts has a step of its own for each part.  What `Check` raises
\* is caught, and the restore begins.
Fail(p) ==
    /\ pc[p] \in Steps \ {"down", "ready", "raised", "check"}
    /\ Fault
    /\ Raise(p)
    /\ initLock' = IF initLock = p THEN NoStart ELSE initLock
    /\ torn' = (torn \/ (pc[p] = "swap" /\ moved # {}))
    /\ UNCHANGED <<files, backup, old, started, committed, exposed, gap>>

\* The process is killed, or exits after it has raised.
Kill(p) ==
    /\ pc[p] # "down"
    /\ IF pc[p] = "raised" THEN UNCHANGED faults ELSE Fault
    /\ Goes(p, "down")
    /\ upgradeLock' = Freed(p)
    /\ initLock' = IF initLock = p THEN NoStart ELSE initLock
    /\ torn' = (torn \/ (pc[p] = "swap" /\ moved # {}))
    /\ UNCHANGED <<files, backup, old, started, committed, exposed, gap>>

\* The older backend opens the database it knows for a request.
OldOpen ==
    /\ old = "closed" /\ live.version = "old"
    /\ old' = "attached"
    /\ UNCHANGED <<files, locks, pc, backup, started, faults, aux>>

\* It commits to the log it holds, wherever that file is by now.
OldWrite(r) ==
    /\ old # "closed" /\ r \notin committed
    /\ live' = IF old = "attached" THEN [live EXCEPT !.wal = @ \cup {r}] ELSE live
    /\ moved' = IF old = "logless" THEN moved \cup {r} ELSE moved
    /\ archive' = IF old = "logless" THEN archive \cup {r} ELSE archive
    /\ committed' = committed \cup {r}
    /\ exposed' = IF Replacing \/ old # "attached" THEN exposed \cup {r} ELSE exposed
    /\ UNCHANGED <<locks, pc, backup, old, started, faults, torn, gap>>

\* Its last connection folds the log it holds into the file it holds.
OldClose ==
    /\ old # "closed"
    /\ \/ old = "attached" /\ live' = [live EXCEPT !.rows = @ \cup live.wal, !.wal = {}]
       \/ old = "logless" /\ live' = [live EXCEPT !.rows = @ \cup moved]
       \/ old = "detached" /\ UNCHANGED live
    /\ old' = "closed" /\ moved' = {}
    /\ UNCHANGED <<archive, locks, pc, backup, started, faults, aux>>

\* What a start does by itself, up to the end of the start.
Step(p) ==
    \/ Look(p) \/ Acquire(p) \/ Verify(p) \/ Backup(p) \/ Build(p)
    \/ MoveSidecars(p) \/ Swap(p) \/ Sync(p) \/ Check(p) \/ MoveAway(p) \/ PutBack(p)
    \/ Open(p) \/ Create(p)

Next ==
    \/ \E p \in Starts : Launch(p) \/ Step(p) \/ Fail(p) \/ Kill(p)
    \/ \E p \in Starts, r \in Rows : Write(p, r)
    \/ OldOpen \/ OldClose
    \/ \E r \in Rows : OldWrite(r)

\* The operating system runs every process that can run.
Spec == Init /\ [][Next]_vars /\ \A p \in Starts : WF_vars(Step(p))

-----------------------------------------------------------------------------
(* Properties                                                               *)

\* No row is lost: whatever a backend committed is in the live database or in a
\* file of migration-backups, wherever starts are killed or raise, unless the older
\* backend committed it to a file that a start was about to replace, or a start had
\* looked in the gap of a restore.
RowsOnDisk ==
    ~gap => committed \ exposed \subseteq live.rows \cup live.wal \cup archive

\* A backend that has started works on a database of this version with every row
\* of the one before it, unless a start ended between the moved log and the swap,
\* or had looked in the gap of a restore; rows that the older backend committed to a
\* file that a start was replacing are not among them.
ReadyServes ==
    \A p \in Starts : pc[p] = "ready" /\ ~torn /\ ~gap =>
        live.version = "current" /\ committed \ exposed \subseteq live.rows

\* An upgrade that raises leaves every row in its place: in the new database if what
\* raised is its flush after the swap (offline_upgrade.py:376), and in the old one
\* otherwise, also when the new one was there and was refused.  If the restore itself
\* raises, every row is in migration-backups.  The exceptions are those of ReadyServes.
FailedKeepsRows ==
    [][\A p \in Starts :
          pc[p] \in PastBackup /\ pc'[p] = "raised" /\ ~torn' /\ ~gap =>
            \/ /\ pc[p] = "sync" /\ live'.version = "current"
               /\ committed' \ exposed' \subseteq live'.rows
            \/ /\ pc[p] \in {"moveaway", "putback"} /\ faults' # faults
               /\ committed' \ exposed' \subseteq archive'
            \/ /\ live'.version = "old"
               /\ committed' \ exposed' \subseteq live'.rows \cup live'.wal]_vars

\* Every start comes to an end, whatever other starts die holding: the locks are
\* never left behind.
StartEnds ==
    \A p \in Starts : pc[p] = "look" ~> pc[p] \in {"ready", "raised", "down"}

\* The claim of contracts/STRICT_DB_GENESIS_CONTRACT.md:111 and :114: a failed
\* migration leaves the old database where it is, and no empty database is passed
\* off for it.
NoEmptySubstitute ==
    committed # {} => ~(live.version = "current" /\ live.rows = {})

\* The first half of it alone: the old database is there when an upgrade has raised.
FailedKeepsOld ==
    [][\A p \in Starts :
          pc[p] \in PastBackup /\ pc'[p] = "raised" /\ ~torn' /\ ~gap
          => live'.version = "old"]_vars

\* The claim of contracts/STRICT_DB_GENESIS_CONTRACT.md:110, that a migration may
\* be repeated, for the first one: no start raises because an earlier one was
\* killed before the tables were there.
GenesisRepeats ==
    \A p \in Starts : pc[p] = "raised" => ~(live.version = "bare" /\ initLock = NoStart)
=============================================================================
