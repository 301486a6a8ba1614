# Formal model of the strict thinktank client and cloud

TLA+ specifications of the parts of `yiyu-thinktank-strict` whose difficulty lies in
their control: what several threads, clients, retries, crashes and slow answers can
do to one another. Each module is translated from the Python source; `PROJECT.json`
names the lines behind every definition, the runs, the mutants that show each
property can fail, the hazards and the theorems.

    tlc -workers 2 -config CloudSession.cfg MCCloudSession   # model-check one run
    tlapm CloudSession_proofs.tla                            # check one set of proofs

## 1. Inventory

The product is a desktop application for consultants: an Electron shell starts a
local FastAPI backend with a SQLite file and a secret vault; the backend talks to an
organization cloud, another FastAPI application over one SQLite file. Phones talk to
the cloud directly. Both databases have the same 88 tables; each table has one
authority and is a projection elsewhere.

| Part | State | Operations | What is hard | What makes it correct |
|---|---|---|---|---|
| Bounded dispatch (`backend/app/bounded_dispatch.py`) | semaphore, executor, table of requests in flight | `run`, completion callback, `start`, `close` | event loop, workers and callbacks interleave; deadlines; restart with old work still running | capacity is conserved, one request per key, callers end |
| Cloud sessions (`cloud_backend/app/repository.py`) | session rows, idempotency records, one encrypted file per version | `login`, `refresh`, `logout`, password reset | file and row cannot commit together; retries under a key; crashes | a token rotates once, the row's file is there, no file is left |
| Session lifecycle (`backend/app/runtime.py`) | snapshot row, vault, sandbox status, object lock | login, connected request, restore, switch, logout | refreshes of several panels, lost answers, a logout meanwhile | never an older session on disk, never more than one replay behind |
| Task collaboration (`cloud_backend/app/repositories/gc04_tasks.py`) | task, owner and collaborator rows, inbox, focus segments, receipts | edit, bulk edit, transfer, inbox, timers, deletion | commands composed from old views; retries; rows reused between roles | collaborators wait for the owner; one open owner; one effect per key |
| Mobile sync (`cloud_backend/app/repositories/mobile_sync.py`) | outbox, lifecycle events, business rows; the phone's cursor and copy | `bootstrap`, `delta` | every list is read at another moment; events become visible out of order; answers get lost | what is sent is whole and not older than what is announced |
| Workspace switch (`src/renderer/App.tsx`, `runtime.py`, `ui_domains/organization_access.py`) | window: transition number, shown workspace, request context, loading screen; backend: active sandbox, switch sequence and records | switch, save, login, logout, `loadAll` | transitions of the window overlap; a save switches once more by itself; answers that are lost, late or repeated | a save changes the workspace it was sent for; the screen and the next click name the same workspace; the loading screen goes |
| Local upgrade (`strict_common/offline_upgrade.py`, `strict_common/schema.py`) | database, write-ahead log, backups, two file locks | backup, build, swap, check, restore; open, create | a crash or exception between any two file operations; two processes starting; the older backend still writing | no committed row is lost; a ready backend has them all |
| UI receipts (`ui_idempotency.py`, `platform_integrations_local.py`) | a receipt per key of the window; the cloud's record per key | begin, build, freeze, send, settle | a repeat beside the attempt it repeats; lost answers; killed backends | a change is made once, and the window is told the truth |
| Updater (`src/main/officialUpdater.ts`) | persisted download state, files | status, download, resume, install | IPC handlers interleave at every `await` | a finished download is not forgotten, a file of another release is never installed |
| Background jobs (attachments, recordings, sources, model download) | job rows, files | start, progress, retry | threads outlive requests and workspaces | each job ends, in the workspace it was started in |
| The other cloud repositories | business rows | one transaction per command | same scheme as task collaboration: version, receipt, event | — |
| Renderer, Electron shell, providers, engines, scripts | windows, files, outside services | — | — | — |

How they interact. The renderer calls the local backend over HTTP and retries with the
same `Idempotency-Key`. A route hands the call to one of several dispatch pools; the
worker calls the runtime, which takes the session from snapshot and vault, refreshes it
under the object lock if the cloud says 401, and sends the command with its own key. The
cloud checks the session, executes the command in one `BEGIN IMMEDIATE` transaction with
its receipt and its outbox event, and answers; the runtime then renews the local
projection. A phone polls `delta()` and replaces what it keeps.

`PROJECT.json` lists every part, modelled or not with the reason, and under `hazards`
every place where this code can go wrong in a way a test would hardly reach.

## 2. Modules and how they correspond to the code

| Module | Role |
|---|---|
| `BoundedDispatch` | the thread pool; `_proofs`, `MC...` beside it |
| `CoalescingGate` | what `BoundedDispatch` promises its callers, with no semaphore, table or threads |
| `CloudSession` | server side of login, refresh and logout; `_proofs`, `MC...` |
| `SessionChain` | what `CloudSession` promises and what `SessionLifecycle` sees of it, with no files, transactions or threads |
| `SessionLifecycle` | the desktop's side of the same session; `_proofs`, `MC...` |
| `TaskCollaboration` | one task and its members; `_proofs`, `MC...` |
| `TaskOwnership` | what a task promises its owner and team, with no rows, versions or commands |
| `MobileSync` | commands on tasks and event lines, and a phone that follows them; `_proofs`, `MC...` |
| `WorkspaceSwitch` | the window's transitions and the backend's switch, save, login and logout; `_proofs`, `MC...` |
| `OfflineUpgrade` | how a start upgrades, opens or creates the local database; `_proofs`, `MC...` |
| `UiReceipts` | a change of the user between window, local backend and cloud; `_proofs`, `MC...` |

**BoundedDispatch.** A call is one coroutine in `run()`; the future it may submit has
the call's name. `Refuse`, `Join` and `Submit` are the section under `_lock`;
`AddDoneCallback` is apart because the code registers the callback after it has left
the lock. `StartWork` and `FinishWork` are the worker; `ReleaseSlot` and
`ClearInflight` the two effects of `completed()`; `Answer` and `Deadline` the two ways
out of `asyncio.wait_for`. A pool is a (semaphore, executor) pair: `Close` leaves the
work of the old pool running and `Start` opens the next.

**CoalescingGate.** Operations are inside from their admission until their work has
ended and their place is given back, whoever still waits for them. `ImplementsGate` maps
a submitted call to one that waits (the deadline may come before the callback is
registered), futures whose slot is not released to `inside`, and the coalescing table to
`joinable`: the operation a key leads to. So it says in one step relation what
`InflightIsCurrent` and `SingleFlight` say of states, and that no caller is refused while
there is room, or answered by another operation.

**CloudSession.** A request is a thread. `LoginOpen` and `RefreshRotate` write the
secret file inside `BEGIN IMMEDIATE`; `LoginCommit` and `RefreshCommit` end the
transaction; `Abort` is the rollback, whose unlink of the new file comes *after* the
write lock is free. `Unlink` and `Load` are outside any transaction, as in the code.
`Payload` is the check of the answered access token against the live row. A transaction
without a file step inside it is one action. A token pair is named by the session, the
version and the request that minted it: hashes are equal exactly when the pairs are.

**SessionChain.** A session is a chain of pairs of which at most the last is live; the
answer with a new pair comes with it or later. `CloudSession!ImplementsChain` maps active
rows to `live`, rows and consumed pairs to `used`, and the pairs clients received to
`handed`. `SessionLifecycle!ImplementsChain` maps what the desktop's calls see (the number
of each session's last pair, and the pairs they were answered) to the same chain, so that
the simple cloud of that module is held to the contract the detailed one is proved to keep.

**SessionLifecycle.** Five operations, each on a thread: login, a connected request,
restore, switch, logout. The reads of snapshot row (`ReadRow`) and secret
(`ReadSecret`) are two steps, as are storing a new secret (`Receive`), the compare and
set of the row (`Commit`, `CommitConflict`) and deleting the old secret
(`DeleteOld`). `Lock` is the object lock of the refresh, which `switch` does not take.
`CloudRefresh` is the cloud as `CloudSession` has it: a token rotates once and its
refresh can be replayed under the same key. `RefreshKey` is what the code makes of the
key on each path.

**TaskCollaboration.** Every command is one `BEGIN IMMEDIATE` transaction, so what
interleaves is clients: `Compose` fixes a command with the version its member sees,
`Execute` runs it any time later and again while its answer is lost (the renderer's
`request` in `lib/api.ts` retries with the same key), `Close` drops it. `slot` holds the
idempotency record. `bulk_preflight` is `Compose` of a "bulk" command and freezes the
normalized edit; `bulk_commit` is its execution. `create_task` is `Init`. A member has
one row per role; `ReplacedOwner` and `ReplacedCollab` are `_replace_collaborators`
row by row. `sawOwner` is auxiliary: the open owner when the command was composed.

**TaskOwnership.** The task has one owner, who was asked, accepted or returned it, and a
team of which each member waits for the owner, is invited, has joined or has declined.
`ImplementsOwnership` reads both off the rows (`Standing`, `Seat`): an edit is `Settle`
or nothing, whatever it was composed against, a replay nothing, `transfer_task` is
`Transfer`, the answers of the inbox are `OwnerAccepts`, `OwnerReturns` and `Replies`.

**MobileSync.** A command commits its row and one outbox event at once. The event's
place is its millisecond and, within it, an id in no particular order, which is why
`Ids` is a set to choose from. Task commands take the time under the write lock; event
line commands before they wait for it (`StampLine`, `CommitLine`). Each read of
`delta()` and `bootstrap()` is an action; `NextRead` is their order. `Deliver` and
`Lose` are the phone, which is not in this repository: it has one request under way,
keeps the last projection and its cursor, and asks again when an answer is lost.
`quiet`, `settled` and `phone.told` are auxiliary.

**WorkspaceSwitch.** A call is one click of the user: `Activate`, `Save`, `Login`,
`Logout`. `call[c].ui` is where its callback in the window stands, `call[c].srv` where the
backend's thread stands; the two run on independently, so an answer may come when the
window has long given the call up. `Arrive...` is what a request meets in the backend:
`capture_dispatch_workspace` for a save, the lookup of the recorded switch for an
activation. `RefreshAfterSave` is the switch that every save makes at its end
(`_refresh_organization`), `Verify` the question to the cloud, `Commit` and `Supersede` the
compare of the sequence and the transaction of `switch`. `Transition` is
`beginWorkspaceTransition`, `Owns` `isWorkspaceTransitionCurrent`, `Rollback` the catch of
`handleActivateWorkspace`, `Leaves` its `finally`; `Reload` is `loadAll`, whose reads are
`auth`, `list`, `data` and, after an error, `current`. `restored` and `dropped` are
auxiliary: an overtaken switch has put its workspace back; a reload was dropped because
another one was running.

**OfflineUpgrade.** `pc[p]` is what a start does next, one file operation per step:
`Look`, `Acquire`, `Verify`, `Backup`, `Build`, `MoveSidecars`, `Swap`, `Sync`, `Check`,
`MoveAway` and `PutBack` are `ensure_local_database_current`, `Open` and `Create`
`initialize_database`. `Sync` is the flush after the swap, which like the moves of the
restore is outside the `try` that restores. `Fail` raises in any step but `Check`, whose
failure is what begins the restore, and leaves the files as they are; `Kill` ends the
process before any step. A database is the set of rows in its main file and of those in
its log; `archive` is what the files of `migration-backups` hold. `OldOpen`, `OldWrite`,
`OldClose` are the older version's backend, which nobody waits for. `exposed` (rows it
wrote to a file being replaced), `torn` (a start ended between the moved log and the
swap) and `gap` (a start looked when a restore had taken the database away) are
auxiliary and name the exceptions the code has.

**UiReceipts.** An execution is an attempt of a request on its own thread. `Begin` is
`begin`, which finds a completed receipt or one with a frozen payload; `Build` asks the
cloud for the version of now, `Freeze` stores it, `Call` sends it, `Take` is the
transaction of the cloud, `Settle` stores the answer. `Versioned` requests are those whose
expected version is part of the content the cloud compares under one key. `overlap`
is auxiliary: two attempts have built side by side.

## 3. What the runs check

| Run | Question | Instance |
|---|---|---|
| `dispatch` | is capacity conserved and returned, is the dispatcher a `CoalescingGate`, does every admitted caller end | 3 calls, 1 key or none, 1 worker, 1 place in its queue, 1 restart |
| `cloud_session` | does a token rotate once, is the live session's file there, is no file left, is what is answered live | 1 session, 4 requests, 3 keys, 1 reset, 1 abort or crash |
| `session_lifecycle` | does the row always have its secret, is it at most one replay behind, never taken back, is a call answered along a `SessionChain`, does each call end | 3 calls of any kind, 1 fault or crash |
| `task_collaboration` | owner gate, do the rows keep the rules of `TaskOwnership`, no time on a completed task, one effect per key, acceptance by one's own answer | 3 members, 3 commands, 2 at once, 2 executions each |
| `task_lost_owner` | is an edit of an unseen owner refused — **no** | as above |
| `mobile_sync` | are projections whole, not older than their changes, are removals named, does a quiet phone miss nothing | 2 tasks, 1 event line, 4 commands, 2 ms, lists cut at 2 |
| `mobile_sync_missed` | is a missed event harmless — **no** | 1 task, 1 event line, 3 commands |
| `workspace_switch` | does a save change the workspace it was sent for, does the screen show the workspace of the next click, is a repeated switch not refused, does the loading screen go | 2 workspaces, 2 calls of any kind, each repeated once, 2 faults, 2 ms |
| `switch_target` | does a save change the workspace the window shows — **no** | 2 workspaces, 3 calls (saves and switches), no fault, 1 ms |
| `offline_upgrade` | is no row lost, does a ready backend have them all, where are the rows when an upgrade raises | 2 processes, 3 starts, 2 rows, 3 killed or raising steps |
| `upgrade_empty` | is an empty database never passed off for the old one — **no** | 1 process, 2 starts, 1 row, 2 faults |
| `ui_receipts` | is a change made once, is the window told what happened | 2 requests, 3 attempts each, 2 faults |

The runs marked **no** check one statement of the repository's contracts, comments or
messages and find it violated; `PROJECT.json` quotes the statement under `findings`.

1. *Lost owner* (`task_lost_owner`). Transfers and inbox answers do not raise
   `tasks.version`, so an edit composed before them passes the version check and restores
   the former owner.
2. *Missed event* (`mobile_sync_missed`). Rows, events and cursor are read one after the
   other; what commits in between can be behind the cursor and in no list.
3. *Save after switch* (`switch_target`). A save ends by switching to the workspace of its
   request, with a sequence taken at that moment, so it supersedes a switch the user made
   since. The window's first read is refused; the catch puts the previous workspace back
   into the window's requests but not on the screen; the next save changes the other
   organization.
4. *Empty database* (`upgrade_empty`). A restore moves the failed database away and then
   puts the backup back. A start that ends in between leaves no file, and the next one
   takes that for a new installation.

Known disagreements without a run. The modules define these statements too; a
configuration with the specification and the one property shows the violation.

| Property | Statement, and what the code does | Instance |
|---|---|---|
| `CloudSession!ResetEndsOldLogins` | a reset ends all logins; `login` verifies the password before its transaction (`repository.py:565`), and a reset that commits in between misses the session it inserts | 2 sessions, 3 requests, 1 reset |
| `SessionLifecycle!RetryRecovers` | "retry to recover" after a refresh that could not be stored (`runtime.py:4463`); the key contains the path, so a restore uses another key and is refused | login, connected, restore; 1 fault |
| `SessionLifecycle!LogoutRevokesCloud` | a logout revokes the session; with an expired access token the client takes the cloud's 401 for "revoked" (`runtime.py:4797`) and the refresh token lives on | login, logout |
| `TaskCollaboration!ReplayReturnsReceipt` | a replay returns the first receipt; `update_task` fingerprints a patch that contains the time of its execution (`gc04_tasks.py:2097`) | that of `task_collaboration` |
| `OfflineUpgrade!FailedKeepsOld` | a failed migration leaves the old database as it is (`STRICT_DB_GENESIS_CONTRACT.md:111`); when `chmod` or `_fsync` raises after the swap (`offline_upgrade.py:376-378`), or the first move of the restore does (`:384`), the upgrade raises and the new database stays | that of `upgrade_empty`; one fault is enough |
| `OfflineUpgrade!GenesisRepeats` | a migration may be repeated; a first start killed between the connection and the commit of its tables (`schema.py:165`) leaves a file every later start refuses | that of `offline_upgrade` |

Two more are visible in the models without a property of their own. A payload that two
overlapping attempts both build is frozen twice, against the docstring of
`ui_idempotency.py:29-33`; `AnswerTrue` leaves out the conflict answer of that case. A
switch that another transition overtakes leaves `workspaceManagerBusy` set
(`App.tsx:9974`), so that the workspace manager offers no switch until it is reloaded; and
a logout while `loadAll` runs leaves the loading screen on (`dropped` in `LoadingEnds`).

Properties that hold are stated as strongly as the code allows. `SecretMatchesRow` has
the one exception the code has (a rollback's late unlink), `RemovalListed` the limit of
one read, `QuietSyncMissesNothing` the two conditions under which finding 2 cannot
happen.

### Bounds, and why they suffice

- *BoundedDispatch*: two calls contend for a key or one for the slot of another; the
  third finds the pool full, waits behind a hanging call, or joins after a deadline. Two
  pools show work that outlives its own; the last pool of the bound stays open, so that
  its callers must be answered. The proofs are about any number of both.
- *CloudSession*: `cloud_session` has one session, because sessions share only keys, the
  write lock and the reset; the proofs are about any number. Four requests give a login, two racing refreshes and a replay or logout.
- *SessionLifecycle*: one call to open the session and two to overlap; one fault (lost
  message, timeout, failing store or crash) at any point. `MaxGen`, the pairs of one
  session, is three: a login and a refresh by each other call. The invariants,
  `NeverRegress` and `ImplementsChain` are proved for any number of calls, pairs and
  faults.
- *TaskCollaboration*: three members are the least with an owner, a next owner and a
  bystander; three commands give a stale edit, what it overlaps, and an answer. The
  properties are proved for any number.
- *MobileSync*: two milliseconds, of which one can be over, and two ids whose order is
  free produce every relation between an event and a cursor; the limit of two makes
  lists overflow with four commands. The five invariants are proved for any number.
- *WorkspaceSwitch*: two workspaces and two calls that overlap, each with one repeat; a
  third call is needed only for `switch_target` (save, switch, save). The three invariants
  hold for any number of calls. Two milliseconds let two transitions fall into the same one
  or into different ones, with the other side's number taken before or after.
- *OfflineUpgrade*: two processes contend for the locks, the third start finds what two
  dead ones left; two rows let one be in the main file and one in the log.
- *UiReceipts*: one request of each kind on one row; three attempts give one whose answer
  is lost, one that overlaps it, and one after both.
- `Max...` constants bound counters in guards; nothing is cut by a state constraint.
  Runs end when their calls or commands are used up, hence `CHECK_DEADLOCK FALSE`.
- Symmetry is used only in runs without liveness properties: permutations of requests
  and keys, of calls, of the members other than the creator, of slots and of tasks.

### Fairness

- `BoundedDispatch` (`FairSpec`): the event loop resumes a coroutine that can go on,
  including its deadline (`asyncio.wait_for` has a timer), and a worker whose work has
  ended runs the callback. The work itself is *not* fair: it may hang for ever, and
  `CallsEnd` holds all the same.
- `SessionLifecycle` (`FairSpec`): each thread goes on, and the cloud answers what
  reaches it (its HTTP client has timeouts). The object lock needs weak fairness only:
  each call takes it once, so a waiter finds it free for good in the end.
- `WorkspaceSwitch`: the backend serves what has arrived, and the browser runs every
  callback whose promise is settled; the user is not fair. `LoadingEnds` needs both.
- `OfflineUpgrade`: a process that can run runs. `StartEnds` (every start ends, whatever
  others die holding) follows; it is defined and was checked on the instance of
  `offline_upgrade` with `PROPERTY StartEnds`, and has no run of its own.
- The other modules state safety only.

## 4. What is proved

TLAPS proves the following for every value of the constants that meets the named
assumptions. The assumptions only say that special values are no members of the sets
they stand beside and that numbers are numbers; TLC evaluates them in every run.

| Theorem | Says | Argument |
|---|---|---|
| `SlotsConservedTheorem` | a slot is free or held by exactly one future | types, then: each action moves at most one future into or out of `Holding` |
| `InflightTheorem`, `SingleFlightTheorem` | the coalescing table is exact; one operation per key | `IInv` = types, `Lifecycle` (how coroutine, future and callback move together), the table |
| `GateTheorem` | `BoundedDispatch` implements `CoalescingGate` | the same invariant, and that a pool's free slots are its capacity less what is inside, which turns "no slot free" into "full" |
| `CloudTypeOK`, `LockTheorem` | shapes; the write lock is held exactly between a secret file and its commit | `IInv`, see below |
| `ConsumedOnceTheorem` | a refresh token is consumed once | `IInv`: what each thread holds at each step (`ThreadInv`), and that the live pair's version is above every consumed one (`ChainInv`) |
| `SecretMatchesRowTheorem`, `NoOrphanTheorem` | the file of an active session holds its pair; without a crash no file is left over | `SecretInv`: a thread between file and commit has the file of its answer, and one that unlinks names an older version, a session that is over, or the file of an aborted transaction |
| `ChainTheorem` | `CloudSession` implements `SessionChain` | `RowPairs` (a row, also one that is over, holds a pair of its own session, and a consumed pair is older), then one lemma per group of actions: which step of the chain it is |
| `LifecycleTypeOK`, `SecretTheorem`, `ReplayTheorem`, `RegressTheorem` | the three invariants and the action property of `session_lifecycle` | `IInv`: what each thread is doing (`ThreadInv`); a reference that was replaced never comes back (`RefInv`); a pair is carried only when its login is on disk (`KnownInv`); nothing newer than the disk is sent, so the cloud is at most one rotation ahead (`GenInv`) |
| `ChainTheorem` of `SessionLifecycle_proofs` | `SessionLifecycle` implements `SessionChain` | `ChainInv` beside `IInv`: a session has pairs exactly when the cloud has opened it for a login, a login that failed is over, and a call that has not sent has no answer; then which step of the chain each action is (a replay is `Hand`, a refresh whose answer is lost a `Renew` that hands out nothing) |
| `OwnerGateTheorem`, `OneOwnerTheorem` | collaborators wait for the owner; one open owner | `PeopleInv`: each needs the other, and that a frozen bulk edit names an owner outside its collaborators |
| `OwnershipTheorem` | `TaskCollaboration` implements `TaskOwnership` | `RowsTell` (what assignment and answer of a row can occur together) beside `PeopleInv`, so that a row is read as one standing or seat; then one lemma per command |
| `NoLostOwnerTheorem`, `ReplayTheorem` of `TaskCollaboration_proofs` | no owner is lost where the clients send no transfers (`NoTransfers`); every command but an update is answered by its first receipt | `SawOwner`: without transfers, the owner changes only with the version of the task; the fingerprint of the other commands is the command |
| `TaskTypeOK`, `AppliedOnceTheorem`, `TimersStopTheorem`, `AcceptanceTheorem` | the other properties of `task_collaboration` | `TaskInv`: with `PeopleInv`, that every segment but a member's latest has ended (`TimersInv`), that a command that took effect has its receipt (`ReceiptsOK`), and that a collaborator who waits for the owner has no answer (`Unanswered`) |
| `LinesTheorem` | a projection holds the event lines its tasks name | `SyncInv`: rows only grow, and each list holds what the lists before it need |
| `ChangesTheorem` | a projection is not older than the changes of its answer | the same invariant with versions |
| `SyncTypeOK`, `RemovalTheorem`, `QuietSyncTheorem` | removals are named; a quiet phone misses nothing | `ShapeInv` (cursors are places, lists are cut at the limit) and `FollowInv`: a dropped task has its removal (`Shown`, `Removing`), an answer read in peace shows the rows as they are (`Peace`, `Empty`), and what commits later lies beyond the phone's cursor (`Ahead`) |
| `SwitchTypeOK`, `SwitchSavesHitSent`, `SwitchDataOfContext`, `SwitchNoFalseRefusal` | the three invariants of `workspace_switch` | `IInv`: what a call names (`Named`), whose turn it is (`Turns`), that what a save applies is bound (`Bound`), that a recorded switch is only answered (`Answered`), that transitions have numbers of their own (`Numbered`) and read for the window's context (`Current`) |
| `UpgradeTypeOK`, `UpgradeRowsOnDisk`, `UpgradeReadyServes`, `UpgradeFailedKeepsRows` | no row is lost; ready backends have all; wherever an upgrade raises, every row is in the old database, in the new one whose flush raised, or in the backups | `IInv`: which version is live at each step (`Versioned`, `Logs`, `Known`), what is archived before it is replaced, and that every copy is (`Archived`), who excludes whom (`Exclusive`), and where the rows are (`Complete`) |
| `UpgradeNoEmptyWithoutGap` | no empty database takes the place of the old one until a start has looked in the gap of a restore | `Rooted`: an older database, a copy of one and what an older backend serves have rows |
| `UiTypeOK`, `UiAnswerTrue`, `UiChangedOnce` | a change is made once and the window is told the truth | `IInv`: what each thread and each call under way holds of the frozen payload and the cloud's record |

Three of the theorems delimit the disagreements of section 3 rather than state what a run
checks. `NoLostOwnerTheorem`: finding 1 needs a transfer; overlapping edits, answers,
returns and replays alone never take a task from an owner the editor had not seen.
`ReplayTheorem`: of the commands on a task, updates alone can lose their receipt.
`UpgradeNoEmptyWithoutGap`: finding 4 needs a start that looks in the gap; nothing else
that fails, overlaps or is killed leads to an empty database.

Why the strengthenings are needed: `ConsumedOnce` alone does not exclude a consumed
pair that is live again; `ThreadInv` ties a thread that holds the write lock to the row
it read. `OneOwner` alone does not survive a transfer, which replaces *one* assigned
owner. A row that is assigned and returned, or waits with an answer, would have no place in
`TaskOwnership`; `RowsTell` excludes it. `LinesPresent` speaks of a finished answer only and says nothing of the reads
before it. `DataOfContext` says nothing of the transitions under way: that only the one
with the last number may show anything needs `Numbered`, and that it shows what the window
asks for next needs `Current`. `RowsOnDisk` does not survive a swap unless `Archived` says
what the swap removes, and `ReadyServes` needs that nobody rebuilds beside a ready backend.

A proof module `X_proofs` extends `X`. It has one lemma per action or group of actions
and a lemma about `Next`; the last steps are temporal.

Two arguments go by the least element of a set of naturals (`LeastNat`, from the library's
fact that < is well-founded on them), as the induction theorems themselves cannot be used:
that a non-empty finite set of events has a first and a last, and that the durations of
any number of timer segments add up to a number.

**Only model-checked.** The liveness properties; every invariant, action property and
refinement of a passing run is proved.

**Out of the prover's reach.** Liveness under fairness (`SlotsComeBack`, both
`CallsEnd`, `LoadingEnds`, `StartEnds`), `ENABLED`, and induction over data. No module declares a recursive
operator.

## 5. What is abstracted or left out

- Payloads, texts, hashes and encryption: equality of values stands for equality of
  hashes.
- SQLite is serializable and durable: a committed transaction survives a crash, an
  uncommitted one leaves nothing. A read outside a transaction sees one moment.
- Time is a clock only where the code compares times (`MobileSync`); elsewhere an expiry
  or a deadline may happen at any moment, except that the two hours of an access token
  are longer than one request.
- The local process is the only one on its vault: the Electron shell holds a
  single-instance lock.
- `SessionLifecycle` has one workspace; what a switch does beyond verifying the session
  is `WorkspaceSwitch`, which takes the cloud's answer about a session as given. `TaskCollaboration` has one task and no lists, tags, attachments
  or calendar rows. `MobileSync` has the two lists of a projection that refer to each
  other, all visible to the member.
- `WorkspaceSwitch` reads one block before and one after the list of workspaces, where the
  window loads a dozen; the start of the window with its retries, the answer of a save as
  it is merged into the settings, and `reconcileStaleWorkspaceRuntime` are left out. A call
  is served by one thread at a time: the window repeats it when the backend has answered.
- `OfflineUpgrade` does not look into a row: a build keeps every row or refuses. A check
  that raises is an error of that moment; the file is not damaged. Processes are killed, the
  power does not fail: what is written is there although it was not flushed.
- `UiReceipts` has one row and the receipts of `replayable_cloud_mutation`; generated
  values and the states only imports use are left out.
- Components without a module, and why: `PROJECT.json`, `components`.

## 6. What would come next

Not modelled, by importance:

1. `OfficialUpdater` (`src/main/officialUpdater.ts`): IPC handlers split at their awaits;
   two releases, two handlers.
2. Background jobs: transcription and attachment jobs across a switch and a restart.
3. Read coalescing of the local application (`main.py`): a read that joins one started
   before a write.
4. `attach_task_to_event_line` and the other commands of planning that send several
   commands under one key.
5. The remaining lists of `MobileSync`.

The rest of the repository is transactions of one shape over business tables (a version,
a receipt, an event; `TaskCollaboration` is the one with the most behaviour), projections
and formatting, providers and engines behind process boundaries, and the renderer's
views. They hold most of the lines and little of the control, which is why the modules
stand for a small share of the source.
