# A TLA+ verification of the TinyCloud JS SDK

The repository is a set of TypeScript packages around a remote TinyCloud node: an SDK for
browsers and Node, a CLI, a messaging tool (Courier), an MCP server, and a **local replica** of
KV data with an account gate, leases and fences.  Most of the code asks the node and formats the
answer.  The parts with a state of their own, kept on a disk that several processes or tabs
share, are the replica and its two gates (files for Node, IndexedDB for browsers), the profile
that owns it, with its lock and its sign-out, and Courier's outbox.  This project models these.

Paths below are relative to `src/packages/`.

## The system

| Component | State it keeps | Operations | What makes it correct | Here |
|---|---|---|---|---|
| Account gate (`replica/src/profile-gate/gateFile.ts`, used by `node-sdk/src/replication/sqlite.ts`) | `replica-gate.json`, `replica-deny-floor.json`, stamps in session files, intents to erase | establish, restore, deny, advance, defer/resume, erase, gated write, unlocked read, profile deletion | a logout is final for the sessions before it; its data is erased and not served meanwhile | `GateFile`, `GateFileProofs` |
| Sign-out of the CLI (`cli/src/lib/logout-pending.ts`, `commands/auth.ts`) | the logout marker, the flags of `profile.json`, key and session files | sign-in, logout, `--revoke` and its retry, recovery by the next command | an interrupted logout is finished, once, and only for its own account | `ProfileLogout`, `ProfileLogoutProofs` |
| Replication controller (`sdk-services/src/kv/replication/`) | pending-write records, `committedEpoch`, replicas, in-process proof | write, sync, get, list, purge, clearPending, renew | a local read never misses the identity's own writes | `ReadThrough`, `ReadThroughProofs` |
| Node replica storage (`node-sdk/src/replication/sqlite.ts`) | `fence.json`, `pending.json`, open handles with a generation, salts, quarantine | open, sync, status, get, purge, erase | fences and generations tell whose copy is read | `ReadThrough`, `GateFile` |
| Replica engine and store (`replica/src/engine.ts`, `sqlite/store.ts`) | entries, cursor, coverage, generation, lease, grants, blobs | sync, page, reset, destroy, revoke, repair, collect | one writer at a time, a cursor never ahead of its entries | part in `ReadThrough` |
| Profile lock (`operations/src/state.ts`) | numbered turns, `.lock`, deletion record | acquire, settle, release, collect, recover | at most one holder, however long a process pauses; an abandoned turn does not block for ever | `TurnLock`, `TurnLockProofs` |
| Browser storage (`replica/src/kv-storage/`) | an IndexedDB gate and its partitions, two localStorage records, stores open in workers | the gate's operations over transactions and one Web Lock | as the account gate, across tabs and their workers | `BrowserGate`, `BrowserGateProofs` |
| Courier's outbox (`courier/src/outbox.ts`) | ledger, item files, send markers, results | approve, serve, send, reconcile | an approved item is sent at most once and as approved; a peer's hourly cap holds | `CourierOutbox`, `ApprovedMail`, `CourierOutboxProofs` |
| Courier's file lock (`courier/src/file-lock.ts`) | the lock file and up to eight break guards | acquire, break, release | at most one living holder; a dead one does not block for ever | `FileLock`, `FileLockProofs`, `Mutex` |
| Consent and grants (`sdk-services/.../controller.ts`) | deadlines, timers, installed grants | mint, renew, expire, deny | nothing is served past its consent | the deadline in `ProfileLogout` and `BrowserGate` |
| Everything else | sessions, caches, forms | requests to the node | | not modelled (`PROJECT.json` says why, part by part) |

**How they interact.**  Every writer of a profile (sign-in, logout, the replica controller's
pending records, opening a replica, erasing it, deleting the profile) runs inside
`withProfileLock`, which takes a turn of the turn lock.  The gate's writes are sections of that
lock; its reads take none.  A sign-out is a sequence of such sections around the gate's deny.  A
controller write puts a record into `pending.json` before it sends the request and settles it
afterwards; a sync takes the store's lease, reads pages from the node, and then writes the fence;
a read asks the replica's status, the pending records and the entry in three awaits.  In a browser
the same gate is a row of an IndexedDB database; the tabs of the origin take turns on one Web
Lock, their workers do not.  Courier serves its outbox under a lock file of its own.

**What is hard.**  Processes share files and may pause or die between any two file operations; a
file may be lost or put back from an older copy; the clock may be set back; answers of the node
get lost while the request goes through later; a lease expires under a sync that is still
running; a number or a name is used again while somebody still acts on its earlier use.
`PROJECT.json` lists these hazards at their lines with the properties aimed at them.

## The modules

| Module | Models | Checked by |
|---|---|---|
| `GateFile` | the two gate files, the sections that write them, the sessions and reads of several processes, stores to erase | `MCGateFile`, run `gate_profiles` |
| `GateFileProofs` | theorems about `GateFile` | TLAPS |
| `ReadThrough` | pending records, epochs and fences, one lease and generation per replica, syncs, reads, purges and resets | `MCReadThrough`, runs `read_*` |
| `ReadThroughProofs` | theorems about `ReadThrough` | TLAPS |
| `TurnLock` | the turn lock, file operation by file operation, and the deletion of a profile | `MCTurnLock`, runs `lock_*` |
| `TurnLockProofs` | theorems about `TurnLock` | TLAPS |
| `ProfileLogout` | sign-in commits, sign-outs with and without `--revoke`, the marker, recovery, what the replicas do meanwhile | `MCProfileLogout`, run `profile_logout` |
| `ProfileLogoutProofs` | theorems about `ProfileLogout` | TLAPS |
| `BrowserGate` | the browser's gate, partitions and pending rows, tombstone and marker, tabs and workers | `MCBrowserGate`, run `browser_gate` |
| `BrowserGateProofs` | theorems about `BrowserGate` | TLAPS |
| `Mutex` | abstract: at most one living command inside | implemented by `FileLock`, used by `CourierOutbox` |
| `FileLock` | the lock file and its break guards, file operation by file operation | `MCFileLock`, runs `courier_lock`, `courier_guards` |
| `FileLockProofs` | theorems about `FileLock`, its refinement of `Mutex` among them | TLAPS |
| `ApprovedMail` | abstract: what the outbox promises its owner | implemented by `CourierOutbox` |
| `CourierOutbox` | approvals, markers, sends, results, restarts, the rate limit | `MCCourierOutbox`, run `courier_outbox` |
| `CourierOutboxProofs` | theorems about `CourierOutbox`, the refinement among them | TLAPS |

They are separate because their interfaces are narrow.  `GateFile` and `ProfileLogout` take the
profile lock as atomic sections with a possible crash inside; that the lock gives this is what
`TurnLock` shows.  `ProfileLogout` looks at the gate's account, epoch and intents; stamps, times
and incarnations are in `GateFile`.  `ReadThrough` has no gate: nothing of it runs unless the gate
says *allow*, and what the gate stops it stops altogether.  `CourierOutbox` takes its serve lock
through `Mutex` (`Lock!Take`, `Lock!Leave`), which `FileLock` is proved to implement as long as
there are fewer faults than guards.

### GateFile

`gate` and `floor` are the two files; a file that does not exist is a record no file can equal.
A deny writes the floor (`DenyGate`), then the gate (`CommitGate`); `Interrupt` is a crash or an
I/O error in between.  `establishSessionStamp`, `restoreSessionStamp`, `resumeDeferredGate`,
`advanceInactiveGate` and `clearGateIntent` are actions of their names.  `GuardedWrite` stands for
every write under `guarded`: the pending file, opening a partition, a page.  A read is three steps,
between which anything may happen, with the stamp that its handle was opened with: the gate check
at the begin of its snapshot (`ReadBegin`), the one at its end (`ReadRecheck`), which passes
unseen when the stat of the gate file has not changed and otherwise consults the floor again, and
the controller's `checkDelivery` after the snapshot is closed (`DeliveryAllowed`, `ReadEnd`), which
looks at this process's view and the gate file alone.  `LoseGateFile`, `CopyGateFile`,
`RestoreGateFile`, `LoseBothFiles`, `DeleteProfile` and `SetClock` are the environment.  A
hash is the name it hashes, since all hashes of one gate use the salt of its incarnation.
`setup` fixes, for a behaviour, the accounts, whose reads are followed, the bounds and whether
files are tampered with, so that one run checks several deployments.

Since `checkDelivery` does not read the floor, a sign-out that completes after the last gate check
of a read, followed by an older gate file put back before `checkDelivery`, lets the read be
delivered after the sign-out.  CONTRACT.md (481) promises no more than that the node checks its
process's view, so this is no finding; `DeniedReadNotDelivered` excepts these reads, which the
history variable `putBack` names, and no others.

Abstracted: salts, profile keys and schema checks (a file that does not parse is one that is
missing or unusable), and the logout marker, which stops reads and deliveries as long as it lies
there (it is in `ProfileLogout`).

### ProfileLogout

`profile`, `key`, `session` are the credentials on disk, `gate`, `floor`, `data`, `mirror` the
replicas, `marker` the file `replica-logout-pending.json` in its three kinds: *orphan* (there is
no gate to deny, only files), *inactive* (the gate is nobody's) and *active*, each possibly
*remote*, that is waiting for the node to revoke.  A command is a process at a step `pc` of a job
`doing`, for an account `who`.  Every step of a section is one durable write: `Mark`, `WriteFloor`
and `WriteGate` (the deny), `Bind` (a denial that the marker has not recorded yet), `Release` (the
marker stops being remote), `WriteFlag`, `RemoveKey`, `RemoveSession`, `Resume` (the deferred
erase), `EraseMirror`, `EraseFiles`, `ClearIntent`, `DropReminder`, `Unmark`.  `Recover` is
`recoverPendingLogout`, with which every command begins.  `SignIn` reads the profile without the
lock and `Commit` checks, under it, that nothing changed since; `Revoke` and `Finish` do the same
around the request to the node (`NodeRevokes`), in which the lock is not held.  `ConsentExpires`
is the deadline of a running host, which denies the gate marker or not.  `Establish`, `Replicate`,
`FillMirror` and `HostErases` are what replica hosts do meanwhile.  `Crash` ends a section at any
step and also stands for a write that fails; `SaveFails` is a failed save of a sign-in, which puts
back what it read; `GiveUp` ends a command that holds no lock.

Left out: the inventory of files that a user has to approve (it is always what is on disk), and
with it `reapprove` and `approveChangedPlainLogout`; `--keep-replicas`; gate files that are damaged
or put back; keys without a session; sessions that are saved without a sign-in
(`persistCurrentLocalSession`, `bootstrapDelegatedSession`).

### ReadThrough

One controller per process, one prefix per controller.  `pend` is the pending file, `op` what a
process knows of its writes, `rep` the replica (generation, entries, coverage), `fence`, `lease`,
`sync` and `read` the rest.  A write is: record, request, land at the node (now, later, or never),
settle; its answer may be lost, and a landed write may be older than one that already committed.
A sync is: read `committedEpoch`, take the lease, pages, completion, fence, settle of the records
it covers; a lease may be taken over at any point.  A read is its three awaits.  Purge,
`clearPending`, a reset by the node and crashes interleave with everything.  `setup` fixes the
deployment: which replica each process uses, which keys a replica covers, what may fail.

Abstracted: a page copies any keys and the last page brings coverage; freshness is a choice to
fall back to the node; consent deadlines, grants and the gate are not in it.

### TurnLock

A turn is a record with its number (`slot`), its creator's process, the token it follows and its
two markers; it is named by its token, so that two turns of the same number are told apart, as in
the code.  Each file operation is a step: a reading is the owner record (`ReadOwner`), the done
marker (`ReadDone`) and the held marker (read by the step that decides).  `Publish` is the rename
that fails when the number is taken, `Grant` and `VoidTurn` the markers of `takeTurn`, `Settle…`
the settlement of an abandoned turn by a waiter or by the background timer of the process that
gave it up (`Retry`), `Collect` … `Remove` the removal of old turns with the three readings it
decides by.  `GiveUpTurn`, `FileError`, `SectionFails`, `RemoveFails` and `Crash` are the faults.
`Enter`, `DeleteConfig` and `RecordDeletion` are the part of a deletion that others can notice.

Abstracted: a process is one run of a program, so that its PID is not used again
(`isRecordedProcessAlive` waits when it cannot tell, which only delays); one background timer per
process at a time; a listing is read at once (the caller may pause before it uses it).

### BrowserGate

`gate`, `index`, `rows`, `pend` and `intents` are the database, `tomb` and `marker` the two
localStorage records, `lock` the Web Lock with its holder's next step.  An IndexedDB transaction
is one step; everything between two awaits that somebody can see is a step of its own.  A sign-out
(`AskDeny`, `StartDeny`, `CommitDeny`) writes the tombstone, commits the deny, or, when that
fails, has the database deleted (`Wipe`) and otherwise sets the marker (`Mark`); `Expire` is the same for a
deadline, `Recover` what every load of a page does first.  `queued` is a `deleteDatabase` that a
running transaction blocks: later opens wait behind it, and it may land long after its tab closed
(`DeleteLands`).  A restore reads the gate, then the keys, then adopts (`RestoreRead`,
`RestoreKeys`, `RestoreAdopt`), all without the lock.  The workers open stores, read, prepare and
commit pages, write pending rows and purge, whatever the lock holder does; a page carries the
revision it was prepared against, a store the generation it was opened at.

Abstracted: one delete is blocked at a time; the key records exist exactly while the gate has an
account (one transaction writes or removes both); one reply of a worker is on its way to a tab.
Left out: the older v1 database, quota, the sealing of rows, sync leases, the wallet check, a
localStorage that is cleared by the user.

### FileLock and CourierOutbox

`FileLock` is `acquireLock`, `breakDead` and the release that `acquireLock` returns.  A record is a process and a nonce.  A
breaker claims a numbered guard for the dead record, checks the lock again, unlinks it, and removes
the guards that it passed over; `Gone` says how many guards of dead breakers lie around at first.
A guard held by a running process refuses; eight dead ones are cleared without a guard, which is
where the code's promise fails (below).

`CourierOutbox` is `outbox add` (`Approve`, then `Publish`) and `outbox serve`.  A server takes the
lock, gives every marker without a result the result *uncertain* (`Reconcile`), and serves
(`Request`, `Mark`, `Send`, `Answer`, `Record`).  `Mark` is the exclusive creation of the marker,
after which an item is never sent again; `MarkFails` the creation that
fails after its link and still leaves one.  A send is in
`flight` until it arrives, which may be after the server's death (`Crash`) or after it closed with
a send in progress (`Close`, `Closed`) and another server reconciled.  `Replace`, `StepBack` and
`EditPeers` are the owner's files and clock.  `elapsed` and `since` are history: time that nobody
sets back, by which the hourly cap is judged.

Left out: intake and its queue, the watcher, key rotation, pairing, and every refusal that only
answers the request.

## The runs

| Run | Shows | Bounds |
|---|---|---|
| `gate_profiles` | types; no revoked stamp is admitted; an account is active only by a newer consent; a read begun before a logout is not delivered after it, unless an older gate file was put back after its last gate check; data of a denied account stays sealed until it is erased; the floor never retreats | two processes, one of which reads; either one account, epochs to 2, times 0–2, files put back or lost; or two accounts with a store each, epochs to 3, times 0–1, two incarnations |
| `read_views` | types; a local read sees the identity's own writes | four deployments: a shared replica with every disturbance and one fault; two writers of one key; a replica inside another's prefix and a batch over both; pending records in memory and two faults |
| `read_catchup` | liveness: every fence reaches the committed epoch; committed records go away | two processes, one write, one fault |
| `read_reset` | **violated**: `RESET_REQUIRED` also for handles nobody erased | one write |
| `lock_stale` | types; mutual exclusion; at most one open turn; the last turn is usable; who waited through a recorded deletion refuses | two processes, one of which deletes, five turns, one fault |
| `lock_progress` | nobody ends the turn of a holder; somebody always gets in | three callers in two processes, two turns, one fault, deadlines |
| `lock_undone` | **violated**: who waited through an unrecorded deletion does not refuse | two callers, one fault |
| `courier_lock` | types; the holder's file stays; the file is a mutual exclusion lock (`Mutex`); liveness: a dead lock goes | three commands, a dead holder and a dead breaker, two attempts, one fault |
| `courier_guards` | **violated**: a break removes a lock that it did not observe | eight dead guards, two breakers |
| `courier_outbox` | types; the hourly cap; the promise to the owner (`ApprovedMail`) | three items, two bodies for peers with caps 1 and 2, two servers, times 0–3 in a window of 2, one fault |
| `browser_gate` | types; denied data is bound to go; a sign-in is newer than the last sign-out; nothing of an ended session is delivered | two tabs, two accounts, two incarnations, one denial, two faults |
| `profile_logout` | types; the marker is always accepted; a pending revocation keeps its session and files; no files are lost sight of; a finished sign-out left nothing; others are left alone; liveness: an interrupted sign-out is finished | two commands, two accounts, two sign-ins, two denials, one fault |

**Why the bounds are enough to be interesting.**  Five turns are what it takes to use a number
again: one caller reads the first turn and stops, another takes, ends and removes two more, the
first publishes the old number, and the other goes on; with four tokens that never happens, and
the mutants that drop the check of the predecessor hold.  Three times are what it takes to sign in
again after a deny of a restored gate.  One write and one fault reach every interleaving of a
read with a sync, a purge and a takeover; two writes are needed for a late answer of the first.
One reader of two processes is enough, since reads change nothing that
others see; the other process signs out.  Two breakers and a third command that takes the lock meanwhile are the whole of a break race; the
guard of an earlier breaker makes them pass over one.  A cap of 2 with three items for the same
peer fills a window and has one more to refuse, and two servers with a clock that steps back once
are enough to count too few.  Two commands are what it takes to sign out, or in, while a revocation
waits for the node; the second account is the one that must be left alone; two denials let a
marker speak of an epoch that is not the last; and a single crash, wherever it falls, is what the
recovery is for (a second crash finds a state that is again left by one).  In the browser one fault
fails a commit and a second its delete.  The safety properties of the passing
runs are also proved for all bounds (below); what rests on the bounds alone is liveness, and that
the interesting cases happen at all, which the runs that expect a violation and the mutants show.

**Fairness.**  `ReadThrough!FairSpec` assumes that the background interval of a controller keeps
firing (`controller.ts` 477–484) and that a started step is finished; its liveness run has no
crash, purge or reset, and finitely many faults.  `TurnLock!FairSpec` assumes only that a process
that runs gets on with the calls it has begun and with the background settlement of turns it
gave up; nobody has to call, deadlines may pass, and crashes are allowed.  `FileLock!FairSpec`
assumes that a command that waits for its profile calls again (the loop of Courier's
`withProfileLock`) and that a running call is finished; crashes are allowed.  `ProfileLogout!FairSpec`
assumes that a section that runs reaches its end, that a prompt or a request to the node does not
last for ever, and that the profile is used again, for every command begins with
`recoverPendingLogout`; nobody has to sign out again, and a pending revocation may stay pending.
The other specifications assume no fairness.

**The three violations** are disagreements between the code and its documents, quoted in
`PROJECT.json`: a 410 of the node changes the generation below open handles, which then raise
`RESET_REQUIRED` although CONTRACT.md reserves that for erased ones; a deletion that stops
between `profile.json` and its record lets a waiting write into a profile without settings; and
eight break guards of dead breakers are removed without a guard, so that a paused breaker removes
a guard that was claimed meanwhile, and then somebody a lock that he did not observe.

**A fourth one** has no run.  CONTRACT.md (554) leaves an interrupted `logout --revoke` to its
retry.  When it died between its marker and its deferred deny, and the consent deadline of a
running host then denies the gate without deferring (`controller.ts` 157), `validateV1` refuses the
marker: no command finishes it, and none goes on.  `ProfileLogout` has this behaviour; the history
variable `overtaken` records it, and `MarkerAccepted` speaks of all others.

## The proofs

`GateFileProofs` proves, for any sets of processes, accounts and stores and any bounds:

- `TypeCorrect`: the type invariant, which also says that every gate written is one the parser
  accepts.  It is inductive by itself.
- `RevokedStampsStayRevoked` and `ActivationNeedsNewerConsent`, from the inductive invariant
  `IInv`.  It says of every gate anywhere (the file, the backup, the one about to be committed) that
  its epoch and time are at or under the floor's; of every stamp issued that its epoch is, and of
  every stamp revoked that it is strictly below, unless no gate of its incarnation is left; and that
  an active gate that is not behind the floor rests on a consent above the floor's time.  The
  properties alone are not inductive because an older copy of the gate may come back at any time:
  the invariant has to speak of the copy, too.
- `DeniedReadsStop` (`DeniedReadNotDelivered`), from `IInv` and `ReadersNotDenied`: a reader whose
  gate file has not changed since its check holds no denied stamp, and when the stamp of a reader
  that is past its last check is denied, the gate has moved on from it (`MovedOn`) unless an older
  file was put back.  For the step of the deny this needs that a section writes the gate at the
  epoch of the floor (`NextAtFloor`).
- `DeniedDataStaysSealed` (for as long as the gate files are not lost or replaced), from `IInv` and
  `Sealed`: over denied data the gate is absent, lists the store among its intents, or is behind the
  floor and still names the store's owner.
- `FloorAdvances`, an action property, from `IInv`.

The clock of these proofs may be set to any time at any step, and `setup` is any deployment.

`CourierOutboxProofs` proves, for any finite set of items and any servers, peers and caps:

- `TypeCorrect`, from `OutboxInv`.
- `OutboxImplementsApprovedMail`: initial states map to initial states, and every step to a step of
  `ApprovedMail` or a stutter.  It rests on `OutboxInv`: besides the types, at most one server is at
  work (`OneServer`); whatever is in flight, delivered or recorded was marked before, and so was
  everything that a server is about to send (`MarkedFirst`); what is in flight or delivered is what
  the ledger says (`SentAsApproved`); an item that is about to be recorded has no result yet
  (`Unreported`); and a server at work knows its item and its marker (`AtWork`).  Delivering at most
  once needs all of them: a send can arrive after another server has recorded it as uncertain.
- `HourlyCapHolds`, an invariant about a cardinality.  The code counts markers by the clock, the
  property by the time that passes.  `Ages` relates the two: no marker is younger by the clock than
  it is in truth, since the clock is only set back; so the sends of an hour that passes are among
  those that the code counts when it marks the next (`RoomToMark`), and adding one keeps the count
  at the cap.

`ProfileLogoutProofs` proves, for any commands, accounts and bounds, from one inductive invariant
`Inv`:

- `TypeCorrect` and `NoFilesLost` (`FilesAccountedFor`).
- `EveryMarkerAccepted` (`MarkerAccepted`).  The property speaks of moments at which nobody holds
  the lock; the invariant (`AlwaysAccepted`) says it of every moment, since a crash may make any of
  them the last.  `AtMarker` says what the command in a section knows of the marker at each of its
  steps, and since there is one such command (in `TypeOK`), the others know nothing.
- `RevocationKept` (`PendingRevocationKept`).  Between the request to the node and the marker that
  follows it, a command holds no lock and remembers the session and the replicas.  `SeenKept` says
  that as long as both are what it remembers, nobody has put a marker: a deny raises the epoch, and
  epochs do not come back.
- `NothingIsLeft` (`FinishedMeansGone`), with `AtCredentials`: which credentials are gone at each
  step.
- `NobodyElseIsTouched` (`OthersLeftAlone`).

`ReadThroughProofs` proves, for any writes, keys, processes, replicas and deployments:

- `TypeCorrect`.
- `OwnWritesAreRead` (`LocalReadsSeeOwnWrites`).  A replica serves a read when no record names its
  key and the fence has reached the committed epoch.  Why that is enough needs a number which the
  code does not keep: the epoch `E[o]` at which each write was settled.  The invariant says that
  such an assignment exists (`EpochsExist`), such that a complete replica has every settled write
  up to the epoch of its fence (`FencesHave`), of a sync that has its last page (`SyncsHave`) and of
  the fence that a read has seen (`ReadsHave`).  A step hands the assignment on, and a write that is
  settled in it gets the next epoch (`Renumbers`).  With a store in memory there is no fence; there
  the records tell the epoch (`RecordsTell`), a running sync knows of each write by its record or by
  the epoch it started from (`SyncsKnow`), and `ProofHolds` says what the in-process proof stands
  for.  A write that has no answer yet still has its record (`WritesRecorded`), and what a read has
  found good stays good until it is delivered (`CheckedReads`), since entries only get newer.

`TurnLockProofs` proves, for any callers, processes, numbers of turns and faults, from the invariant
`Inv` (`TypeOK`, `Directory`, `Ownership`, `Reads`, `Protocol`, `Deletion`):

- `TypeCorrect`, `ExclusionHolds` (`MutualExclusion`), `OneTurnOpen` (`OneOpenTurn`), `HolderKeeps`
  (`HolderKeepsTurn`), `LatestUsable` (`LatestTurnUsable`), `DeletionIsFinal`
  (`DeletedProfileStaysDeleted`).
- `Directory` speaks of the files alone.  Granted turns have the numbers from 0 without a gap, one
  each, and all are done but perhaps the last; they are removed from the oldest on, each once the
  next one is done; a turn that was not granted is removed or voided only where another one was
  granted; the last granted turn is in place.  It follows (`NoRival`) that a turn whose predecessor
  is in place can be granted safely: had its number been granted to another token before, that one
  could only be there still, and then this one could not.
- Every step of the program changes the directory in one of five ways (`Creates`, `Publishes`,
  `Grants`, `Ends`, `Removes`), each with what must be true at that moment (`DirectorySteps`).  That
  it is true, although a caller read the files earlier and one by one, is what the other parts say:
  `Reads`, what the three readings of `readTurn` may still be trusted for; `Protocol`, what a caller,
  a settlement and a collection know at each of their steps (`OwnTurn`, `Settlement`, `Collection`,
  `Wait`); `Ownership`, that nobody settles the turn of a caller that runs and has not given it up.

`BrowserGateProofs` proves, for any tabs, accounts and bounds, from the invariant `Inv`:

- `TypeCorrect`, `DeniedDataGoes` (`DeniedDataDoomed`), `SignInNeedsNewerConsent` (`SignInIsFresh`)
  and the action property `EndedSessionsStaySilent` (`NothingAfterSignOut`).
- `DataCondemned` is stronger than the property: data of a denied account is owed to an intent, to
  the tombstone or to the marker even when a delete of the database is queued, since the queue may
  be dropped.  It needs `RowsIndexed` (a wipe works from the index: rows, and stores that may still
  commit a page, are of indexed partitions), `GateUnderFloor` (the tombstone goes out before the
  gate is raised to it) and `UnderWay` (what the steps of a denial rely on while they hold the lock).
  `EndedBelow` says that a session is reported as ended only when the tombstone is above it.

`FileLockProofs` proves, for any processes, calls, attempts and earlier guards:

- `TypeCorrect`, whatever the number of faults.
- `HolderKeeps` (`HolderKeepsLock`), `FilesAreMutex` (`ImplementsMutex`: initial states map to
  initial states of `Mutex`, steps to its steps or stutters) and `BreakIsExact`
  (`BreakRemovesObserved`), all three under the hypothesis `MaxFaults < MaxGuards`.  It is needed:
  with as many faults as guards `courier_guards` shows a break that removes a lock it did not
  observe.  `GuardsStay` says that while the lock is the dead record, whoever looks at it has passed
  over guards of dead breakers only, holds its own once it is inside, and removes none; two that are
  inside would have passed over each other, and are one (`InsideOnce`).  The exception would be a
  breaker that finds all guards left by the dead; `FewLeft`, an invariant about a cardinality, says
  that each guard left was left by a fault, so that one is free (`SomeGuardFree`).

Each inductive invariant was checked by TLC before it was proved: that of `ProfileLogoutProofs` on
the instance of `profile_logout`, that of `ReadThroughProofs` on the instance of `read_views`, that
of `BrowserGateProofs` on the instance of `browser_gate`, that of `TurnLockProofs` on two callers
with deadlines, four turns and one fault, and that of `FileLockProofs` on three commands with one
and two faults and three guards.  With three faults TLC finds the last one violated, as it must be.

Every invariant and every safety action property of the passing runs is thereby a theorem, and so
are the two refinements.  Only model-checked are the liveness properties (`FencesCatchUp`,
`CommittedRecordsDrain`, `SomeoneGetsIn`, `DeadLockGoes`, `LogoutFinishes`) and the violations.
TLAPS does not prove liveness under fairness, nor induction over data; no theorem depends on
either, and no module declares a `RECURSIVE` operator.

## What is not modelled

- A restored *inactive* gate together with `advanceInactiveGate` can drop intents; the logout
  marker of the CLI guards that path, so the two-account deployment of `gate_profiles` has no
  restored copies, and `ProfileLogout` no damaged or restored gate.
- `CONTRACT.md` accepts that a consent signed before a clock rollback and after it is not told
  from a new one.  The model's clock may go back; its properties speak of the times the code reads.
- The loss of the floor file alone; pending generations; grants and their promotion.
- In `ReadThrough`: list reads and their cursors, writes of other devices, retries (only a 503
  that applied nothing is retried, so a failed write stays failed).
- In `TurnLock`: the `.lock` directory for older releases, liveness sockets, damaged turns,
  reentrant acquisition, and the removal of the empty directory after a deletion.
- The renewal of grants and the timers of `controller.ts`.
- All parts listed as *not modelled* in `PROJECT.json`: clients of the node's requests, user
  interfaces, formats and cryptography.  They are most of the repository's lines (the counts are
  dominated by `TinyCloudNode.ts`, the Web SDK, the CLI's commands and the services), and keep no
  state that several actors share; a model of them would restate one request after another.

## Plan

1. An abstract KV client that `ReadThrough` implements, with list reads.
2. The serve lock of `CourierOutbox` composed from `FileLock` instead of `Mutex`, so that the
   hypothesis of `FileLockProofs` appears in the outbox's promise.
3. The file gate without lost or replaced files, and the browser's, as implementations of one
   abstract account gate.
4. List reads and their cursors; the consent deadlines and renewals of a controller.
5. `ReplicaSync`: lease, pages, tombstones, blobs, revocation of `engine.ts` and `sqlite/store.ts`.
