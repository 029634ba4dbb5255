----------------------------- MODULE BrowserGate -----------------------------
(***************************************************************************)
(* The browser replica's account gate: tabs and their workers share one    *)
(* origin database (gate record, partition index, rows, pending writes,    *)
(* purge intents) and two localStorage records (deny tombstone, logout     *)
(* marker).  packages/replica/src/kv-storage: lifecycle.ts, gateTx.ts,     *)
(* secureStore.ts, pending.ts, client.ts.                                  *)
(*                                                                         *)
(* An IndexedDB transaction is one step.  A database delete lands, fails,  *)
(* or is blocked by a running transaction: it then stays queued and every  *)
(* later open waits behind it.  What runs under the Web Lock is split at   *)
(* the awaits after which a crash or another tab's worker can be seen; the *)
(* lock holder's progress is `lock.step`.  The key records exist exactly   *)
(* while the gate has an account: one transaction writes or removes both.  *)
(***************************************************************************)
EXTENDS Naturals, FiniteSets

CONSTANTS Tab,          \* the tabs of the origin, each with one worker
          Account,      \* the principals that sign in
          Nobody,       \* no account, no tab
          NoGate, NoStamp, Free,
          Window,       \* CONSENT_WINDOW_MS
          MaxInc,       \* bound: incarnations created
          MaxEpoch,     \* bound: denials
          MaxTime,      \* bound: the clock
          MaxFaults     \* bound: crashes and failed operations

ASSUME BrowserGateAssumption ==
    /\ Nobody \notin Account \cup Tab
    /\ Window \in Nat \ {0} /\ MaxTime \in Nat \ {0}
    /\ MaxInc \in Nat /\ MaxEpoch \in Nat /\ MaxFaults \in Nat

VARIABLES gate,      \* the account row of the gate store
          index,     \* incarnations with a live, indexed partition
          rows,      \* incarnations whose partition holds entries or blobs
          pend,      \* incarnations with a pending-write row
          intents,   \* the purge intents, <<kind, incarnation>>
          queued,    \* the tab whose blocked deleteDatabase has not landed
          tomb,      \* the deny tombstone in localStorage; epoch 0 is none
          marker,    \* the logout marker in localStorage
          lock,      \* the origin Web Lock: who, what for, at which step
          now, born, faults,
          view,      \* per tab: the stamp the lifecycle adopted
          leaving,   \* per tab: the account whose deny waits for the lock
          restoring, \* per tab: the gate an unlocked restore has read
          handle,    \* per tab: the worker's open store
          page,      \* per tab: a feed page sealed against the current revision
          reply,     \* per tab: the stamp of the reply on its way to the tab
          ended,     \* history: the stamps whose sign-out has been reported
          outAt      \* history: when the last sign-out took effect

db      == <<gate, index, rows, pend, intents>>
origin  == <<tomb, marker>>
session == <<view, leaving, restoring>>
worker  == <<handle, page, reply>>
history == <<ended, outAt>>
vars == <<db, queued, origin, lock, now, born, faults, session, worker, history>>

Kinds  == {"partition", "pending"}
Stamps == [inc : 1..MaxInc, epoch : 0..MaxEpoch]
Active == gate # NoGate /\ gate.who # Nobody
StampOf(r) == [inc |-> r.inc, epoch |-> r.epoch]
MaxOf(a, b) == IF a >= b THEN a ELSE b

Gates == [inc : 1..MaxInc, epoch : 0..MaxEpoch, who : Account \cup {Nobody},
          deniedAt : 0..MaxTime + MaxEpoch, deadline : 0..MaxTime + Window]
Stores   == [inc : 1..MaxInc, epoch : 0..MaxEpoch, fresh : BOOLEAN]
Restores == [gate : Gates, keyed : BOOLEAN]
Sections == [tab : Tab, op : {"deny", "recover", "copy", "erase"},
             step : {"commit", "wipe", "mark", "clear", "unmark", "purge"}]

ASSUME NothingAssumption ==
    /\ NoGate \notin Gates /\ Free \notin Sections
    /\ NoStamp \notin Gates /\ NoStamp \notin Stamps
    /\ NoStamp \notin Stores /\ NoStamp \notin Restores

TypeOK ==
    /\ gate \in Gates \cup {NoGate}
    /\ gate # NoGate => (gate.who = Nobody) = (gate.deadline = 0)
    /\ index \subseteq 1..MaxInc /\ rows \subseteq 1..MaxInc /\ pend \subseteq 1..MaxInc
    /\ intents \subseteq Kinds \X (1..MaxInc)
    /\ queued \in Tab \cup {Nobody}
    /\ tomb \in [epoch : 0..MaxEpoch, at : 0..MaxTime + MaxEpoch]
    /\ marker \in BOOLEAN
    /\ lock \in Sections \cup {Free}
    /\ now \in 1..MaxTime /\ born \in 0..MaxInc /\ faults \in 0..MaxFaults
    /\ view \in [Tab -> Gates \cup {NoStamp}]
    /\ leaving \in [Tab -> Account \cup {Nobody}]
    /\ restoring \in [Tab -> Restores \cup {NoStamp}]
    /\ handle \in [Tab -> Stores \cup {NoStamp}]
    /\ page \in [Tab -> BOOLEAN]
    /\ reply \in [Tab -> Stamps \cup {NoStamp}]
    /\ ended \subseteq Stamps /\ outAt \in 0..MaxTime

Init ==
    /\ gate = NoGate /\ index = {} /\ rows = {} /\ pend = {} /\ intents = {}
    /\ queued = Nobody /\ tomb = [epoch |-> 0, at |-> 0] /\ marker = FALSE
    /\ lock = Free /\ now = 1 /\ born = 0 /\ faults = 0
    /\ view = [t \in Tab |-> NoStamp] /\ leaving = [t \in Tab |-> Nobody]
    /\ restoring = [t \in Tab |-> NoStamp]
    /\ handle = [t \in Tab |-> NoStamp] /\ page = [t \in Tab |-> FALSE]
    /\ reply = [t \in Tab |-> NoStamp] /\ ended = {} /\ outAt = 0

-----------------------------------------------------------------------------
(* Checks and shared steps. *)

Fail == faults < MaxFaults /\ faults' = faults + 1
NoFail == UNCHANGED faults

\* An open waits behind a queued delete.
DatabaseOpens == queued = Nobody

\* The lock's section ends, or goes on at `step`.
Release == lock' = Free
GoTo(step) == lock' = [lock EXCEPT !.step = step]
Holds(t, step) == lock # Free /\ lock.tab = t /\ lock.step = step

\* A gate below the tombstone: a denial was persisted and not committed.
Behind == gate # NoGate /\ tomb.epoch > 0 /\ gate.epoch < tomb.epoch

\* denyFloor refuses a gate behind the tombstone, or one denied without any.
FloorReadable == gate # NoGate => IF tomb.epoch = 0 THEN gate.epoch = 0 ELSE ~Behind
FloorEpoch_Adds == (IF gate = NoGate THEN 0 ELSE gate.epoch) + tomb.epoch
FloorEpoch == MaxOf(IF gate = NoGate THEN 0 ELSE gate.epoch, tomb.epoch)
FloorAt_GateOnly == IF gate = NoGate THEN 0 ELSE gate.deniedAt
FloorAt == MaxOf(IF gate = NoGate THEN 0 ELSE gate.deniedAt, tomb.at)

CanDeliver_NoTombstone(t, s) ==
    /\ view[t] # NoStamp
    /\ StampOf(view[t]) = s
    /\ ~marker
    /\ now < view[t].deadline

\* checkDelivery: what the tab may hand to the app under stamp s.
CanDeliver(t, s) ==
    /\ view[t] # NoStamp
    /\ StampOf(view[t]) = s
    /\ ~marker
    /\ IF tomb.epoch = 0 THEN s.epoch = 0 ELSE s.epoch >= tomb.epoch
    /\ now < view[t].deadline

\* runChecked: the gate is the first request of every guarded transaction.
Guarded(h) ==
    /\ DatabaseOpens
    /\ Active
    /\ StampOf(gate) = StampOf(h)
    /\ \A kind \in Kinds : <<kind, h.inc>> \notin intents
    /\ now < gate.deadline

\* Every meta write moves the revision, so pages sealed against it conflict.
Moved(i) == page' = [t \in Tab |-> page[t] /\ handle[t].inc # i]

Outdate_RevisionOnly(i) == Moved(i) /\ UNCHANGED handle

\* An erase also moves the generation: stores opened before it must reopen.
Outdate(i) ==
    /\ handle' = [t \in Tab |-> IF handle[t] # NoStamp /\ handle[t].inc = i
                                THEN [handle[t] EXCEPT !.fresh = FALSE] ELSE handle[t]]
    /\ Moved(i)

DatabaseGone ==
    /\ gate' = NoGate /\ index' = {} /\ rows' = {} /\ pend' = {} /\ intents' = {}
    /\ handle' = [t \in Tab |-> IF handle[t] = NoStamp THEN NoStamp
                                ELSE [handle[t] EXCEPT !.fresh = FALSE]]
    /\ page' = [t \in Tab |-> FALSE]

-----------------------------------------------------------------------------
(* Sign-in. *)

Adopt(t, g) == view' = [view EXCEPT ![t] = g]

\* advanceDeny up to its first await: the tombstone goes out before the commit.
Tombstone(t, op) ==
    /\ tomb.epoch < MaxEpoch
    /\ tomb' = [epoch |-> FloorEpoch + 1, at |-> MaxOf(now, FloorAt + 1)]
    /\ lock' = [tab |-> t, op |-> op, step |-> "commit"]
    /\ outAt' = now

\* expireConsentLocked past its checks: also takes the tab's own view.
Expired(t, op) ==
    /\ now >= gate.deadline
    /\ view' = [view EXCEPT ![t] = NoStamp]
    /\ Tombstone(t, op)

\* establishSessionStamp: a consent given at `at` creates the gate or joins it.
Establish(t, p, at) ==
    /\ lock = Free /\ DatabaseOpens
    /\ at <= now
    /\ ~marker /\ intents = {}
    /\ FloorReadable
    /\ at > FloorAt
    /\ \/ /\ ~Active
          /\ born < MaxInc
          /\ born' = born + 1
          /\ gate' = [inc |-> born + 1, who |-> p, epoch |-> FloorEpoch,
                      deniedAt |-> FloorAt, deadline |-> at + Window]
          /\ Adopt(t, gate')
          /\ UNCHANGED <<tomb, lock, outAt>>
       \/ /\ Active /\ gate.who = p
          /\ now < gate.deadline
          /\ Adopt(t, gate)
          /\ UNCHANGED <<gate, born, tomb, lock, outAt>>
       \/ /\ Active /\ gate.who = p
          /\ Expired(t, "deny")
          /\ UNCHANGED <<gate, born>>
    /\ UNCHANGED <<index, rows, pend, intents, queued, marker, now, faults,
                   leaving, restoring, worker, ended>>

\* restoreSessionStamp takes no lock: the gate, then the keys and the marker,
\* then the intents, and the tab adopts the gate it read first.
RestoreRead(t) ==
    /\ DatabaseOpens /\ restoring[t] = NoStamp /\ view[t] = NoStamp
    /\ FloorReadable /\ Active
    /\ restoring' = [restoring EXCEPT ![t] = [gate |-> gate, keyed |-> FALSE]]
    /\ UNCHANGED <<db, queued, origin, lock, now, born, faults, view, leaving, worker, history>>

RestoreKeys(t) ==
    /\ DatabaseOpens /\ restoring[t] # NoStamp /\ ~restoring[t].keyed
    /\ restoring' = [restoring EXCEPT ![t] =
                       IF Active /\ gate.inc = @.gate.inc /\ ~marker
                       THEN [@ EXCEPT !.keyed = TRUE] ELSE NoStamp]
    /\ UNCHANGED <<db, queued, origin, lock, now, born, faults, view, leaving, worker, history>>

RestoreAdopt(t) ==
    /\ DatabaseOpens /\ restoring[t] # NoStamp /\ restoring[t].keyed
    /\ IF intents = {} /\ now < restoring[t].gate.deadline
       THEN Adopt(t, restoring[t].gate) ELSE UNCHANGED view
    /\ restoring' = [restoring EXCEPT ![t] = NoStamp]
    /\ UNCHANGED <<db, queued, origin, lock, now, born, faults, leaving, worker, history>>

-----------------------------------------------------------------------------
(* Sign-out. *)

\* deny of the account a tab has or is restoring: the tab's own view goes
\* before the first await.
AskDeny(t) ==
    /\ leaving[t] = Nobody
    /\ \/ view[t] # NoStamp /\ leaving' = [leaving EXCEPT ![t] = view[t].who]
       \/ /\ view[t] = NoStamp /\ restoring[t] # NoStamp
          /\ leaving' = [leaving EXCEPT ![t] = restoring[t].gate.who]
    /\ view' = [view EXCEPT ![t] = NoStamp]
    /\ UNCHANGED <<db, queued, origin, lock, now, born, faults, restoring, worker, history>>

\* denyLocked: stale, unguarded (the floor or localStorage fails), or under way.
StartDeny(t) ==
    /\ lock = Free /\ DatabaseOpens
    /\ leaving[t] # Nobody
    /\ leaving' = [leaving EXCEPT ![t] = Nobody]
    /\ IF FloorReadable /\ Active /\ gate.who = leaving[t]
       THEN \/ Tombstone(t, "deny") /\ NoFail
            \/ Fail /\ UNCHANGED <<tomb, lock, outAt>>
       ELSE UNCHANGED <<tomb, lock, outAt, faults>>
    /\ UNCHANGED <<db, queued, marker, now, born, view, restoring, worker, ended>>

\* expireConsent: the timer, a worker or a restore found the deadline passed.
Expire(t) ==
    /\ lock = Free /\ DatabaseOpens
    /\ FloorReadable /\ Active
    /\ Expired(t, "deny")
    /\ UNCHANGED <<db, queued, marker, now, born, faults, leaving, restoring, worker, ended>>

\* The stamps a reported sign-out ends: every one issued below the tombstone.
Report == ended' = {s \in Stamps : s.inc <= born /\ s.epoch < tomb.epoch}

\* A recovery goes on to its erase pass; a sign-out leaves that to its caller.
AfterCommit == IF lock.op = "recover" THEN GoTo("purge") ELSE Release

\* commitDeny: one transaction moves the gate and records what must go.
CommitDeny(t) ==
    /\ Holds(t, "commit") /\ DatabaseOpens
    /\ \/ /\ Active
          /\ gate' = [gate EXCEPT !.who = Nobody, !.deadline = 0,
                                  !.epoch = tomb.epoch, !.deniedAt = tomb.at]
          /\ intents' = intents
               \cup ({"partition"} \X index)
               \cup ({"pending"} \X (index \cup pend))
          /\ Report
          /\ AfterCommit
       \/ /\ ~Active
          /\ AfterCommit
          /\ UNCHANGED <<gate, intents, ended>>
    /\ UNCHANGED <<index, rows, pend, queued, origin, now, born, faults, session, worker, outAt>>

CommitFails(t) ==
    /\ Holds(t, "commit")
    /\ Fail
    /\ GoTo("wipe")
    /\ UNCHANGED <<db, queued, origin, now, born, session, worker, history>>

\* wipe: the whole database goes; a delete that does not land is marked.
Wipe(t) ==
    /\ Holds(t, "wipe") /\ DatabaseOpens
    /\ DatabaseGone
    /\ Report
    /\ Release
    /\ UNCHANGED <<queued, origin, now, born, faults, session, reply, outAt>>

WipeFails(t) ==
    /\ Holds(t, "wipe") /\ DatabaseOpens
    /\ Fail
    /\ queued' \in {Nobody, t}
    /\ IF tomb.epoch > 0 THEN GoTo("mark") ELSE Release
    /\ UNCHANGED <<db, origin, now, born, session, worker, history>>

Mark(t) ==
    /\ Holds(t, "mark")
    /\ \/ marker' = TRUE /\ NoFail /\ Report
       \/ Fail /\ UNCHANGED <<marker, ended>>
    /\ Release
    /\ UNCHANGED <<db, queued, tomb, now, born, session, worker, outAt>>

\* The blocked delete's last connection closed.
DeleteLands ==
    /\ queued # Nobody
    /\ queued' = Nobody
    /\ DatabaseGone
    /\ UNCHANGED <<origin, lock, now, born, faults, session, reply, history>>

-----------------------------------------------------------------------------
(* Erase and recovery. *)

\* recover, run by every page load: finish what an earlier sign-out left.
Recover(t) ==
    /\ lock = Free /\ DatabaseOpens
    /\ LET Take(step) == lock' = [tab |-> t, op |-> "recover", step |-> step] IN
       IF marker THEN tomb.epoch > 0 /\ Take("clear") /\ UNCHANGED <<tomb, outAt, view>>
       ELSE IF Behind THEN Take("wipe") /\ UNCHANGED <<tomb, outAt, view>>
       ELSE \/ FloorReadable /\ Active /\ Expired(t, "recover")
            \/ /\ Active => now < gate.deadline
               /\ intents # {}
               /\ Take("purge")
               /\ UNCHANGED <<tomb, outAt, view>>
    /\ UNCHANGED <<db, queued, marker, now, born, faults, leaving, restoring, worker, ended>>

\* The delete a marker calls for; then the marker goes, in a step of its own.
Clear(t) ==
    /\ Holds(t, "clear") /\ DatabaseOpens
    /\ \/ DatabaseGone /\ GoTo("unmark") /\ NoFail /\ UNCHANGED queued
       \/ Fail /\ queued' \in {Nobody, t} /\ Release /\ UNCHANGED <<db, handle, page>>
    /\ UNCHANGED <<origin, now, born, session, reply, history>>

Unmark(t) ==
    /\ Holds(t, "unmark")
    /\ \/ marker' = FALSE /\ NoFail
       \/ Fail /\ UNCHANGED marker
    /\ Release
    /\ UNCHANGED <<db, queued, tomb, now, born, session, worker, history>>

\* erasePending: a denial's erase, run again by whoever saw it unfinished.
ErasePending(t) ==
    /\ lock = Free /\ DatabaseOpens /\ intents # {}
    /\ lock' = [tab |-> t, op |-> "erase", step |-> "purge"]
    /\ UNCHANGED <<db, queued, origin, now, born, faults, session, worker, history>>

\* eraseIntent: rows, index entry and intent go in one transaction.
EraseIntent(t, intent) ==
    /\ Holds(t, "purge") /\ DatabaseOpens
    /\ intent \in intents
    /\ intents' = intents \ {intent}
    /\ IF intent[1] = "partition"
       THEN /\ rows' = rows \ {intent[2]} /\ index' = index \ {intent[2]}
            /\ Outdate(intent[2])
            /\ UNCHANGED pend
       ELSE /\ pend' = pend \ {intent[2]}
            /\ UNCHANGED <<rows, index, handle, page>>
    /\ UNCHANGED <<gate, queued, origin, lock, now, born, faults, session, reply, history>>

\* The pass is over, or an aborted signal or a failed transaction ends it early.
EraseDone(t) ==
    /\ Holds(t, "purge")
    /\ IF intents = {} THEN NoFail ELSE Fail
    /\ \/ lock.op = "copy" /\ GoTo("wipe")
       \/ (lock.op # "copy" \/ intents # {}) /\ Release
    /\ UNCHANGED <<db, queued, origin, now, born, session, worker, history>>

\* eraseLocalCopy: refused while an account is live, or on a marker alone.
EraseLocalCopy(t) ==
    /\ lock = Free /\ DatabaseOpens
    /\ LET Take(step) == lock' = [tab |-> t, op |-> "copy", step |-> step] IN
       IF marker THEN tomb.epoch > 0 /\ Take("clear")
       ELSE /\ ~Active \/ Behind
            /\ Take(IF gate = NoGate \/ Active THEN "wipe" ELSE "purge")
    /\ UNCHANGED <<db, queued, origin, now, born, faults, session, worker, history>>

-----------------------------------------------------------------------------
(* The replica: a tab's handle and its worker. *)

\* open: the store is created with its index entry, or joined.
Open(t) ==
    /\ view[t] # NoStamp
    /\ LET s == StampOf(view[t]) IN
       /\ CanDeliver(t, s) /\ Guarded(s)
       /\ index' = index \cup {s.inc}
       /\ handle' = [handle EXCEPT ![t] = [inc |-> s.inc, epoch |-> s.epoch, fresh |-> TRUE]]
       /\ page' = [u \in Tab |-> u # t /\ page[u] /\ (s.inc \in index \/ handle[u].inc # s.inc)]
    /\ UNCHANGED <<gate, rows, pend, intents, queued, origin, lock, now, born, faults,
                   session, reply, history>>

\* A store that is still of the partition's generation and passes the gate.
Live(t) == handle[t] # NoStamp /\ handle[t].fresh /\ Guarded(handle[t])

\* Bound: one request of the origin in flight.  (Two pages of one partition
\* never are: a sync holds the partition's Web Lock.)
Unasked == \A t \in Tab : reply[t] = NoStamp /\ ~page[t]

\* get or list: asked and answered under the handle's stamp.
Serve(t) ==
    /\ Live(t) /\ Unasked
    /\ CanDeliver(t, StampOf(handle[t]))
    /\ reply' = [reply EXCEPT ![t] = StampOf(handle[t])]
    /\ UNCHANGED <<db, queued, origin, lock, now, born, faults, session, handle, page, history>>

\* #deliver: the reply reaches the app only if the gate honours its stamp now.
Deliver(t) ==
    /\ reply[t] # NoStamp /\ CanDeliver(t, reply[t])
    /\ reply' = [reply EXCEPT ![t] = NoStamp]
    /\ UNCHANGED <<db, queued, origin, lock, now, born, faults, session, handle, page, history>>

Drop(t) ==
    /\ reply[t] # NoStamp /\ ~CanDeliver(t, reply[t])
    /\ reply' = [reply EXCEPT ![t] = NoStamp]
    /\ UNCHANGED <<db, queued, origin, lock, now, born, faults, session, handle, page, history>>

\* commitPage: sealed against one revision, committed if the revision is still it.
PreparePage(t) ==
    /\ Live(t) /\ Unasked
    /\ page' = [page EXCEPT ![t] = TRUE]
    /\ UNCHANGED <<db, queued, origin, lock, now, born, faults, session, handle, reply, history>>

CommitPage(t) ==
    /\ page[t] /\ Guarded(handle[t])
    /\ rows' = rows \cup {handle[t].inc}
    /\ Moved(handle[t].inc)
    /\ UNCHANGED <<gate, index, pend, intents, queued, origin, lock, now, born, faults,
                   session, handle, reply, history>>

\* A pending write under the session's stamp.
WritePending(t) ==
    /\ handle[t] # NoStamp /\ Guarded(handle[t])
    /\ handle[t].inc \notin pend
    /\ pend' = pend \cup {handle[t].inc}
    /\ UNCHANGED <<gate, index, rows, intents, queued, origin, lock, now, born, faults,
                   session, worker, history>>

\* purge: erases and unindexes the partition while the account stays signed in.
Purge(t) ==
    /\ DatabaseOpens /\ Active
    /\ view[t] # NoStamp /\ view[t].who = gate.who
    /\ gate.inc \in index
    /\ index' = index \ {gate.inc} /\ rows' = rows \ {gate.inc}
    /\ Outdate(gate.inc)
    /\ UNCHANGED <<gate, pend, intents, queued, origin, lock, now, born, faults,
                   session, reply, history>>

-----------------------------------------------------------------------------
Tick ==
    /\ now < MaxTime
    /\ now' = now + 1
    /\ UNCHANGED <<db, queued, origin, lock, born, faults, session, worker, history>>

\* A tab closes, reloads or crashes; the browser frees its lock, and may drop
\* the delete it had queued.
Crash(t) ==
    /\ Fail
    /\ IF lock # Free /\ lock.tab = t THEN Release ELSE UNCHANGED lock
    /\ queued' \in IF queued = t THEN {t, Nobody} ELSE {queued}
    /\ view' = [view EXCEPT ![t] = NoStamp]
    /\ leaving' = [leaving EXCEPT ![t] = Nobody]
    /\ restoring' = [restoring EXCEPT ![t] = NoStamp]
    /\ handle' = [handle EXCEPT ![t] = NoStamp]
    /\ page' = [page EXCEPT ![t] = FALSE]
    /\ reply' = [reply EXCEPT ![t] = NoStamp]
    /\ UNCHANGED <<db, origin, now, born, history>>

SignIn(t) == \/ \E p \in Account, at \in 1..MaxTime : Establish(t, p, at)
             \/ RestoreRead(t) \/ RestoreKeys(t) \/ RestoreAdopt(t)
SignOut(t) == AskDeny(t) \/ StartDeny(t) \/ Expire(t)
\* What the lock holder's section goes on to do.
Section(t) == \/ CommitDeny(t) \/ Wipe(t) \/ Mark(t) \/ Clear(t) \/ Unmark(t)
              \/ (\E intent \in intents : EraseIntent(t, intent)) \/ EraseDone(t)
Trouble(t) == CommitFails(t) \/ WipeFails(t) \/ Crash(t)
Cleanup(t) == Recover(t) \/ ErasePending(t) \/ EraseLocalCopy(t)
Replica(t) == \/ Open(t) \/ Serve(t) \/ Deliver(t) \/ Drop(t)
              \/ PreparePage(t) \/ CommitPage(t) \/ WritePending(t) \/ Purge(t)

Next == \/ \E t \in Tab : SignIn(t) \/ SignOut(t) \/ Section(t) \/ Trouble(t)
                          \/ Cleanup(t) \/ Replica(t)
        \/ DeleteLands \/ Tick

Spec == Init /\ [][Next]_vars

-----------------------------------------------------------------------------
(* Properties. *)

\* Data of the account that is signed in, at the gate's own incarnation.
Owned(i) == Active /\ ~Behind /\ gate.inc = i /\ (i \in rows => i \in index)

\* Something durable will have every later load remove incarnation i's data.
Doomed(i) ==
    \/ /\ i \in rows => <<"partition", i>> \in intents
       /\ i \in pend => <<"pending", i>> \in intents
    \/ Behind
    \/ marker /\ tomb.epoch > 0
    \/ queued # Nobody

\* At any moment, and so after a crash at any step of any tab, the data on the
\* disk belongs to the account that is signed in or is bound to go: an intent
\* covers it, the gate is behind the tombstone, the marker asks for a delete,
\* or a delete is queued.  lifecycle.ts commitDeny, wipe, recover; a worker's
\* pages, purges and pending writes go on throughout.
DeniedDataDoomed == \A i \in rows \cup pend : Owned(i) \/ Doomed(i)

\* An account that is signed in gave its consent after the last sign-out took
\* effect, also when the denial failed and the database that recorded it was
\* deleted.  lifecycle.ts establishSessionStamp, denyFloor, advanceDeny.
SignInIsFresh == Active /\ ~Behind => gate.deadline - Window > outAt

\* Once a sign-out has been reported, no tab hands a reply of that session to
\* the app: not one already served, not from a restore that read the gate
\* before, and not while only the marker or the tombstone tells.
\* client.ts #deliver, lifecycle.ts checkDelivery.
NothingAfterSignOut == [][\A t \in Tab : Deliver(t) => reply[t] \notin ended]_vars
=============================================================================
