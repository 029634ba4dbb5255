------------------------------ MODULE GateFile ------------------------------
(***************************************************************************)
(* The account gate of a Node/CLI profile                                  *)
(* (packages/replica/src/profile-gate/gateFile.ts) with the callers that   *)
(* open, read, write, deny and erase local replicas through it             *)
(* (packages/node-sdk/src/replication/sqlite.ts).                          *)
(*                                                                         *)
(* Two files carry the state: replica-gate.json (gate) and                 *)
(* replica-deny-floor.json (floor).  A sign-out ("deny") writes the floor  *)
(* first and the gate second, under the profile lock, and the process may  *)
(* die between the two writes.  Reads take no lock.  The gate file may be  *)
(* lost, or replaced by an older copy.                                     *)
(*                                                                         *)
(* A file that does not exist is a record no existing file can equal:      *)
(* incarnations start at 1 and a written floor has an epoch of at least 1. *)
(* A null deniedAt is -1.  Every hash of gateFile.ts is a hash of a name   *)
(* with the salt that is drawn together with the incarnation, so within    *)
(* one incarnation a hash is represented by the name it stands for.        *)
(***************************************************************************)
EXTENDS Integers

CONSTANTS
  Proc,        \* processes that open the profile (CLI runs, SDK hosts)
  Account,     \* principals
  NoAccount,   \* a null principalHash
  Store,       \* erasable data: a replica partition or a pending-write file
  Owner,       \* Owner[s]: the account whose identity the store belongs to
  NoStore,
  NoProc,
  Setup        \* the profiles considered: who signs in, bounds, what may happen to the files

ASSUME ConstantsAssumption ==
  /\ NoAccount \notin Account
  /\ NoStore \notin Store
  /\ NoProc \notin Proc
  /\ Owner \in [Store -> Account]
  /\ Setup \subseteq [accounts    : SUBSET Account,  \* those who sign in
                      readers     : SUBSET Proc,     \* those whose local reads are followed
                      maxEpoch    : Nat,     \* bound on lifecycle epochs
                      maxTime     : Nat,     \* bound on the wall clock
                      maxInc      : Nat,     \* bound on gate incarnations
                      mayTamper   : BOOLEAN] \* an older copy of the gate file may be put back,
                                             \* and both files may be deleted together

VARIABLE setup   \* the profile; it never changes

MaxEpoch  == setup.maxEpoch
MaxTime   == setup.maxTime
MaxInc    == setup.maxInc
MayTamper == setup.mayTamper

VARIABLES
  gate,      \* replica-gate.json
  floor,     \* replica-deny-floor.json
  section,   \* the profile-lock section that is between two of its writes
  data,      \* data[s]: what is on disk for store s
  session,   \* session[p]: the replica session a process holds in memory
  reading,   \* reading[p]: the unlocked local read of a process
  statSame,  \* readers whose cached stat of the gate file still matches
  clock,     \* Date.now()
  incs,      \* gate incarnations drawn so far
  backup     \* the copy of the gate file that a restore would put back

\* What the properties remember; no action's guard reads these.
VARIABLES
  issued,    \* sessions that a sign-in ever returned (persisted copies)
  revoked,   \* stamps issued before a deny whose floor is durable
  denied,    \* stamps issued before a deny that has completed
  consent,   \* time of the sign-in proof the active account was accepted with
  lastDeny,  \* time of the last durable deny
  putBack    \* readers past their last gate check when an older gate file was put back

files    == <<gate, floor, section, data>>
memory   == <<session, reading, statSame>>
ghosts   == <<issued, revoked, denied, consent, lastDeny, putBack>>
vars     == <<setup, files, memory, clock, incs, backup, ghosts>>

-----------------------------------------------------------------------------
Stamp      == [inc : Nat, epoch : Nat]
NoStamp    == [inc |-> 0, epoch |-> 0]
AccountOr  == Account \cup {NoAccount}
GateState  == [inc : Nat, account : AccountOr, epoch : Nat, deniedAt : Int,
               intents : SUBSET Store, deferred : BOOLEAN, deferredFor : AccountOr]
FloorState == [epoch : Nat, deniedAt : Int]
Session    == [stamp : Stamp, account : AccountOr, visible : BOOLEAN]

\* A read has the stamp its handle was opened with.  It is in its SQLite snapshot, then
\* checked, past the last gate check in it.
Reading    == [step : {"none", "snapshot", "checked"}, store : Store \cup {NoStore}, stamp : Stamp]

FreshGate(inc) == [inc |-> inc, account |-> NoAccount, epoch |-> 0, deniedAt |-> -1,
                   intents |-> {}, deferred |-> FALSE, deferredFor |-> NoAccount]
NoGate     == FreshGate(0)
NoFloor    == [epoch |-> 0, deniedAt |-> -1]
NoSession  == [stamp |-> NoStamp, account |-> NoAccount, visible |-> FALSE]
NoReading  == [step |-> "none", store |-> NoStore, stamp |-> NoStamp]
Free       == [proc |-> NoProc, next |-> NoGate, erasing |-> NoStore]
Section    == [proc : Proc \cup {NoProc}, next : GateState, erasing : Store \cup {NoStore}]

\* What parseState accepts, and what every writer keeps: an account is never active
\* over unfinished erases or during a deferred one.
WellFormed(g) ==
  /\ g.deferred => g.account = NoAccount /\ g.deferredFor # NoAccount
  /\ g.account # NoAccount => g.intents = {} /\ ~g.deferred

Larger(m, n)  == IF m >= n THEN m ELSE n
Smaller(m, n) == IF m <= n THEN m ELSE n

-----------------------------------------------------------------------------
\* A gate that lags its floor: a deny was interrupted, or an older gate restored.
BehindFloor(g, f) == g.epoch < f.epoch \/ g.deniedAt < f.deniedAt

\* readState returns a state; in every other case it throws or finds no gate.
Usable    == gate # NoGate /\ ~BehindFloor(gate, floor)
CanCreate == gate = NoGate /\ floor = NoFloor

\* purge_pending, as establishSessionStamp and restoreSessionStamp refuse it.
NothingToErase_DeferredOnly == ~gate.deferred
NothingToErase == ~gate.deferred /\ gate.intents = {}

\* A sign-in proof counts only when it was issued after the last sign-out.
ConsentIsNewer_OrEqual(issuedAt) == issuedAt >= gate.deniedAt
ConsentIsNewer(issuedAt) == issuedAt > gate.deniedAt

\* assertGateAccess for a session of account a with stamp st on store s.
GateAccess(st, a, s) ==
  /\ st # NoStamp
  /\ Usable
  /\ gate.inc = st.inc
  /\ gate.epoch = st.epoch
  /\ gate.account # NoAccount
  /\ gate.account = a
  /\ s \notin gate.intents

\* checkDelivery(stamp): this process's view and the gate file, without the floor.
CheckDelivery(p, st) ==
  /\ session[p].visible
  /\ session[p].stamp = st
  /\ gate # NoGate
  /\ gate.inc = st.inc
  /\ gate.epoch = st.epoch
  /\ gate.account = session[p].account

\* collectIntents: every store of the account that is on disk.
CollectIntents(a) == {s \in Store : Owner[s] = a /\ data[s] # "absent"}

NextEpoch_GateOnly == gate.epoch + 1
NextEpoch    == Larger(gate.epoch, floor.epoch) + 1
NextDeniedAt_ClockOnly == Larger(clock, gate.deniedAt + 1)
NextDeniedAt == Larger(clock, Larger(gate.deniedAt + 1, floor.deniedAt + 1))

\* The gate that a deny of the active account commits.
DeniedGate_DeferSkipsIntents(defer) ==
  [gate EXCEPT !.account     = NoAccount,
               !.epoch       = NextEpoch,
               !.deniedAt    = NextDeniedAt,
               !.intents     = IF defer THEN @ ELSE @ \cup CollectIntents(gate.account),
               !.deferred    = defer,
               !.deferredFor = IF defer THEN gate.account ELSE NoAccount]
DeniedGate(defer) ==
  [gate EXCEPT !.account     = NoAccount,
               !.epoch       = NextEpoch,
               !.deniedAt    = NextDeniedAt,
               !.intents     = @ \cup CollectIntents(gate.account),
               !.deferred    = defer,
               !.deferredFor = IF defer THEN gate.account ELSE NoAccount]

\* The gate that advanceInactiveGate commits.
AdvancedGate == [gate EXCEPT !.epoch = NextEpoch, !.deniedAt = NextDeniedAt]

-----------------------------------------------------------------------------
Init ==
  /\ setup \in Setup
  /\ gate = NoGate
  /\ floor = NoFloor
  /\ section = Free
  /\ data = [s \in Store |-> "absent"]
  /\ session = [p \in Proc |-> NoSession]
  /\ reading = [p \in Proc |-> NoReading]
  /\ statSame = {}
  /\ clock = 0
  /\ incs = 0
  /\ backup = NoGate
  /\ issued = {}
  /\ revoked = {}
  /\ denied = {}
  /\ consent = -1
  /\ lastDeny = -1
  /\ putBack = {}

WriteGate(g) == gate' = g /\ statSame' = {}

\* readGateState on a profile without either file, with no principal set yet.
CreateGate ==
  /\ section = Free
  /\ CanCreate
  /\ incs < MaxInc
  /\ incs' = incs + 1
  /\ WriteGate(FreshGate(incs'))
  /\ UNCHANGED <<floor, section, data, session, reading, clock, backup, ghosts>>

\* establishSessionStamp with a sign-in proof that claims to be issued at t.
EstablishSessionStamp(p, a, t) ==
  LET issuedAt == Smaller(t, clock)
      stamp    == [inc |-> gate.inc, epoch |-> gate.epoch]
  IN
  /\ a \in setup.accounts
  /\ section = Free
  /\ Usable
  /\ NothingToErase
  /\ ConsentIsNewer(issuedAt)
  /\ gate.account \in {NoAccount, a}
  /\ \/ /\ gate.account = NoAccount
        /\ WriteGate([gate EXCEPT !.account = a, !.deferredFor = NoAccount])
     \/ /\ gate.account = a
        /\ UNCHANGED <<gate, statSame>>
  /\ session' = [session EXCEPT ![p] = [stamp |-> stamp, account |-> a, visible |-> TRUE]]
  /\ issued' = issued \cup {[stamp |-> stamp, account |-> a]}
  /\ consent' = issuedAt
  /\ UNCHANGED <<floor, section, data, reading, clock, incs, backup,
                 revoked, denied, lastDeny, putBack>>

\* restoreSessionStamp of any persisted session; it never writes.
RestoreSessionStamp(p, persisted) ==
  /\ section = Free
  /\ Usable
  /\ NothingToErase
  /\ persisted.stamp = [inc |-> gate.inc, epoch |-> gate.epoch]
  /\ gate.account = persisted.account
  /\ session' = [session EXCEPT ![p] = [stamp |-> persisted.stamp, account |-> persisted.account,
                                        visible |-> TRUE]]
  /\ UNCHANGED <<files, reading, statSame, clock, incs, backup, ghosts>>

\* deny drops this process's view first; a deny that does not match the gate stops there.
DenyStale(p, a) ==
  /\ section = Free
  /\ gate = NoGate \/ gate.account # a
  /\ session[p].visible
  /\ session' = [session EXCEPT ![p].visible = FALSE]
  /\ UNCHANGED <<files, reading, statSame, clock, incs, backup, ghosts>>

\* denyGate up to its first durable write, the floor; the gate write is still to come.
DenyGate(p, a, defer) ==
  /\ section = Free
  /\ gate # NoGate
  /\ gate.account = a
  /\ NextEpoch <= MaxEpoch
  /\ floor' = [epoch |-> NextEpoch, deniedAt |-> NextDeniedAt]
  /\ section' = [proc |-> p, next |-> DeniedGate(defer), erasing |-> NoStore]
  /\ session' = [session EXCEPT ![p].visible = FALSE]
  /\ data' = [s \in Store |-> IF s \in CollectIntents(a) THEN "denied" ELSE data[s]]
  /\ revoked' = revoked \cup {i.stamp : i \in issued}
  /\ lastDeny' = clock
  /\ UNCHANGED <<gate, reading, statSame, clock, incs, backup, issued, denied, consent, putBack>>

\* advanceInactiveGate up to its floor write; only logout calls it, on a lagging gate.
AdvanceInactiveGate(p) ==
  /\ section = Free
  /\ gate # NoGate
  /\ BehindFloor(gate, floor)
  /\ gate.account = NoAccount
  /\ ~gate.deferred
  /\ NextEpoch <= MaxEpoch
  /\ floor' = [epoch |-> NextEpoch, deniedAt |-> NextDeniedAt]
  /\ section' = [proc |-> p, next |-> AdvancedGate, erasing |-> NoStore]
  /\ UNCHANGED <<gate, data, memory, clock, incs, backup, ghosts>>

\* The second durable write of denyGate and of advanceInactiveGate.
CommitGate(p) ==
  /\ section.proc = p
  /\ section.erasing = NoStore
  /\ WriteGate(section.next)
  /\ section' = Free
  /\ denied' = revoked
  /\ putBack' = {}
  /\ UNCHANGED <<floor, data, session, reading, clock, incs, backup,
                 issued, revoked, consent, lastDeny>>

\* A crash, or a failed write, between the two writes of a section.
Interrupt(p) ==
  /\ section.proc = p
  /\ section' = Free
  /\ UNCHANGED <<gate, floor, data, memory, clock, incs, backup, ghosts>>

\* resumeDeferredGate with the token of a deferred deny.
ResumeDeferredGate(epoch, a) ==
  /\ section = Free
  /\ Usable
  /\ gate.epoch = epoch
  /\ gate.deferredFor = a
  /\ gate.account = NoAccount
  /\ gate.deferred
  /\ WriteGate([gate EXCEPT !.deferred = FALSE])
  /\ UNCHANGED <<floor, section, data, session, reading, clock, incs, backup, ghosts>>

\* eraseGateIntents: the files of one intent go first.
EraseFiles(p, s) ==
  /\ section = Free
  /\ Usable
  /\ ~gate.deferred
  /\ s \in gate.intents
  /\ data' = [data EXCEPT ![s] = "absent"]
  /\ section' = [Free EXCEPT !.proc = p, !.erasing = s]
  /\ UNCHANGED <<gate, floor, memory, clock, incs, backup, ghosts>>

\* clearGateIntent re-reads the gate after the erase.
ClearGateIntent(p) ==
  /\ section.proc = p
  /\ section.erasing # NoStore
  /\ IF Usable /\ ~gate.deferred /\ section.erasing \in gate.intents
     THEN WriteGate([gate EXCEPT !.intents = @ \ {section.erasing}])
     ELSE UNCHANGED <<gate, statSame>>
  /\ section' = Free
  /\ UNCHANGED <<floor, data, session, reading, clock, incs, backup, ghosts>>

\* A guarded write: pending.json update, replica open, page commit, grant install.
GuardedWrite(p, s) ==
  /\ section = Free
  /\ Owner[s] = session[p].account
  /\ GateAccess(session[p].stamp, session[p].account, s)
  /\ data' = [data EXCEPT ![s] = "live"]
  /\ UNCHANGED <<gate, floor, section, memory, clock, incs, backup, ghosts>>

\* readGated up to the first gate check in its snapshot: no lock, the gate is checked and
\* its stat remembered.  The controller's own check came before and is not relied upon.
ReadBegin(p, s) ==
  LET stamp == session[p].stamp IN
  /\ p \in setup.readers
  /\ reading[p] = NoReading
  /\ Owner[s] = session[p].account
  /\ GateAccess(stamp, Owner[s], s)
  /\ data[s] # "absent"
  /\ reading' = [reading EXCEPT ![p] = [step |-> "snapshot", store |-> s, stamp |-> stamp]]
  /\ statSame' = statSame \cup {p}
  /\ UNCHANGED <<files, session, clock, incs, backup, ghosts>>

\* checkGate after the section: a gate file whose stat changed is checked again.
RecheckPasses_Skipped(p) == TRUE
RecheckPasses(p) ==
  LET r == reading[p] IN p \in statSame \/ GateAccess(r.stamp, Owner[r.store], r.store)

\* The last gate check of readTransaction, before it commits and closes the snapshot.
ReadRecheck(p) ==
  /\ reading[p].step = "snapshot"
  /\ RecheckPasses(p)
  /\ reading' = [reading EXCEPT ![p].step = "checked"]
  /\ statSame' = statSame \ {p}
  /\ UNCHANGED <<files, session, clock, incs, backup, ghosts>>

\* The controller delivers what a checked read returned, if checkDelivery allows it then.
DeliveryAllowed(p) == reading[p].step = "checked" /\ CheckDelivery(p, reading[p].stamp)

\* A read ends, delivered or refused.
ReadEnd(p) ==
  /\ reading[p] # NoReading
  /\ reading' = [reading EXCEPT ![p] = NoReading]
  /\ statSame' = statSame \ {p}
  /\ putBack' = putBack \ {p}
  /\ UNCHANGED <<files, session, clock, incs, backup, issued, revoked, denied, consent, lastDeny>>

-----------------------------------------------------------------------------
\* The environment: the wall clock, which may be set back, the loss of files, and copies of
\* the gate file.
SetClock ==
  /\ clock' \in 0 .. MaxTime
  /\ UNCHANGED <<files, memory, incs, backup, ghosts>>

LoseGateFile ==
  /\ gate # NoGate
  /\ WriteGate(NoGate)
  /\ UNCHANGED <<floor, section, data, session, reading, clock, incs, backup, ghosts>>

CopyGateFile ==
  /\ MayTamper
  /\ gate # NoGate
  /\ backup' = gate
  /\ UNCHANGED <<files, memory, clock, incs, ghosts>>

RestoreGateFile ==
  /\ backup # NoGate
  /\ WriteGate(backup)
  /\ putBack' = {p \in Proc : reading[p].step = "checked"}
  /\ UNCHANGED <<floor, section, data, session, reading, clock, incs, backup,
                 issued, revoked, denied, consent, lastDeny>>

\* Both files deleted: the profile is indistinguishable from first use.
LoseBothFiles ==
  /\ MayTamper
  /\ section = Free
  /\ floor # NoFloor
  /\ WriteGate(NoGate)
  /\ floor' = NoFloor
  /\ backup' = NoGate
  /\ lastDeny' = -1
  /\ UNCHANGED <<section, data, session, reading, clock, incs,
                 issued, revoked, denied, consent, putBack>>

\* `tc profile delete`: the directory goes, with every store and copy in it.
DeleteProfile ==
  /\ section = Free
  /\ gate # NoGate \/ floor # NoFloor
  /\ WriteGate(NoGate)
  /\ floor' = NoFloor
  /\ data' = [s \in Store |-> "absent"]
  /\ backup' = NoGate
  /\ lastDeny' = -1
  /\ UNCHANGED <<section, session, reading, clock, incs,
                 issued, revoked, denied, consent, putBack>>

Environment ==
  SetClock \/ LoseGateFile \/ CopyGateFile \/ RestoreGateFile \/ LoseBothFiles \/ DeleteProfile

Next ==
  /\ UNCHANGED setup
  /\ \/ CreateGate
     \/ \E p \in Proc, a \in Account, t \in 0..MaxTime : EstablishSessionStamp(p, a, t)
     \/ \E p \in Proc, i \in issued : RestoreSessionStamp(p, i)
     \/ \E p \in Proc, a \in Account : DenyStale(p, a)
     \/ \E p \in Proc, a \in Account, defer \in BOOLEAN : DenyGate(p, a, defer)
     \/ \E p \in Proc : AdvanceInactiveGate(p) \/ CommitGate(p) \/ Interrupt(p) \/ ClearGateIntent(p)
     \/ \E e \in 1..MaxEpoch, a \in Account : ResumeDeferredGate(e, a)
     \/ \E p \in Proc, s \in Store : EraseFiles(p, s) \/ GuardedWrite(p, s) \/ ReadBegin(p, s)
     \/ \E p \in Proc : ReadRecheck(p) \/ ReadEnd(p)
     \/ Environment

Spec == Init /\ [][Next]_vars

-----------------------------------------------------------------------------
\* The files, the lock section and the process memory have their types, and the gate
\* that any writer leaves, or an interrupted section would have left, is one that
\* parseState accepts and that has no active account over unfinished erases.
TypeOK ==
  /\ setup \in Setup
  /\ gate \in GateState /\ backup \in GateState
  /\ floor \in FloorState
  /\ section \in Section
  /\ data \in [Store -> {"absent", "live", "denied"}]
  /\ session \in [Proc -> Session]
  /\ reading \in [Proc -> Reading]
  /\ \A p \in Proc : reading[p].step # "none" => reading[p].store # NoStore
  /\ statSame \subseteq Proc /\ putBack \subseteq Proc
  /\ clock \in Nat /\ incs \in Nat
  /\ issued \subseteq [stamp : Stamp, account : Account]
  /\ revoked \subseteq Stamp /\ denied \subseteq Stamp
  /\ consent \in Int /\ lastDeny \in Int
  /\ WellFormed(gate) /\ WellFormed(backup) /\ WellFormed(section.next)

\* A stamp that was handed out before a sign-out became durable is never admitted
\* again by assertGateAccess or restoreSessionStamp: not after a crash between the
\* floor write and the gate write, not after the gate file was lost, put back from
\* an older copy or created again, and not after a later sign-in of any account.
RevokedStampNeverAdmitted ==
  \A st \in revoked, a \in Account, s \in Store : ~GateAccess(st, a, s)

\* Once a sign-out has completed, no local read that began before it is delivered: one that
\* has its last gate check still ahead does not pass it, even when an older gate file is put
\* back over the denied one, and one that is past it is stopped by checkDelivery.  This looks
\* at the gate file alone, so a read is excepted while an older gate file lies there that was
\* put back since its last check.
DeniedReadNotDelivered ==
  \A p \in Proc : reading[p].stamp \in denied /\ p \notin putBack => ~DeliveryAllowed(p)

\* An account is active on a usable gate only through a sign-in proof that was
\* issued, and presented, strictly after the last durable sign-out.
ActiveOnlyByNewerConsent ==
  Usable /\ gate.account # NoAccount => consent > lastDeny

\* Data that was on disk when its account was signed out is out of reach of every
\* session until its files are erased: an intent covers it, or the gate is missing
\* or behind its floor.  (Not so when files are put back or deleted together.)
DeniedDataSealed ==
  ~MayTamper => \A s \in Store :
    data[s] = "denied" /\ Usable /\ gate.account = Owner[s] => s \in gate.intents

\* The deny floor of one profile never moves back, in its epoch or in its time, even
\* when the deny that writes it starts from an older gate file or with a clock set back.
FloorNeverRetreats ==
  [][floor' = NoFloor \/ (floor'.epoch >= floor.epoch /\ floor'.deniedAt >= floor.deniedAt)]_floor
=============================================================================
