------------------------------ MODULE TurnLock ------------------------------
(***************************************************************************)
(* The turn lock of a profile (packages/operations/src/state.ts) and the   *)
(* profile deletion it orders against store writes.                        *)
(*                                                                         *)
(* Turns are numbered directories.  Turn n is published by one rename that *)
(* fails while n exists; its creator is granted it (marker "held") if turn *)
(* n-1 is still the finished turn it had read, and voids it otherwise      *)
(* (marker "done" alone).  A turn whose process is gone, or that its own   *)
(* process gave up, is settled by others.  Whoever releases a turn removes *)
(* older ones by renaming them aside.  Every file operation is a step of   *)
(* its own, so that any process may pause anywhere.                        *)
(*                                                                         *)
(* A turn is identified by its token.  What is at path n is the turn of    *)
(* slot n whose place is "here"; markers name a token, so one written into *)
(* another turn's directory has no effect.  A process of this model is one *)
(* run of a program; several callers may wait in the same process, and a   *)
(* process has a background timer that settles the turns it gave up.       *)
(***************************************************************************)
EXTENDS Integers

CONSTANTS
  Caller,      \* calls of withProfileLock, each repeated for ever
  Process,
  In,          \* In[c]: the process of caller c
  Job,         \* Job[c]: what c may do while it holds the lock
  MayTimeOut,  \* TRUE: an acquisition may run into its deadline
  MaxTurns,    \* bound on the turns that are ever published
  MaxFaults    \* bound on crashes and failed file operations

ASSUME ConstantsAssumption ==
  /\ Caller \cap Process = {}
  /\ In \in [Caller -> Process]
  /\ Job \in [Caller -> SUBSET {"write", "delete", "create"}]
  /\ MayTimeOut \in BOOLEAN
  /\ MaxTurns \in Nat \ {0}
  /\ MaxFaults \in Nat

Actor  == Caller \cup Process      \* a process stands for its background timer
Token  == 1 .. MaxTurns
NoTurn == 0
NoSlot == -1

VARIABLES
  turn,       \* turn[t]: the turn with token t, as recorded on disk
  issued,     \* tokens published so far
  up,         \* running processes
  gaveUp,     \* gaveUp[p]: relinquishedTurns of process p
  pc,         \* control of each actor
  seen,       \* seen[a]: the readTurn in progress
  target,     \* target[a]: the abandoned turn a settles
  mine,       \* mine[c]: the turn c published
  first,      \* first[c]: firstWaitedTurn
  todo,       \* todo[c]: older turns c has still to look at for removal
  config,     \* profile.json exists
  deletedAt,  \* the slot in deleted.json
  faults

\* What the properties remember; no action's guard reads these.
VARIABLES
  erasers,    \* turns in which profile.json was deleted
  overlap     \* overlap[c]: how far such a turn had come that ended while c waited

disk    == <<turn, issued>>
profile == <<config, deletedAt>>
wait    == <<mine, first, todo>>
ghosts  == <<erasers, overlap>>
vars    == <<disk, up, gaveUp, pc, seen, target, wait, profile, faults, ghosts>>

-----------------------------------------------------------------------------
Turn == [slot : Nat, by : Process \cup {"none"}, after : Token \cup {NoTurn},
         held : BOOLEAN, done : BOOLEAN, place : {"none", "here", "gone"}]
Seen == [slot : Int, token : Token \cup {NoTurn}, done : BOOLEAN,
         step : {"none", "owner", "done", "held"}]

Unpublished == [slot |-> 0, by |-> "none", after |-> NoTurn,
                held |-> FALSE, done |-> FALSE, place |-> "none"]
NotReading  == [slot |-> NoSlot, token |-> NoTurn, done |-> FALSE, step |-> "none"]
Reading(n)  == [slot |-> n, token |-> NoTurn, done |-> FALSE, step |-> "owner"]

Here(n)   == {t \in Token : turn[t].place = "here" /\ turn[t].slot = n}
Listed    == {t \in Token : turn[t].place = "here"}
MarkedDone(t) == turn[t].place = "here" /\ turn[t].done
MarkedHeld(t) == turn[t].place = "here" /\ turn[t].held

\* Callers that hold the lock or are on their way out of it.
Holding(c) == pc[c] \in {"enter", "section", "record", "release"}
Waiting(c) == pc[c] \in {"list", "latest", "publish", "pred", "grant", "void",
                         "settlepred", "settlegrant", "settledone"}

\* markTurn: exclusive creation of <token>.<kind> at the turn's path.
MarkHeld(t) ==
  turn' = IF turn[t].place = "here" THEN [turn EXCEPT ![t].held = TRUE] ELSE turn
MarkDone(t) ==
  turn' = IF turn[t].place = "here" THEN [turn EXCEPT ![t].done = TRUE] ELSE turn
PathExists(t) == Here(turn[t].slot) # {}

\* A turn that deleted the profile ends: those who have seen the lock taken and wait for
\* it now overlapped the deletion.
OverlapAtEnd(t) ==
    IF t \in erasers /\ turn[t].place = "here" /\ ~turn[t].done
    THEN [c \in Caller |->
            IF ~(Waiting(c) /\ first[c] # NoSlot) \/ overlap[c] = "recorded" THEN overlap[c]
            ELSE IF deletedAt = turn[t].slot THEN "recorded" ELSE "removed"]
    ELSE overlap

-----------------------------------------------------------------------------
Init ==
  /\ turn = [t \in Token |-> Unpublished]
  /\ issued = 0
  /\ up = Process
  /\ gaveUp = [p \in Process |-> {}]
  /\ pc = [a \in Actor |-> "idle"]
  /\ seen = [a \in Actor |-> NotReading]
  /\ target = [a \in Actor |-> NoTurn]
  /\ mine = [c \in Caller |-> NoTurn]
  /\ first = [c \in Caller |-> NoSlot]
  /\ todo = [c \in Caller |-> {}]
  /\ config = TRUE
  /\ deletedAt = NoSlot
  /\ faults = 0
  /\ erasers = {}
  /\ overlap = [c \in Caller |-> "no"]

-----------------------------------------------------------------------------
\* readTurn: the owner record, then the done marker, then the held marker.  The last read
\* is part of the step that uses the result.
ReadOwner(a) ==
  /\ seen[a].step = "owner"
  /\ \E t \in Here(seen[a].slot) :
       seen' = [seen EXCEPT ![a].token = t, ![a].step = "done"]
  /\ UNCHANGED <<disk, up, gaveUp, pc, target, wait, profile, faults, ghosts>>

ReadDone(a) ==
  /\ seen[a].step = "done"
  /\ seen' = [seen EXCEPT ![a].done = MarkedDone(seen[a].token), ![a].step = "held"]
  /\ UNCHANGED <<disk, up, gaveUp, pc, target, wait, profile, faults, ghosts>>

ReadsGone(a)  == seen[a].step = "owner" /\ Here(seen[a].slot) = {}
ReadsTurn(a)  == seen[a].step = "held"
ReadsHeld(a)  == MarkedHeld(seen[a].token)

\* isFinishedTurn of the turn with token t.
ReadsFinished_OrGone(a, t) ==
  ReadsGone(a) \/ (ReadsTurn(a) /\ seen[a].token = t /\ seen[a].done /\ ReadsHeld(a))
ReadsFinished(a, t) ==
  ReadsTurn(a) /\ seen[a].token = t /\ seen[a].done /\ ReadsHeld(a)
ReadsNotFinished(a, t) ==
  ReadsGone(a) \/ (ReadsTurn(a) /\ ~ReadsFinished(a, t))

-----------------------------------------------------------------------------
\* acquireTurn: list, read the latest turn, then wait, settle or publish.
Arrive(c) ==
  /\ pc[c] = "idle"
  /\ pc' = [pc EXCEPT ![c] = "list"]
  /\ UNCHANGED <<disk, up, gaveUp, seen, target, wait, profile, faults, ghosts>>

CreateTurnDirectory(c) ==
  /\ pc[c] = "list"
  /\ issued = 0
  /\ issued' = 1
  /\ turn' = [turn EXCEPT ![1] = [slot |-> 0, by |-> In[c], after |-> NoTurn,
                                  held |-> TRUE, done |-> TRUE, place |-> "here"]]
  /\ UNCHANGED <<up, gaveUp, pc, seen, target, wait, profile, faults, ghosts>>

\* The highest number listed.  The caller may pause before it reads that turn, so a listing
\* that straddles a publication is one that was made before it.
ListTurns(c, t) ==
  /\ pc[c] = "list"
  /\ t \in Listed
  /\ \A u \in Listed : turn[u].slot <= turn[t].slot
  /\ pc' = [pc EXCEPT ![c] = "latest"]
  /\ seen' = [seen EXCEPT ![c] = Reading(turn[t].slot)]
  /\ UNCHANGED <<disk, up, gaveUp, target, wait, profile, faults, ghosts>>

LatestGone(c) ==
  /\ pc[c] = "latest"
  /\ ReadsGone(c)
  /\ pc' = [pc EXCEPT ![c] = "list"]
  /\ seen' = [seen EXCEPT ![c] = NotReading]
  /\ UNCHANGED <<disk, up, gaveUp, target, wait, profile, faults, ghosts>>

FirstWaited_Next(c) == IF first[c] # NoSlot THEN first[c] ELSE seen[c].slot + 1
FirstWaited(c) ==
  IF first[c] # NoSlot THEN first[c]
  ELSE IF seen[c].done THEN seen[c].slot + 1 ELSE seen[c].slot

LatestFinished(c) ==
  /\ pc[c] = "latest"
  /\ ReadsTurn(c) /\ seen[c].done /\ ReadsHeld(c)
  /\ first' = [first EXCEPT ![c] = FirstWaited(c)]
  /\ pc' = [pc EXCEPT ![c] = "publish"]
  /\ UNCHANGED <<disk, up, gaveUp, seen, target, mine, todo, profile, faults, ghosts>>

\* A process gives its own turns up explicitly; isRecordedProcessAlive denies only on
\* evidence.
Abandoned_OwnProcess(c, t) == turn[t].by = In[c] \/ turn[t].by \notin up
Abandoned_GivenUp(c, t) == t \in gaveUp[In[c]]
Abandoned(c, t) == t \in gaveUp[In[c]] \/ turn[t].by \notin up

\* The turn is not over (or it was never granted): the caller waits and looks again.
LatestBusy(c) ==
  /\ pc[c] = "latest"
  /\ ReadsTurn(c)
  /\ IF seen[c].done THEN ~ReadsHeld(c) ELSE ~Abandoned(c, seen[c].token)
  /\ first' = [first EXCEPT ![c] = FirstWaited(c)]
  /\ pc' = [pc EXCEPT ![c] = "list"]
  /\ seen' = [seen EXCEPT ![c] = NotReading]
  /\ UNCHANGED <<disk, up, gaveUp, target, mine, todo, profile, faults, ghosts>>

\* settleAbandonedTurn: a turn that was not granted is granted if it follows the turn its
\* creator read.
Settle_LeaveVoid(a, t, held) ==
  /\ target' = [target EXCEPT ![a] = t]
  /\ pc' = [pc EXCEPT ![a] = "settledone"]
  /\ seen' = [seen EXCEPT ![a] = NotReading]

Settle_GrantUnchecked(a, t, held) ==
  /\ target' = [target EXCEPT ![a] = t]
  /\ pc' = [pc EXCEPT ![a] = IF held THEN "settledone" ELSE "settlegrant"]
  /\ seen' = [seen EXCEPT ![a] = NotReading]

Settle(a, t, held) ==
  /\ target' = [target EXCEPT ![a] = t]
  /\ IF held \/ turn[t].after = NoTurn
     THEN /\ pc' = [pc EXCEPT ![a] = "settledone"]
          /\ seen' = [seen EXCEPT ![a] = NotReading]
     ELSE /\ pc' = [pc EXCEPT ![a] = "settlepred"]
          /\ seen' = [seen EXCEPT ![a] = Reading(turn[t].slot - 1)]

LatestAbandoned(c) ==
  /\ pc[c] = "latest"
  /\ ReadsTurn(c) /\ ~seen[c].done
  /\ Abandoned(c, seen[c].token)
  /\ first' = [first EXCEPT ![c] = FirstWaited(c)]
  /\ Settle(c, seen[c].token, ReadsHeld(c))
  /\ UNCHANGED <<disk, up, gaveUp, mine, todo, profile, faults, ghosts>>

\* The deadline is looked at between two attempts, never before the first look.
TimeOut(c) ==
  /\ MayTimeOut
  /\ pc[c] = "list"
  /\ first[c] # NoSlot
  /\ pc' = [pc EXCEPT ![c] = "idle"]
  /\ first' = [first EXCEPT ![c] = NoSlot]
  /\ overlap' = [overlap EXCEPT ![c] = "no"]
  /\ UNCHANGED <<disk, up, gaveUp, seen, target, mine, todo, profile, faults, erasers>>

-----------------------------------------------------------------------------
\* takeTurn: publish, check the predecessor again, claim.
Publish(c) ==
  /\ pc[c] = "publish"
  /\ Here(seen[c].slot + 1) = {}
  /\ issued < MaxTurns
  /\ issued' = issued + 1
  /\ turn' = [turn EXCEPT ![issued'] =
       [slot |-> seen[c].slot + 1, by |-> In[c], after |-> seen[c].token,
        held |-> FALSE, done |-> FALSE, place |-> "here"]]
  /\ mine' = [mine EXCEPT ![c] = issued']
  /\ pc' = [pc EXCEPT ![c] = "pred"]
  /\ seen' = [seen EXCEPT ![c] = Reading(seen[c].slot)]
  /\ UNCHANGED <<up, gaveUp, target, first, todo, profile, faults, ghosts>>

PublishLoses(c) ==
  /\ pc[c] = "publish"
  /\ Here(seen[c].slot + 1) # {}
  /\ pc' = [pc EXCEPT ![c] = "list"]
  /\ seen' = [seen EXCEPT ![c] = NotReading]
  /\ UNCHANGED <<disk, up, gaveUp, target, wait, profile, faults, ghosts>>

PredFinished(c) ==
  /\ pc[c] = "pred"
  /\ ReadsFinished(c, turn[mine[c]].after)
  /\ pc' = [pc EXCEPT ![c] = "grant"]
  /\ seen' = [seen EXCEPT ![c] = NotReading]
  /\ UNCHANGED <<disk, up, gaveUp, target, wait, profile, faults, ghosts>>

PredChanged(c) ==
  /\ pc[c] = "pred"
  /\ ReadsNotFinished(c, turn[mine[c]].after)
  /\ pc' = [pc EXCEPT ![c] = "void"]
  /\ seen' = [seen EXCEPT ![c] = NotReading]
  /\ UNCHANGED <<disk, up, gaveUp, target, wait, profile, faults, ghosts>>

\* markTurn is true even if another turn stands at the path by now.
Grant(c) ==
  /\ pc[c] = "grant"
  /\ MarkHeld(mine[c])
  /\ pc' = [pc EXCEPT ![c] = IF PathExists(mine[c]) THEN "enter" ELSE "void"]
  /\ UNCHANGED <<issued, up, gaveUp, seen, target, wait, profile, faults, ghosts>>

VoidTurn(c) ==
  /\ pc[c] = "void"
  /\ MarkDone(mine[c])
  /\ mine' = [mine EXCEPT ![c] = NoTurn]
  /\ pc' = [pc EXCEPT ![c] = "list"]
  /\ UNCHANGED <<issued, up, gaveUp, seen, target, first, todo, profile, faults, ghosts>>

-----------------------------------------------------------------------------
\* Settling, by a waiting caller or by the background timer of the process that gave up.
SettlePred(a) ==
  /\ pc[a] = "settlepred"
  /\ \/ /\ ReadsFinished(a, turn[target[a]].after)
        /\ pc' = [pc EXCEPT ![a] = "settlegrant"]
     \/ /\ ReadsNotFinished(a, turn[target[a]].after)
        /\ pc' = [pc EXCEPT ![a] = "settledone"]
  /\ seen' = [seen EXCEPT ![a] = NotReading]
  /\ UNCHANGED <<disk, up, gaveUp, target, wait, profile, faults, ghosts>>

SettleGrant(a) ==
  /\ pc[a] = "settlegrant"
  /\ MarkHeld(target[a])
  /\ pc' = [pc EXCEPT ![a] = "settledone"]
  /\ UNCHANGED <<issued, up, gaveUp, seen, target, wait, profile, faults, ghosts>>

Home(a) == IF a \in Caller THEN In[a] ELSE a

SettleDone(a) ==
  /\ pc[a] = "settledone"
  /\ MarkDone(target[a])
  /\ overlap' = OverlapAtEnd(target[a])
  /\ gaveUp' = [gaveUp EXCEPT ![Home(a)] = @ \ {target[a]}]
  /\ target' = [target EXCEPT ![a] = NoTurn]
  /\ pc' = [pc EXCEPT ![a] = IF a \in Caller THEN "list" ELSE "idle"]
  /\ UNCHANGED <<issued, up, seen, wait, profile, faults, erasers>>

\* settleOwnTurn's attempt: read the turn, settle it if it is still open.
Retry(p, t) ==
  /\ pc[p] = "idle"
  /\ t \in gaveUp[p]
  /\ target' = [target EXCEPT ![p] = t]
  /\ pc' = [pc EXCEPT ![p] = "own"]
  /\ seen' = [seen EXCEPT ![p] = Reading(turn[t].slot)]
  /\ UNCHANGED <<disk, up, gaveUp, wait, profile, faults, ghosts>>

RetryRead(p) ==
  /\ pc[p] = "own"
  /\ \/ /\ ReadsTurn(p) /\ seen[p].token = target[p] /\ ~seen[p].done
        /\ Settle(p, target[p], ReadsHeld(p))
        /\ UNCHANGED gaveUp
     \/ /\ ReadsGone(p) \/ (ReadsTurn(p) /\ (seen[p].token # target[p] \/ seen[p].done))
        /\ gaveUp' = [gaveUp EXCEPT ![p] = @ \ {target[p]}]
        /\ target' = [target EXCEPT ![p] = NoTurn]
        /\ pc' = [pc EXCEPT ![p] = "idle"]
        /\ seen' = [seen EXCEPT ![p] = NotReading]
  /\ UNCHANGED <<disk, up, wait, profile, faults, ghosts>>

-----------------------------------------------------------------------------
\* The critical section.  A caller whose wait overlapped a recorded deletion and that finds
\* no profile refuses; a store write checks the same again before it writes.
Refused(c) == deletedAt >= first[c] /\ ~config

Enter(c) ==
  /\ pc[c] = "enter"
  /\ pc' = [pc EXCEPT ![c] = IF Refused(c) THEN "release" ELSE "section"]
  /\ first' = [first EXCEPT ![c] = NoSlot]
  /\ UNCHANGED <<disk, up, gaveUp, seen, target, mine, todo, profile, faults, ghosts>>

WriteStore(c) ==
  /\ pc[c] = "section"
  /\ "write" \in Job[c]
  /\ pc' = [pc EXCEPT ![c] = "release"]
  /\ UNCHANGED <<disk, up, gaveUp, seen, target, wait, profile, faults, ghosts>>

CreateProfile(c) ==
  /\ pc[c] = "section"
  /\ "create" \in Job[c]
  /\ config' = TRUE
  /\ pc' = [pc EXCEPT ![c] = "release"]
  /\ UNCHANGED <<disk, up, gaveUp, seen, target, wait, deletedAt, faults, ghosts>>

\* deleteProfile: profile.json goes last, and then the deletion is recorded.
DeleteConfig(c) ==
  /\ pc[c] = "section"
  /\ "delete" \in Job[c]
  /\ config' = FALSE
  /\ erasers' = erasers \cup {mine[c]}
  /\ pc' = [pc EXCEPT ![c] = "record"]
  /\ UNCHANGED <<disk, up, gaveUp, seen, target, wait, deletedAt, faults, overlap>>

RecordDeletion(c) ==
  /\ pc[c] = "record"
  /\ deletedAt' = turn[mine[c]].slot
  /\ pc' = [pc EXCEPT ![c] = "release"]
  /\ UNCHANGED <<disk, up, gaveUp, seen, target, wait, config, faults, ghosts>>

\* A file operation of the section fails; the lock is released all the same.
SectionFails(c) ==
  /\ pc[c] \in {"section", "record"}
  /\ faults < MaxFaults
  /\ faults' = faults + 1
  /\ pc' = [pc EXCEPT ![c] = "release"]
  /\ UNCHANGED <<disk, up, gaveUp, seen, target, wait, profile, ghosts>>

\* releaseTurn: finish the turn, then collect the older ones.
Release(c) ==
  /\ pc[c] = "release"
  /\ MarkDone(mine[c])
  /\ overlap' = [OverlapAtEnd(mine[c]) EXCEPT ![c] = "no"]
  /\ pc' = [pc EXCEPT ![c] = "collect"]
  /\ UNCHANGED <<issued, up, gaveUp, seen, target, wait, profile, faults, erasers>>

-----------------------------------------------------------------------------
\* collectTurns: void turns at any time, granted ones oldest first.
GoOn(c, slots) ==
  /\ todo' = [todo EXCEPT ![c] = slots]
  /\ \/ /\ slots = {}
        /\ pc' = [pc EXCEPT ![c] = "idle"]
        /\ seen' = [seen EXCEPT ![c] = NotReading]
        /\ mine' = [mine EXCEPT ![c] = NoTurn]
     \/ \E n \in slots :
        /\ \A m \in slots : n <= m
        /\ pc' = [pc EXCEPT ![c] = "candidate"]
        /\ seen' = [seen EXCEPT ![c] = Reading(n)]
        /\ UNCHANGED mine

Skip(c) == GoOn(c, {n \in todo[c] : n > seen[c].slot})

OlderTurns_OrOwn(c) == {n \in {turn[t].slot : t \in Listed} : n <= turn[mine[c]].slot}
OlderTurns(c) == {n \in {turn[t].slot : t \in Listed} : n < turn[mine[c]].slot}

Collect(c) ==
  /\ pc[c] = "collect"
  /\ GoOn(c, OlderTurns(c))
  /\ UNCHANGED <<disk, up, gaveUp, target, first, profile, faults, ghosts>>

CandidateOpen(c) ==
  /\ pc[c] = "candidate"
  /\ ReadsGone(c) \/ (ReadsTurn(c) /\ ~seen[c].done)
  /\ Skip(c)
  /\ UNCHANGED <<disk, up, gaveUp, target, first, profile, faults, ghosts>>

CandidateVoid(c) ==
  /\ pc[c] = "candidate"
  /\ ReadsTurn(c) /\ seen[c].done /\ ~ReadsHeld(c)
  /\ pc' = [pc EXCEPT ![c] = "remove"]
  /\ UNCHANGED <<disk, up, gaveUp, seen, target, wait, profile, faults, ghosts>>

CandidateGranted(c) ==
  /\ pc[c] = "candidate"
  /\ ReadsTurn(c) /\ seen[c].done /\ ReadsHeld(c)
  /\ pc' = [pc EXCEPT ![c] = "older"]
  /\ UNCHANGED <<disk, up, gaveUp, seen, target, wait, profile, faults, ghosts>>

NoOlder(c) == Here(seen[c].slot - 1) = {}

\* exists(slot - 1), then readTurn(slot + 1).
CheckOlder(c) ==
  /\ pc[c] = "older"
  /\ IF NoOlder(c)
     THEN /\ pc' = [pc EXCEPT ![c] = "next"]
          /\ seen' = [seen EXCEPT ![c] = Reading(seen[c].slot + 1)]
          /\ UNCHANGED <<mine, todo>>
     ELSE Skip(c)
  /\ UNCHANGED <<disk, up, gaveUp, target, first, profile, faults, ghosts>>

NextFinished(c) ==
  /\ pc[c] = "next"
  /\ ReadsTurn(c) /\ seen[c].done /\ ReadsHeld(c)
  /\ pc' = [pc EXCEPT ![c] = "remove"]
  /\ seen' = [seen EXCEPT ![c] = Reading(seen[c].slot - 1)]
  /\ UNCHANGED <<disk, up, gaveUp, target, wait, profile, faults, ghosts>>

NextOpen(c) ==
  /\ pc[c] = "next"
  /\ ReadsGone(c) \/ (ReadsTurn(c) /\ ~(seen[c].done /\ ReadsHeld(c)))
  /\ GoOn(c, {n \in todo[c] : n >= seen[c].slot})
  /\ UNCHANGED <<disk, up, gaveUp, target, first, profile, faults, ghosts>>

\* Whatever stands at the number by now is renamed aside.
Remove(c) ==
  /\ pc[c] = "remove"
  /\ turn' = [t \in Token |-> IF t \in Here(seen[c].slot)
                              THEN [turn[t] EXCEPT !.place = "gone"] ELSE turn[t]]
  /\ Skip(c)
  /\ UNCHANGED <<issued, up, gaveUp, target, first, profile, faults, ghosts>>

\* A failed rename leaves the turn where it is; the collection goes on.
RemoveFails(c) ==
  /\ pc[c] = "remove"
  /\ faults < MaxFaults
  /\ faults' = faults + 1
  /\ Skip(c)
  /\ UNCHANGED <<disk, up, gaveUp, target, first, profile, ghosts>>

-----------------------------------------------------------------------------
\* A marker or a read of the caller's own turn fails: it gives the turn up and throws.
GiveUpTurn(c) ==
  /\ pc[c] \in {"pred", "grant", "void", "release"}
  /\ faults < MaxFaults
  /\ faults' = faults + 1
  /\ gaveUp' = [gaveUp EXCEPT ![In[c]] = @ \cup {mine[c]}]
  /\ mine' = [mine EXCEPT ![c] = NoTurn]
  /\ pc' = [pc EXCEPT ![c] = "idle"]
  /\ seen' = [seen EXCEPT ![c] = NotReading]
  /\ first' = [first EXCEPT ![c] = NoSlot]
  /\ overlap' = [overlap EXCEPT ![c] = "no"]
  /\ UNCHANGED <<disk, up, target, todo, profile, erasers>>

\* Any other file operation fails: the acquisition throws, a collection ends, the
\* background attempt is made again later.
FileError(a) ==
  /\ pc[a] \in {"latest", "publish", "settlepred", "settlegrant", "settledone", "own",
                "list", "collect", "candidate", "older", "next"}
  /\ faults < MaxFaults
  /\ faults' = faults + 1
  /\ pc' = [pc EXCEPT ![a] = "idle"]
  /\ seen' = [seen EXCEPT ![a] = NotReading]
  /\ target' = [target EXCEPT ![a] = NoTurn]
  /\ mine' = [c \in Caller |-> IF c = a THEN NoTurn ELSE mine[c]]
  /\ todo' = [c \in Caller |-> IF c = a THEN {} ELSE todo[c]]
  /\ first' = [c \in Caller |-> IF c = a THEN NoSlot ELSE first[c]]
  /\ overlap' = [c \in Caller |-> IF c = a THEN "no" ELSE overlap[c]]
  /\ UNCHANGED <<disk, up, gaveUp, profile, erasers>>

Crash(p) ==
  /\ p \in up
  /\ faults < MaxFaults
  /\ faults' = faults + 1
  /\ up' = up \ {p}
  /\ gaveUp' = [gaveUp EXCEPT ![p] = {}]
  /\ pc' = [a \in Actor |-> IF Home(a) = p THEN "dead" ELSE pc[a]]
  /\ seen' = [a \in Actor |-> IF Home(a) = p THEN NotReading ELSE seen[a]]
  /\ target' = [a \in Actor |-> IF Home(a) = p THEN NoTurn ELSE target[a]]
  /\ mine' = [c \in Caller |-> IF In[c] = p THEN NoTurn ELSE mine[c]]
  /\ todo' = [c \in Caller |-> IF In[c] = p THEN {} ELSE todo[c]]
  /\ first' = [c \in Caller |-> IF In[c] = p THEN NoSlot ELSE first[c]]
  /\ overlap' = [c \in Caller |-> IF In[c] = p THEN "no" ELSE overlap[c]]
  /\ UNCHANGED <<disk, profile, erasers>>

-----------------------------------------------------------------------------
Look(c) ==
  \/ CreateTurnDirectory(c) \/ (\E t \in Token : ListTurns(c, t))
  \/ LatestGone(c) \/ LatestFinished(c) \/ LatestBusy(c) \/ LatestAbandoned(c)

Take(c) ==
  \/ Publish(c) \/ PublishLoses(c) \/ PredFinished(c) \/ PredChanged(c)
  \/ Grant(c) \/ VoidTurn(c)

Hold(c) ==
  \/ Enter(c) \/ WriteStore(c) \/ CreateProfile(c)
  \/ DeleteConfig(c) \/ RecordDeletion(c) \/ Release(c)

CollectTurns(c) ==
  \/ Collect(c) \/ CandidateOpen(c) \/ CandidateVoid(c) \/ CandidateGranted(c)
  \/ CheckOlder(c) \/ NextFinished(c) \/ NextOpen(c) \/ Remove(c)

SettleTurn(a) ==
  \/ ReadOwner(a) \/ ReadDone(a) \/ SettlePred(a) \/ SettleGrant(a) \/ SettleDone(a)

SettleOwn(p) == (\E t \in Token : Retry(p, t)) \/ RetryRead(p)

Goes(c)    == Look(c) \/ Take(c) \/ Hold(c) \/ CollectTurns(c) \/ SettleTurn(c)
Settles(p) == SettleOwn(p) \/ SettleTurn(p)

Fault ==
  \/ \E c \in Caller : SectionFails(c) \/ RemoveFails(c) \/ GiveUpTurn(c)
  \/ \E a \in Actor : FileError(a)
  \/ \E p \in Process : Crash(p)

Next ==
  \/ \E c \in Caller : Arrive(c) \/ TimeOut(c) \/ Goes(c)
  \/ \E p \in Process : Settles(p)
  \/ Fault

Spec == Init /\ [][Next]_vars

\* Every process that runs gets on with its calls and with the turns it gave up; nobody has
\* to call, and nothing has to fail.
FairSpec ==
  /\ Spec
  /\ \A c \in Caller : WF_vars(Goes(c))
  /\ \A p \in Process : WF_vars(Settles(p))

-----------------------------------------------------------------------------
\* Every part of the state has its type, and a collection only looks at turns older than
\* the one that ended.
TypeOK ==
  /\ turn \in [Token -> Turn]
  /\ issued \in 0 .. MaxTurns
  /\ up \subseteq Process
  /\ gaveUp \in [Process -> SUBSET Token]
  /\ pc \in [Actor -> {"idle", "list", "latest", "publish", "pred", "grant", "void",
                       "settlepred", "settlegrant", "settledone", "own",
                       "enter", "section", "record", "release",
                       "collect", "candidate", "older", "next", "remove", "dead"}]
  /\ seen \in [Actor -> Seen]
  /\ target \in [Actor -> Token \cup {NoTurn}]
  /\ mine \in [Caller -> Token \cup {NoTurn}]
  /\ first \in [Caller -> Int]
  /\ todo \in [Caller -> SUBSET Nat]
  /\ config \in BOOLEAN
  /\ deletedAt \in Int
  /\ faults \in Nat
  /\ erasers \subseteq Token
  /\ overlap \in [Caller -> {"no", "removed", "recorded"}]
  /\ \A c \in Caller : \A n \in todo[c] : mine[c] # NoTurn /\ n < turn[mine[c]].slot

\* At most one caller of any process holds the profile lock, however long others pause.
MutualExclusion ==
  \A c, d \in Caller : Holding(c) /\ Holding(d) => c = d

\* At most one granted turn is ever not done, a crashed or given-up holder's included.
OneOpenTurn ==
  \A s, t \in Token :
    /\ turn[s].held /\ ~turn[s].done
    /\ turn[t].held /\ ~turn[t].done
    => s = t

\* Nobody finishes or removes the turn of a caller that still holds it.
HolderKeepsTurn ==
  \A c \in Caller : Holding(c) =>
    /\ turn[mine[c]].place = "here"
    /\ turn[mine[c]].held /\ ~turn[mine[c]].done

\* The latest turn, once done, was granted: no turn is left void at the end of the list,
\* where nobody could follow it and the profile would stay locked for good.
LatestTurnUsable ==
  \A t \in Listed :
    turn[t].done /\ ~turn[t].held => \E u \in Listed : turn[u].slot > turn[t].slot

\* As long as somebody waits for the lock, somebody gets it, or would get it if the bound on
\* turns let it publish one, whatever the one who had it did: release it, fail, give its turn
\* up or die.
OutOfTurns == issued = MaxTurns /\ \E c \in Caller : pc[c] = "publish"
SomeoneGetsIn ==
  (\E c \in Caller : Waiting(c))
    ~> (\E c \in Caller : Holding(c)) \/ (\A c \in Caller : ~Waiting(c)) \/ OutOfTurns

\* Whoever waited while a deletion of the profile was recorded does not write into the
\* deleted profile, unless it was created again.
DeletedProfileStaysDeleted ==
  \A c \in Caller : pc[c] = "section" /\ overlap[c] = "recorded" => config

\* profiles.ts says that a store write that waited for the lock during a deletion refuses.
\* A deletion that stops between the removal of profile.json and its record is not known to
\* those who wait: they write into the profile it deleted.
WaitersKnowDeletion ==
  \A c \in Caller : pc[c] = "section" /\ overlap[c] # "no" => config
=============================================================================
