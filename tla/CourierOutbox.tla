--------------------------- MODULE CourierOutbox ---------------------------
(***************************************************************************)
(* Courier's approved-send pipe: outbox add, which approves an item, and   *)
(* outbox serve, which sends approved items on request                     *)
(* (packages/courier/src/outbox.ts).                                       *)
(*                                                                         *)
(* An approval is a ledger entry with the hash of the item, made before    *)
(* the item file and never changed; a body stands for its hash here.  A    *)
(* server holds the serve lock, first gives an "uncertain" result to every *)
(* single-use marker that has none, and then serves one request at a time: *)
(* it reads the item once, compares it with the ledger, counts the peer's  *)
(* markers of the last hour, creates the item's marker, sends, and records *)
(* the result.  The serve lock is the abstract Mutex that FileLock         *)
(* implements.                                                             *)
(*                                                                         *)
(* Any step may be the last of a process.  A send in progress may arrive   *)
(* after its process died or gave it up.  The clock may be set back, the   *)
(* item file may be replaced, peers.json may become invalid.               *)
(*                                                                         *)
(* Left out: refusals that only answer the request (unpaired peer, text,   *)
(* dry run, busy, sockets and frames) and logging.                         *)
(***************************************************************************)
EXTENDS Naturals, FiniteSets, Sequences

CONSTANTS
  Item, Body,
  Peer, To,    \* To[b]: the peer body b is for
  Server,      \* processes that run outbox serve
  Cap,         \* Cap[q]: outPerHour of peer q in peers.json
  Window,      \* RATE_WINDOW_MS
  MaxTime,     \* bound on the clock
  MaxFaults    \* bound on crashes, failed writes, replaced items, clock steps, invalid peers.json

ASSUME ConstantsAssumption ==
  /\ IsFiniteSet(Item)
  /\ To \in [Body -> Peer]
  /\ Cap \in [Peer -> Nat \ {0}]
  /\ Window \in Nat \ {0} /\ MaxTime \in Nat /\ MaxFaults \in Nat

None == "none"
NoMarker == <<>>
UnloadedCap == 1   \* UNLOADED_OUT_PER_HOUR

VARIABLES
  ledger,    \* ledger[i]: the approved body of item i
  file,      \* file[i]: the body in the item file
  marker,    \* marker[i]: the peer and time in the marker
  result,    \* result[i]: the recorded outcome
  valid,     \* peers.json loads
  holders,   \* the serve lock
  pc, item, body,
  loaded,    \* loaded[s]: a peers.json has loaded in s
  todo,      \* todo[s]: the markers that s still has to reconcile
  closing,
  outcome,   \* outcome[s]: what s is about to record
  flight,    \* sends on their way to the node
  mail,      \* mail[i]: the bodies that the node got for i
  now,       \* the clock
  elapsed,   \* time, which nobody sets back
  since,     \* since[i]: the time at which i was marked
  faults

approvals == <<ledger, file>>
records   == <<marker, result, since>>
work      == <<item, body, outcome>>
local     == <<pc, work, loaded, todo, closing>>
network   == <<flight, mail>>
time      == <<now, elapsed>>
vars      == <<approvals, records, valid, holders, local, network, time, faults>>

Lock == INSTANCE Mutex WITH Client <- Server

\* s goes to another step.
Go(s, step) == pc' = [pc EXCEPT ![s] = step]
Fault == faults < MaxFaults /\ faults' = faults + 1

Init ==
  /\ ledger = [i \in Item |-> None] /\ file = [i \in Item |-> None]
  /\ marker = [i \in Item |-> NoMarker] /\ result = [i \in Item |-> None]
  /\ since = [i \in Item |-> 0]
  /\ valid = TRUE
  /\ Lock!Init
  /\ pc = [s \in Server |-> "off"]
  /\ item = [s \in Server |-> None] /\ body = [s \in Server |-> None]
  /\ outcome = [s \in Server |-> None]
  /\ loaded = [s \in Server |-> FALSE] /\ closing = [s \in Server |-> FALSE]
  /\ todo = [s \in Server |-> {}]
  /\ flight = {} /\ mail = [i \in Item |-> <<>>]
  /\ now = 0 /\ elapsed = 0
  /\ faults = 0

-----------------------------------------------------------------------------
\* outbox add: the ledger entry, then the item file; a crash may leave the second out.
Approve(i) ==
  /\ ledger[i] = None
  /\ \E b \in Body : ledger' = [ledger EXCEPT ![i] = b]
  /\ UNCHANGED <<file, records, valid, holders, local, network, time, faults>>

Publish(i) ==
  /\ ledger[i] # None
  /\ file[i] = None
  /\ file' = [file EXCEPT ![i] = ledger[i]]
  /\ UNCHANGED <<ledger, records, valid, holders, local, network, time, faults>>

\* Somebody with access to the owner's files puts another item in the place of i.
Replace(i) ==
  /\ file[i] # None
  /\ Fault
  /\ \E b \in Body \ {file[i]} : file' = [file EXCEPT ![i] = b]
  /\ UNCHANGED <<ledger, records, valid, holders, local, network, time>>

-----------------------------------------------------------------------------
\* startOutbox takes the lock and lists the markers without a result.
Start_All(s) ==
  /\ pc[s] = "off"
  /\ Lock!Take(s)
  /\ todo' = [todo EXCEPT ![s] = {i \in Item : marker[i] # NoMarker}]
  /\ Go(s, "reconcile")
  /\ UNCHANGED <<approvals, records, valid, work, loaded, closing, network, time, faults>>

Start(s) ==
  /\ pc[s] = "off"
  /\ Lock!Take(s)
  /\ todo' = [todo EXCEPT ![s] = {i \in Item : marker[i] # NoMarker /\ result[i] = None}]
  /\ Go(s, "reconcile")
  /\ UNCHANGED <<approvals, records, valid, work, loaded, closing, network, time, faults>>

\* recordResult replaces what is there; a failure is only logged.
Write(i, o) == result' = [result EXCEPT ![i] = o]

Reconcile(s) ==
  /\ pc[s] = "reconcile"
  /\ \E i \in todo[s] :
       /\ todo' = [todo EXCEPT ![s] = @ \ {i}]
       /\ \/ Write(i, "uncertain") /\ UNCHANGED faults
          \/ Fault /\ UNCHANGED result
  /\ UNCHANGED <<approvals, marker, since, valid, holders, pc, work, loaded, closing,
                 network, time>>

Listen(s) ==
  /\ pc[s] = "reconcile"
  /\ todo[s] = {}
  /\ Go(s, "ready")
  /\ UNCHANGED <<approvals, records, valid, holders, work, loaded, todo, closing,
                 network, time, faults>>

-----------------------------------------------------------------------------
\* The peer's markers of the last hour.  One dated after now counts too.
Recent_NotFuture(q) ==
  {i \in Item : /\ marker[i] # NoMarker
                /\ marker[i][1] = q
                /\ marker[i][2] \in (now + 1 - Window) .. now}

Recent(q) ==
  {i \in Item : /\ marker[i] # NoMarker
                /\ marker[i][1] = q
                /\ now < marker[i][2] + Window}

\* An invalid peers.json keeps the last good policy of this process, if there is one.
Allowed(s, b) == IF loaded[s] \/ valid THEN Cap[To[b]] ELSE UnloadedCap

\* processRequest up to its checks: the bytes read here are the bytes sent.  What is refused
\* has only loaded the policy.
Request(s) ==
  /\ pc[s] = "ready"
  /\ \E i \in Item :
       /\ ledger[i] # None
       /\ file[i] = ledger[i]
       /\ IF result[i] # "uncertain" /\ Cardinality(Recent(To[file[i]])) < Allowed(s, file[i])
          THEN /\ Go(s, "mark")
               /\ item' = [item EXCEPT ![s] = i]
               /\ body' = [body EXCEPT ![s] = file[i]]
          ELSE UNCHANGED <<pc, item, body>>
  /\ loaded' = [loaded EXCEPT ![s] = @ \/ valid]
  /\ UNCHANGED <<approvals, records, valid, holders, outcome, todo, closing, network,
                 time, faults>>

\* The request is answered, whatever the answer.
Reply(s) ==
  /\ Go(s, "ready")
  /\ item' = [item EXCEPT ![s] = None]
  /\ body' = [body EXCEPT ![s] = None]
  /\ outcome' = [outcome EXCEPT ![s] = None]

CreateMarker(s) ==
  /\ marker' = [marker EXCEPT ![item[s]] = <<To[body[s]], now>>]
  /\ since' = [since EXCEPT ![item[s]] = elapsed]

Mark_Anyway(s) ==
  /\ pc[s] = "mark"
  /\ IF marker[item[s]] = NoMarker THEN CreateMarker(s) ELSE UNCHANGED <<marker, since>>
  /\ Go(s, "send")
  /\ UNCHANGED <<approvals, result, valid, holders, work, loaded, todo, closing, network,
                 time, faults>>

Mark(s) ==
  /\ pc[s] = "mark"
  /\ IF marker[item[s]] = NoMarker
     THEN CreateMarker(s) /\ Go(s, "send") /\ UNCHANGED work
     ELSE Reply(s) /\ UNCHANGED <<marker, since>>
  /\ UNCHANGED <<approvals, result, valid, holders, loaded, todo, closing, network, time,
                 faults>>

\* The marker is linked, and its directory is not synced.
MarkFails(s) ==
  /\ pc[s] = "mark"
  /\ marker[item[s]] = NoMarker
  /\ Fault
  /\ CreateMarker(s)
  /\ Reply(s)
  /\ UNCHANGED <<approvals, result, valid, holders, loaded, todo, closing, network, time>>

Send_Reread(s) ==
  /\ pc[s] = "send"
  /\ flight' = flight \cup {<<item[s], file[item[s]]>>}
  /\ Go(s, "await")
  /\ UNCHANGED <<approvals, records, valid, holders, work, loaded, todo, closing, mail,
                 time, faults>>

Send(s) ==
  /\ pc[s] = "send"
  /\ flight' = flight \cup {<<item[s], body[s]>>}
  /\ Go(s, "await")
  /\ UNCHANGED <<approvals, records, valid, holders, work, loaded, todo, closing, mail,
                 time, faults>>

\* The answer of the node, or an error, which says nothing about the delivery.
Answer(s) ==
  /\ pc[s] = "await"
  /\ \/ /\ mail[item[s]] # <<>>
        /\ outcome' = [outcome EXCEPT ![s] = "sent"]
     \/ outcome' = [outcome EXCEPT ![s] = "failed"]
  /\ Go(s, "record")
  /\ UNCHANGED <<approvals, records, valid, holders, item, body, loaded, todo, closing,
                 network, time, faults>>

Record(s) ==
  /\ pc[s] = "record"
  /\ \/ Write(item[s], outcome[s]) /\ UNCHANGED faults
     \/ Fault /\ UNCHANGED result
  /\ Reply(s)
  /\ UNCHANGED <<approvals, marker, since, valid, holders, loaded, todo, closing, network,
                 time>>

-----------------------------------------------------------------------------
\* close: requests already made are served first.
Close(s) ==
  /\ pc[s] \in {"ready", "mark", "send", "await", "record"}
  /\ ~closing[s]
  /\ closing' = [closing EXCEPT ![s] = TRUE]
  /\ UNCHANGED <<approvals, records, valid, holders, pc, work, loaded, todo, network, time,
                 faults>>

Forget(s) ==
  /\ Lock!Leave(s)
  /\ Go(s, "ended")
  /\ item' = [item EXCEPT ![s] = None]
  /\ body' = [body EXCEPT ![s] = None]
  /\ outcome' = [outcome EXCEPT ![s] = None]
  /\ loaded' = [loaded EXCEPT ![s] = FALSE]
  /\ todo' = [todo EXCEPT ![s] = {}]
  /\ closing' = [closing EXCEPT ![s] = FALSE]
  /\ UNCHANGED <<approvals, records, valid, network, time>>

Closed_Now(s) ==
  /\ closing[s]
  /\ holders = {s}
  /\ holders' = {}
  /\ UNCHANGED <<approvals, records, valid, local, network, time, faults>>

Closed(s) ==
  /\ pc[s] = "ready"
  /\ closing[s]
  /\ Forget(s)
  /\ UNCHANGED faults

\* The process dies; the next one breaks its lock.
Crash(s) ==
  /\ pc[s] \notin {"off", "ended"}
  /\ Fault
  /\ Forget(s)

-----------------------------------------------------------------------------
Arrive(m) ==
  /\ flight' = flight \ {m}
  /\ \/ mail' = [mail EXCEPT ![m[1]] = Append(@, m[2])]
     \/ UNCHANGED mail
  /\ UNCHANGED <<approvals, records, valid, holders, local, time, faults>>

Tick ==
  /\ elapsed < MaxTime
  /\ now' = now + 1
  /\ elapsed' = elapsed + 1
  /\ UNCHANGED <<approvals, records, valid, holders, local, network, faults>>

StepBack ==
  /\ now > 0
  /\ Fault
  /\ now' = now - 1
  /\ UNCHANGED <<approvals, records, valid, holders, local, network, elapsed>>

EditPeers ==
  /\ IF valid THEN Fault ELSE UNCHANGED faults
  /\ valid' = ~valid
  /\ UNCHANGED <<approvals, records, holders, local, network, time>>

Next ==
  \/ \E i \in Item : Approve(i) \/ Publish(i) \/ Replace(i)
  \/ \E s \in Server :
       \/ Start(s) \/ Reconcile(s) \/ Listen(s)
       \/ Request(s) \/ Mark(s) \/ MarkFails(s) \/ Send(s) \/ Answer(s) \/ Record(s)
       \/ Close(s) \/ Closed(s) \/ Crash(s)
  \/ \E m \in flight : Arrive(m)
  \/ Tick \/ StepBack \/ EditPeers

Spec == Init /\ [][Next]_vars

-----------------------------------------------------------------------------
\* Every part of the state has its type; exactly the server at work holds the lock, and what
\* is on its way or has a result was marked before.
TypeOK ==
  /\ ledger \in [Item -> Body \cup {None}] /\ file \in [Item -> Body \cup {None}]
  /\ marker \in [Item -> {NoMarker} \cup (Peer \X (0 .. MaxTime))]
  /\ result \in [Item -> {None, "sent", "failed", "uncertain"}]
  /\ since \in [Item -> 0 .. MaxTime]
  /\ valid \in BOOLEAN
  /\ pc \in [Server -> {"off", "reconcile", "ready", "mark", "send", "await", "record", "ended"}]
  /\ item \in [Server -> Item \cup {None}] /\ body \in [Server -> Body \cup {None}]
  /\ outcome \in [Server -> {None, "sent", "failed"}]
  /\ loaded \in [Server -> BOOLEAN] /\ closing \in [Server -> BOOLEAN]
  /\ todo \in [Server -> SUBSET Item]
  /\ flight \subseteq Item \X Body
  /\ mail \in [Item -> Seq(Body)]
  /\ now \in 0 .. elapsed /\ elapsed \in 0 .. MaxTime
  /\ faults \in 0 .. MaxFaults
  /\ holders = {s \in Server : pc[s] \notin {"off", "ended"}}
  /\ \A i \in Item : result[i] # None \/ mail[i] # <<>> => marker[i] # NoMarker

\* Whatever crashes, restarts, late arrivals, replaced items and failed writes come between,
\* an item is delivered at most once and as approved, and its outcome is recorded once.
Promise == INSTANCE ApprovedMail
  WITH Pending <- None, Uncertain <- "uncertain", Sent <- "sent", Failed <- "failed",
       approved <- ledger, outcome <- result
ImplementsApprovedMail == Promise!Spec

\* The sends to the peer of i that were started in the hour that ends with the start of i.
HourUntil(i) ==
  {j \in Item : /\ marker[j] # NoMarker
                /\ marker[j][1] = marker[i][1]
                /\ since[j] <= since[i]
                /\ since[i] < since[j] + Window}

\* No peer's sends are started more often than outPerHour in any hour that passes, over
\* restarts, a clock that is set back, and a peers.json that does not load.
RateHolds ==
  \A i \in Item : marker[i] # NoMarker =>
    Cardinality(HourUntil(i)) <= Cap[marker[i][1]]
=============================================================================
