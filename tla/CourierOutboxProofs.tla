------------------------ MODULE CourierOutboxProofs ------------------------
(***************************************************************************)
(* Proofs about courier's approved-send pipe, for any items, bodies, peers *)
(* and servers: that it implements ApprovedMail, and that it keeps every   *)
(* peer's hourly cap.                                                      *)
(***************************************************************************)
EXTENDS CourierOutbox, TLAPS, FiniteSetTheorems

InFlight(i) == \E m \in flight : m[1] = i

\* The lock admits one server at a time.
OneServer ==
  \A s, t \in Server :
    pc[s] \notin {"off", "ended"} /\ pc[t] \notin {"off", "ended"} => s = t

\* Nothing happens to an item before it is marked, and only an approved item is marked.
MarkedFirst ==
  \A i \in Item :
    IF marker[i] = NoMarker
    THEN mail[i] = <<>> /\ result[i] = None /\ ~InFlight(i)
    ELSE ledger[i] # None

\* A send on its way is the first of its item, and carries what was approved.
SentAsApproved == \A m \in flight : mail[m[1]] = <<>> /\ m[2] = ledger[m[1]]

\* What a starting server has to reconcile was marked and has no result.
Unreported ==
  \A s \in Server : \A i \in todo[s] :
    pc[s] = "reconcile" /\ marker[i] # NoMarker /\ result[i] = None

\* The item that a server works on: what it knows of it at each step of a request.
AtWork ==
  \A s \in Server :
    /\ pc[s] \in {"mark", "send", "await", "record"} =>
         /\ item[s] \in Item /\ body[s] \in Body
         /\ ledger[item[s]] # None /\ body[s] = ledger[item[s]]
    /\ pc[s] \in {"send", "await", "record"} =>
         marker[item[s]] # NoMarker /\ result[item[s]] = None
    /\ pc[s] = "send" => mail[item[s]] = <<>> /\ ~InFlight(item[s])
    /\ pc[s] = "record" =>
         outcome[s] \in {"sent", "failed"} /\ (outcome[s] = "sent" => mail[item[s]] # <<>>)

OutboxInv ==
  TypeOK /\ OneServer /\ MarkedFirst /\ SentAsApproved /\ Unreported /\ AtWork

-----------------------------------------------------------------------------
LEMMA TypeOKStep ==
  ASSUME TypeOK, OneServer, MarkedFirst, Unreported, AtWork, [Next]_vars
  PROVE  TypeOK'
<1> USE ConstantsAssumption
<1>1. ASSUME NEW i \in Item, Approve(i) PROVE TypeOK'
  BY <1>1 DEF TypeOK, Approve, records, local, work, network, time
<1>2. ASSUME NEW i \in Item, Publish(i) PROVE TypeOK'
  BY <1>2 DEF TypeOK, Publish, records, local, work, network, time
<1>3. ASSUME NEW i \in Item, Replace(i) PROVE TypeOK'
  BY <1>3 DEF TypeOK, Replace, records, local, work, network, time, Fault
<1>4. ASSUME NEW s \in Server, Start(s) PROVE TypeOK'
  BY <1>4 DEF TypeOK, Start, Lock!Take, Go, approvals, records, work, network, time
<1>5. ASSUME NEW s \in Server, Reconcile(s) PROVE TypeOK'
  <2>1. PICK i \in todo[s] :
          /\ todo' = [todo EXCEPT ![s] = @ \ {i}]
          /\ result' = [result EXCEPT ![i] = "uncertain"] \/ result' = result
          /\ faults' = faults \/ (faults' = faults + 1 /\ faults < MaxFaults)
    BY <1>5 DEF Reconcile, Write, Fault
  <2>2. i \in Item /\ marker[i] # NoMarker
    BY <2>1, <1>5 DEF TypeOK, Unreported
  <2>3. faults' \in 0 .. MaxFaults
    BY <2>1 DEF TypeOK
  <2>4. result' \in [Item -> {None, "sent", "failed", "uncertain"}]
    BY <2>1, <2>2 DEF TypeOK
  <2>5. \A j \in Item : result'[j] # None => marker[j] # NoMarker
    BY <2>1, <2>2 DEF TypeOK
  <2>6. todo' \in [Server -> SUBSET Item]
    BY <2>1 DEF TypeOK
  <2> QED BY <2>3, <2>4, <2>5, <2>6, <1>5 DEF TypeOK, Reconcile, approvals, work, network, time
<1>6. ASSUME NEW s \in Server, Listen(s) PROVE TypeOK'
  BY <1>6 DEF TypeOK, OneServer, Listen, Go, approvals, records, work, network, time
<1>7. ASSUME NEW s \in Server, Request(s) PROVE TypeOK'
  <2>1. /\ pc[s] = "ready"
        /\ pc' = pc \/ pc' = [pc EXCEPT ![s] = "mark"]
        /\ item' \in [Server -> Item \cup {None}]
        /\ body' \in [Server -> Body \cup {None}]
    BY <1>7 DEF TypeOK, Request, Go
  <2>2. holders' = {t \in Server : pc'[t] \notin {"off", "ended"}}
    BY <2>1, <1>7 DEF TypeOK, Request
  <2> QED BY <2>1, <2>2, <1>7 DEF TypeOK, Request, approvals, records, network, time
<1>8. ASSUME NEW s \in Server, Mark(s) PROVE TypeOK'
  <2>1. pc[s] = "mark" /\ item[s] \in Item /\ To[body[s]] \in Peer
    BY <1>8 DEF AtWork, Mark
  <2>2. CASE marker[item[s]] = NoMarker
    <3>1. CreateMarker(s) /\ Go(s, "send") /\ UNCHANGED work
      BY <2>2, <1>8 DEF Mark
    <3> QED BY <2>1, <3>1, <1>8
            DEF TypeOK, Mark, CreateMarker, Go, approvals, work, network, time, NoMarker
  <2>3. CASE marker[item[s]] # NoMarker
    BY <2>1, <2>3, <1>8 DEF TypeOK, Mark, Reply, Go, approvals, network, time
  <2> QED BY <2>2, <2>3
<1>9. ASSUME NEW s \in Server, MarkFails(s) PROVE TypeOK'
  <2>1. pc[s] = "mark" /\ item[s] \in Item /\ To[body[s]] \in Peer
    BY <1>9 DEF AtWork, MarkFails
  <2> QED
    BY <2>1, <1>9
    DEF TypeOK, MarkFails, CreateMarker, Reply, Go, Fault, approvals, network, time, NoMarker
<1>10. ASSUME NEW s \in Server, Send(s) PROVE TypeOK'
  BY <1>10 DEF TypeOK, AtWork, None, Send, Go, approvals, records, work, time
<1>11. ASSUME NEW s \in Server, Answer(s) PROVE TypeOK'
  <2>1. /\ pc[s] = "await" /\ pc' = [pc EXCEPT ![s] = "record"]
        /\ outcome' \in [Server -> {None, "sent", "failed"}]
    BY <1>11 DEF TypeOK, Answer, Go
  <2> QED BY <2>1, <1>11 DEF TypeOK, Answer, approvals, records, network, time
<1>12. ASSUME NEW s \in Server, Record(s) PROVE TypeOK'
  <2>1. /\ pc[s] = "record" /\ item[s] \in Item /\ marker[item[s]] # NoMarker
        /\ outcome[s] \in {"sent", "failed"}
    BY <1>12 DEF AtWork, Record
  <2>2. /\ result' = [result EXCEPT ![item[s]] = outcome[s]] \/ result' = result
        /\ faults' = faults \/ (faults' = faults + 1 /\ faults < MaxFaults)
    BY <1>12 DEF Record, Write, Fault
  <2>3. faults' \in 0 .. MaxFaults
    BY <2>2 DEF TypeOK
  <2>4. result' \in [Item -> {None, "sent", "failed", "uncertain"}]
    BY <2>1, <2>2 DEF TypeOK
  <2>5. \A j \in Item : result'[j] # None => marker[j] # NoMarker
    BY <2>1, <2>2 DEF TypeOK
  <2> QED
    BY <2>1, <2>3, <2>4, <2>5, <1>12
    DEF TypeOK, Record, Reply, Go, approvals, network, time
<1>13. ASSUME NEW s \in Server, Close(s) PROVE TypeOK'
  BY <1>13 DEF TypeOK, Close, approvals, records, work, network, time
<1>14. ASSUME NEW s \in Server, Closed(s) PROVE TypeOK'
  BY <1>14 DEF TypeOK, Closed, Forget, Lock!Leave, Go, approvals, records, network, time
<1>15. ASSUME NEW s \in Server, Crash(s) PROVE TypeOK'
  BY <1>15 DEF TypeOK, Crash, Forget, Lock!Leave, Go, Fault, approvals, records, network, time
<1>16. ASSUME NEW m \in flight, Arrive(m) PROVE TypeOK'
  <2>1. m[1] \in Item /\ m[2] \in Body /\ marker[m[1]] # NoMarker
    BY DEF TypeOK, MarkedFirst, InFlight
  <2>2. Append(mail[m[1]], m[2]) \in Seq(Body)
    BY <2>1 DEF TypeOK
  <2>3. mail' = [mail EXCEPT ![m[1]] = Append(mail[m[1]], m[2])] \/ mail' = mail
    BY <1>16 DEF Arrive
  <2>4. mail' \in [Item -> Seq(Body)]
    BY <2>1, <2>2, <2>3 DEF TypeOK
  <2>5. \A i \in Item : mail'[i] # <<>> => i = m[1] \/ mail[i] # <<>>
    BY <2>3 DEF TypeOK
  <2> QED BY <2>1, <2>4, <2>5, <1>16 DEF TypeOK, Arrive, approvals, records, local, work, time
<1>17. CASE Tick
  BY <1>17 DEF TypeOK, Tick, approvals, records, local, work, network
<1>18. CASE StepBack
  BY <1>18 DEF TypeOK, StepBack, approvals, records, local, work, network, Fault
<1>19. CASE EditPeers
  BY <1>19 DEF TypeOK, EditPeers, approvals, records, local, work, network, time, Fault
<1>20. CASE UNCHANGED vars
  BY <1>20 DEF TypeOK, vars, approvals, records, local, work, network, time
<1> QED
  BY <1>1, <1>2, <1>3, <1>4, <1>5, <1>6, <1>7, <1>8, <1>9, <1>10, <1>11, <1>12, <1>13, <1>14,
     <1>15, <1>16, <1>17, <1>18, <1>19, <1>20
  DEF Next

LEMMA OneServerStep ==
  ASSUME TypeOK, OneServer, [Next]_vars
  PROVE  OneServer'
<1> USE ConstantsAssumption
<1>1. ASSUME NEW i \in Item, Approve(i) PROVE OneServer'
  BY <1>1 DEF OneServer, Approve, local
<1>2. ASSUME NEW i \in Item, Publish(i) PROVE OneServer'
  BY <1>2 DEF OneServer, Publish, local
<1>3. ASSUME NEW i \in Item, Replace(i) PROVE OneServer'
  BY <1>3 DEF OneServer, Replace, local
<1>4. ASSUME NEW s \in Server, Start(s) PROVE OneServer'
  BY <1>4 DEF TypeOK, OneServer, Start, Lock!Take, Go
<1>5. ASSUME NEW s \in Server, Reconcile(s) PROVE OneServer'
  BY <1>5 DEF OneServer, Reconcile
<1>6. ASSUME NEW s \in Server, Listen(s) PROVE OneServer'
  BY <1>6 DEF OneServer, Listen, Go
<1>7. ASSUME NEW s \in Server, Request(s) PROVE OneServer'
  BY <1>7 DEF TypeOK, OneServer, Request, Go
<1>8. ASSUME NEW s \in Server, Mark(s) PROVE OneServer'
  <2>1. pc[s] = "mark" /\ (pc' = [pc EXCEPT ![s] = "send"] \/ pc' = [pc EXCEPT ![s] = "ready"])
    BY <1>8 DEF Mark, Go, Reply
  <2> QED BY <2>1 DEF TypeOK, OneServer
<1>9. ASSUME NEW s \in Server, MarkFails(s) PROVE OneServer'
  BY <1>9 DEF OneServer, MarkFails, Go, Reply
<1>10. ASSUME NEW s \in Server, Send(s) PROVE OneServer'
  BY <1>10 DEF OneServer, Send, Go
<1>11. ASSUME NEW s \in Server, Answer(s) PROVE OneServer'
  BY <1>11 DEF OneServer, Answer, Go
<1>12. ASSUME NEW s \in Server, Record(s) PROVE OneServer'
  BY <1>12 DEF OneServer, Record, Go, Reply
<1>13. ASSUME NEW s \in Server, Close(s) PROVE OneServer'
  BY <1>13 DEF OneServer, Close
<1>14. ASSUME NEW s \in Server, Closed(s) PROVE OneServer'
  BY <1>14 DEF OneServer, Closed, Forget, Go
<1>15. ASSUME NEW s \in Server, Crash(s) PROVE OneServer'
  BY <1>15 DEF OneServer, Crash, Forget, Go
<1>16. ASSUME NEW m \in flight, Arrive(m) PROVE OneServer'
  BY <1>16 DEF OneServer, Arrive, local
<1>17. CASE Tick
  BY <1>17 DEF OneServer, Tick, local
<1>18. CASE StepBack
  BY <1>18 DEF OneServer, StepBack, local
<1>19. CASE EditPeers
  BY <1>19 DEF OneServer, EditPeers, local
<1>20. CASE UNCHANGED vars
  BY <1>20 DEF OneServer, vars, local
<1> QED
  BY <1>1, <1>2, <1>3, <1>4, <1>5, <1>6, <1>7, <1>8, <1>9, <1>10, <1>11, <1>12, <1>13, <1>14,
     <1>15, <1>16, <1>17, <1>18, <1>19, <1>20
  DEF Next

LEMMA MarkedFirstStep ==
  ASSUME TypeOK, MarkedFirst, SentAsApproved, Unreported, AtWork, [Next]_vars
  PROVE  MarkedFirst'
<1> USE ConstantsAssumption
<1>1. ASSUME NEW i \in Item, Approve(i) PROVE MarkedFirst'
  BY <1>1 DEF MarkedFirst, InFlight, Approve, records, network
<1>2. ASSUME NEW s \in Server, Reconcile(s) PROVE MarkedFirst'
  BY <1>2 DEF TypeOK, MarkedFirst, Unreported, InFlight, Reconcile, Write, approvals, network
<1>3. ASSUME NEW s \in Server, Mark(s) PROVE MarkedFirst'
  BY <1>3 DEF TypeOK, MarkedFirst, AtWork, InFlight, Mark, CreateMarker, approvals, network
<1>4. ASSUME NEW s \in Server, MarkFails(s) PROVE MarkedFirst'
  BY <1>4 DEF MarkedFirst, AtWork, InFlight, MarkFails, CreateMarker, approvals, network
<1>5. ASSUME NEW s \in Server, Send(s) PROVE MarkedFirst'
  BY <1>5 DEF MarkedFirst, AtWork, InFlight, Send, approvals, records
<1>6. ASSUME NEW s \in Server, Record(s) PROVE MarkedFirst'
  BY <1>6 DEF TypeOK, MarkedFirst, AtWork, InFlight, Record, Write, approvals, network
<1>7. ASSUME NEW m \in flight, Arrive(m) PROVE MarkedFirst'
  BY <1>7 DEF TypeOK, MarkedFirst, InFlight, Arrive, approvals, records
<1>8. CASE UNCHANGED <<marker, mail, result, flight, ledger>>
  BY <1>8 DEF MarkedFirst, InFlight
<1> QED
  BY <1>1, <1>2, <1>3, <1>4, <1>5, <1>6, <1>7, <1>8
     DEF Next, Publish, Replace, Start, Listen, Request, Answer, Close, Closed, Crash, Tick,
         StepBack, EditPeers, Forget, approvals, records, local, work, network, time, vars

LEMMA SentAsApprovedStep ==
  ASSUME TypeOK, MarkedFirst, SentAsApproved, AtWork, [Next]_vars
  PROVE  SentAsApproved'
<1> USE ConstantsAssumption
<1>1. ASSUME NEW i \in Item, Approve(i) PROVE SentAsApproved'
  BY <1>1 DEF MarkedFirst, SentAsApproved, InFlight, Approve, network
<1>2. ASSUME NEW s \in Server, Send(s) PROVE SentAsApproved'
  BY <1>2 DEF SentAsApproved, AtWork, Send, approvals
<1>3. ASSUME NEW m \in flight, Arrive(m) PROVE SentAsApproved'
  <2>1. m[1] \in Item
    BY DEF TypeOK
  <2>2. ASSUME NEW d \in flight' PROVE d \in flight /\ d[1] # m[1]
    <3>1. d \in flight /\ d # m
      BY <1>3 DEF Arrive
    <3>2. d = <<d[1], d[2]>> /\ m = <<m[1], m[2]>>
      BY <3>1 DEF TypeOK
    <3> QED BY <3>1, <3>2 DEF SentAsApproved
  <2> QED BY <2>1, <2>2, <1>3 DEF TypeOK, SentAsApproved, Arrive, approvals
<1>4. CASE UNCHANGED <<flight, mail, ledger>>
  BY <1>4 DEF SentAsApproved
<1> QED
  BY <1>1, <1>2, <1>3, <1>4
     DEF Next, Publish, Replace, Start, Reconcile, Listen, Request, Mark, MarkFails, Answer,
         Record, Close, Closed, Crash, Tick, StepBack, EditPeers, Forget, approvals, records,
         local, work, network, time, vars

LEMMA UnreportedStep ==
  ASSUME TypeOK, OneServer, Unreported, [Next]_vars
  PROVE  Unreported'
<1> USE ConstantsAssumption
<1>1. ASSUME NEW i \in Item, Approve(i) PROVE Unreported'
  BY <1>1 DEF Unreported, Approve, records, local
<1>2. ASSUME NEW i \in Item, Publish(i) PROVE Unreported'
  BY <1>2 DEF Unreported, Publish, records, local
<1>3. ASSUME NEW i \in Item, Replace(i) PROVE Unreported'
  BY <1>3 DEF Unreported, Replace, records, local
<1>4. ASSUME NEW s \in Server, Start(s) PROVE Unreported'
  BY <1>4 DEF TypeOK, Unreported, Start, Go, records
<1>5. ASSUME NEW s \in Server, Reconcile(s) PROVE Unreported'
  <2>1. PICK i \in todo[s] :
          /\ todo' = [todo EXCEPT ![s] = @ \ {i}]
          /\ result' = [result EXCEPT ![i] = "uncertain"] \/ result' = result
    BY <1>5 DEF Reconcile, Write
  <2>2. \A t \in Server : todo[t] # {} => t = s
    BY <1>5 DEF OneServer, Unreported, Reconcile
  <2>3. i \in Item
    BY <2>1 DEF TypeOK
  <2> QED BY <2>1, <2>2, <2>3, <1>5 DEF TypeOK, Unreported, Reconcile
<1>6. ASSUME NEW s \in Server, Listen(s) PROVE Unreported'
  BY <1>6 DEF Unreported, Listen, Go, records
<1>7. ASSUME NEW s \in Server, Request(s) PROVE Unreported'
  BY <1>7 DEF OneServer, Unreported, Request
<1>8. ASSUME NEW s \in Server, Mark(s) PROVE Unreported'
  BY <1>8 DEF OneServer, Unreported, Mark
<1>9. ASSUME NEW s \in Server, MarkFails(s) PROVE Unreported'
  BY <1>9 DEF Unreported, MarkFails, CreateMarker, Go, Reply
<1>10. ASSUME NEW s \in Server, Send(s) PROVE Unreported'
  BY <1>10 DEF Unreported, Send, Go, records
<1>11. ASSUME NEW s \in Server, Answer(s) PROVE Unreported'
  BY <1>11 DEF Unreported, Answer, Go, records
<1>12. ASSUME NEW s \in Server, Record(s) PROVE Unreported'
  BY <1>12 DEF OneServer, Unreported, Record
<1>13. ASSUME NEW s \in Server, Close(s) PROVE Unreported'
  BY <1>13 DEF Unreported, Close, records
<1>14. ASSUME NEW s \in Server, Closed(s) PROVE Unreported'
  BY <1>14 DEF Unreported, Closed, Forget, Go, records
<1>15. ASSUME NEW s \in Server, Crash(s) PROVE Unreported'
  BY <1>15 DEF TypeOK, Unreported, Crash, Forget, Go, records
<1>16. ASSUME NEW m \in flight, Arrive(m) PROVE Unreported'
  BY <1>16 DEF Unreported, Arrive, records, local
<1>17. CASE Tick
  BY <1>17 DEF Unreported, Tick, records, local
<1>18. CASE StepBack
  BY <1>18 DEF Unreported, StepBack, records, local
<1>19. CASE EditPeers
  BY <1>19 DEF Unreported, EditPeers, records, local
<1>20. CASE UNCHANGED vars
  BY <1>20 DEF Unreported, vars, records, local
<1> QED
  BY <1>1, <1>2, <1>3, <1>4, <1>5, <1>6, <1>7, <1>8, <1>9, <1>10, <1>11, <1>12, <1>13, <1>14,
     <1>15, <1>16, <1>17, <1>18, <1>19, <1>20
  DEF Next

LEMMA AtWorkStep ==
  ASSUME TypeOK, OneServer, MarkedFirst, SentAsApproved, Unreported, AtWork, [Next]_vars
  PROVE  AtWork'
<1> USE ConstantsAssumption
<1>1. ASSUME NEW i \in Item, Approve(i) PROVE AtWork'
  BY <1>1 DEF AtWork, InFlight, Approve, records, local, work, network
<1>2. ASSUME NEW i \in Item, Publish(i) PROVE AtWork'
  BY <1>2 DEF AtWork, InFlight, Publish, records, local, work, network
<1>3. ASSUME NEW i \in Item, Replace(i) PROVE AtWork'
  BY <1>3 DEF AtWork, InFlight, Replace, records, local, work, network
<1>4. ASSUME NEW s \in Server, Start(s) PROVE AtWork'
  BY <1>4 DEF AtWork, InFlight, Start, Go, approvals, records, work, network
<1>5. ASSUME NEW s \in Server, Reconcile(s) PROVE AtWork'
  BY <1>5 DEF OneServer, AtWork, Reconcile
<1>6. ASSUME NEW s \in Server, Listen(s) PROVE AtWork'
  BY <1>6 DEF AtWork, InFlight, Listen, Go, approvals, records, work, network
<1>7. ASSUME NEW s \in Server, Request(s) PROVE AtWork'
  <2>1. \/ pc' = pc /\ item' = item /\ body' = body
        \/ \E i \in Item : /\ pc' = [pc EXCEPT ![s] = "mark"]
                           /\ item' = [item EXCEPT ![s] = i]
                           /\ body' = [body EXCEPT ![s] = ledger[i]]
                           /\ ledger[i] # None
    BY <1>7 DEF Request, Go
  <2> QED BY <2>1, <1>7 DEF TypeOK, AtWork, InFlight, Request, approvals, records, network
<1>8. ASSUME NEW s \in Server, Mark(s) PROVE AtWork'
  <2>1. pc[s] = "mark" /\ item[s] \in Item /\ To[body[s]] \in Peer
    BY <1>8 DEF AtWork, Mark
  <2>2. CASE marker[item[s]] = NoMarker
    <3>1. result[item[s]] = None /\ mail[item[s]] = <<>> /\ ~InFlight(item[s])
      BY <2>1, <2>2 DEF MarkedFirst
    <3>2. marker'[item[s]] # NoMarker /\ \A i \in Item : marker[i] # NoMarker => marker'[i] = marker[i]
      <4>1. CreateMarker(s)
        BY <2>2, <1>8 DEF Mark
      <4> QED BY <2>1, <2>2, <4>1 DEF TypeOK, CreateMarker, NoMarker
    <3> QED BY <2>1, <2>2, <3>1, <3>2, <1>8
            DEF TypeOK, OneServer, AtWork, InFlight, Mark, Go, approvals, work, network
  <2>3. CASE marker[item[s]] # NoMarker
    <3>1. pc' = [pc EXCEPT ![s] = "ready"] /\ UNCHANGED <<marker, since>>
      BY <2>3, <1>8 DEF Mark, Reply, Go
    <3>2. \A t \in Server : pc'[t] \in {"off", "ended", "ready"}
      BY <2>1, <3>1 DEF TypeOK, OneServer
    <3> QED BY <3>2 DEF AtWork
  <2> QED BY <2>2, <2>3
<1>9. ASSUME NEW s \in Server, MarkFails(s) PROVE AtWork'
  BY <1>9 DEF TypeOK, AtWork, InFlight, MarkFails, CreateMarker, Go, Reply, approvals, network
<1>10. ASSUME NEW s \in Server, Send(s) PROVE AtWork'
  <2>1. \A t \in Server : t # s => pc'[t] = pc[t] /\ pc[t] \in {"off", "ended"}
    BY <1>10 DEF TypeOK, OneServer, Send, Go
  <2> QED BY <2>1, <1>10 DEF TypeOK, AtWork, Send, Go, approvals, records, work
<1>11. ASSUME NEW s \in Server, Answer(s) PROVE AtWork'
  BY <1>11 DEF TypeOK, AtWork, InFlight, Answer, Go, approvals, records, network
<1>12. ASSUME NEW s \in Server, Record(s) PROVE AtWork'
  <2>1. \A t \in Server : pc'[t] \in {"off", "ended", "ready"}
    BY <1>12 DEF TypeOK, OneServer, Record, Reply, Go
  <2> QED BY <2>1 DEF AtWork
<1>13. ASSUME NEW s \in Server, Close(s) PROVE AtWork'
  BY <1>13 DEF AtWork, InFlight, Close, approvals, records, work, network
<1>14. ASSUME NEW s \in Server, Closed(s) PROVE AtWork'
  BY <1>14 DEF AtWork, InFlight, Closed, Forget, Go, approvals, records, network
<1>15. ASSUME NEW s \in Server, Crash(s) PROVE AtWork'
  BY <1>15 DEF TypeOK, AtWork, InFlight, Crash, Forget, Go, approvals, records, network
<1>16. ASSUME NEW m \in flight, Arrive(m) PROVE AtWork'
  BY <1>16 DEF TypeOK, AtWork, InFlight, Arrive, approvals, records, local, work
<1>17. CASE Tick
  BY <1>17 DEF AtWork, InFlight, Tick, approvals, records, local, work, network
<1>18. CASE StepBack
  BY <1>18 DEF AtWork, InFlight, StepBack, approvals, records, local, work, network
<1>19. CASE EditPeers
  BY <1>19 DEF AtWork, InFlight, EditPeers, approvals, records, local, work, network
<1>20. CASE UNCHANGED vars
  BY <1>20 DEF AtWork, InFlight, vars, approvals, records, local, work, network
<1> QED
  BY <1>1, <1>2, <1>3, <1>4, <1>5, <1>6, <1>7, <1>8, <1>9, <1>10, <1>11, <1>12, <1>13, <1>14,
     <1>15, <1>16, <1>17, <1>18, <1>19, <1>20
  DEF Next

LEMMA InitOutboxInv == Init => OutboxInv
BY ConstantsAssumption
   DEF Init, Lock!Init, OutboxInv, TypeOK, OneServer, MarkedFirst, SentAsApproved, Unreported,
       AtWork, InFlight, NoMarker, None

LEMMA InvariantOutboxInv == Spec => []OutboxInv
<1>1. OutboxInv /\ [Next]_vars => OutboxInv'
  BY TypeOKStep, OneServerStep, MarkedFirstStep, SentAsApprovedStep, UnreportedStep, AtWorkStep
     DEF OutboxInv
<1> QED BY <1>1, InitOutboxInv, PTL DEF Spec

\* Every part of the state has its type; exactly the server at work holds the lock, and what
\* is on its way or has a result was marked before.
THEOREM TypeCorrect == Spec => []TypeOK
<1>1. OutboxInv => TypeOK
  BY DEF OutboxInv
<1> QED BY <1>1, InvariantOutboxInv, PTL

-----------------------------------------------------------------------------
\* Whatever crashes, restarts, late arrivals, replaced items and failed writes come between,
\* an item is delivered at most once and as approved, and its outcome is recorded once: every
\* step is a step of ApprovedMail or changes nothing there.
THEOREM OutboxImplementsApprovedMail == Spec => ImplementsApprovedMail
<1>1. Init => Promise!Init
  BY DEF Init, Promise!Init
<1>2. ASSUME OutboxInv, [Next]_vars
      PROVE  [Promise!Next]_<<ledger, mail, result>>
  <2>1. ASSUME NEW i \in Item, Approve(i) PROVE Promise!Approve(i)
    BY <2>1 DEF Approve, Promise!Approve, records, network
  <2>2. ASSUME NEW s \in Server, Reconcile(s)
        PROVE  [Promise!Next]_<<ledger, mail, result>>
    <3>1. PICK i \in todo[s] : Write(i, "uncertain") \/ UNCHANGED result
      BY <2>2 DEF Reconcile
    <3>2. i \in Item /\ result[i] = None /\ ledger[i] # None
      BY <1>2, <3>1 DEF OutboxInv, TypeOK, Unreported, MarkedFirst
    <3> QED
      BY <3>1, <3>2, <2>2
      DEF Reconcile, Write, Promise!Next, Promise!Report, approvals, network
  <2>3. ASSUME NEW s \in Server, Record(s)
        PROVE  [Promise!Next]_<<ledger, mail, result>>
    <3>1. /\ item[s] \in Item /\ ledger[item[s]] # None /\ result[item[s]] = None
          /\ outcome[s] \in {"sent", "failed"} /\ (outcome[s] = "sent" => mail[item[s]] # <<>>)
      BY <1>2, <2>3 DEF OutboxInv, AtWork, Record
    <3> QED BY <3>1, <2>3 DEF Record, Write, Promise!Next, Promise!Report, approvals, network
  <2>4. ASSUME NEW m \in flight, Arrive(m)
        PROVE  [Promise!Next]_<<ledger, mail, result>>
    <3>1. m[1] \in Item /\ mail[m[1]] = <<>> /\ m[2] = ledger[m[1]] /\ ledger[m[1]] # None
      BY <1>2 DEF OutboxInv, TypeOK, SentAsApproved, MarkedFirst, InFlight
    <3>2. Append(mail[m[1]], m[2]) = <<ledger[m[1]]>>
      BY <3>1
    <3> QED BY <3>1, <3>2, <2>4 DEF Arrive, Promise!Next, Promise!Deliver, approvals, records
  <2>5. CASE UNCHANGED <<ledger, mail, result>>
    BY <2>5
  <2> QED
    BY <1>2, <2>1, <2>2, <2>3, <2>4, <2>5
       DEF Next, Promise!Next, Publish, Replace, Start, Listen, Request, Mark, MarkFails, Send,
           Answer, Close, Closed, Crash, Forget, Tick, StepBack, EditPeers, approvals, records,
           network, vars
<1> QED BY <1>1, <1>2, InvariantOutboxInv, PTL DEF Spec, ImplementsApprovedMail, Promise!Spec

-----------------------------------------------------------------------------
\* The clock, which may be set back, has advanced since a marker by no more than time has.
Aged(i) == since[i] <= elapsed /\ now - marker[i][2] <= elapsed - since[i]
Ages == \A i \in Item : marker[i] # NoMarker => Aged(i)

\* The sends to r of the hour that has passed.
InWindow(r) ==
  {i \in Item : marker[i] # NoMarker /\ marker[i][1] = r /\ elapsed < since[i] + Window}

\* There is room for the marker that a server is about to make.
RoomToMark ==
  \A s \in Server : pc[s] = "mark" => Cardinality(InWindow(To[body[s]])) < Cap[To[body[s]]]

LEMMA AgesStep ==
  ASSUME TypeOK, AtWork, Ages, [Next]_vars
  PROVE  Ages'
<1> USE ConstantsAssumption
<1>1. ASSUME NEW s \in Server, Mark(s) PROVE Ages'
  <2>1. item[s] \in Item
    BY <1>1 DEF AtWork, Mark
  <2>2. CASE CreateMarker(s)
    BY <2>1, <2>2, <1>1 DEF TypeOK, Ages, Aged, CreateMarker, Mark, NoMarker, time
  <2>3. CASE UNCHANGED <<marker, since>>
    BY <2>3, <1>1 DEF Ages, Aged, Mark, time
  <2> QED BY <2>2, <2>3, <1>1 DEF Mark
<1>2. ASSUME NEW s \in Server, MarkFails(s) PROVE Ages'
  <2>1. item[s] \in Item
    BY <1>2 DEF AtWork, MarkFails
  <2> QED BY <2>1, <1>2 DEF TypeOK, Ages, Aged, MarkFails, CreateMarker, NoMarker, time
<1>3. CASE Tick
  BY <1>3 DEF TypeOK, Ages, Aged, Tick, records
<1>4. CASE StepBack
  BY <1>4 DEF TypeOK, Ages, Aged, StepBack, records
<1>5. CASE UNCHANGED <<marker, since, now, elapsed>>
  BY <1>5 DEF Ages, Aged
<1> QED
  BY <1>1, <1>2, <1>3, <1>4, <1>5
     DEF Next, Approve, Publish, Replace, Start, Reconcile, Listen, Request, Send, Answer,
         Record, Close, Closed, Crash, Arrive, EditPeers, Forget, approvals, records, local,
         work, network, time, vars

LEMMA FiniteItems == \A S \in SUBSET Item : IsFiniteSet(S) /\ Cardinality(S) \in Nat
BY FS_Subset, FS_CardinalityType, ConstantsAssumption

\* Time passes no slower for the markers than for anybody else.
LEMMA WindowIsRecent ==
  ASSUME TypeOK, Ages, NEW r
  PROVE  Cardinality(InWindow(r)) <= Cardinality(Recent(r))
<1>1. InWindow(r) \subseteq Recent(r)
  <2> SUFFICES ASSUME NEW i \in InWindow(r) PROVE now < marker[i][2] + Window
    BY DEF InWindow, Recent
  <2>1. since[i] \in Nat /\ marker[i][2] \in Nat /\ now \in Nat /\ elapsed \in Nat
    BY DEF TypeOK, InWindow, NoMarker
  <2> QED BY <2>1, ConstantsAssumption DEF Ages, Aged, InWindow
<1>2. IsFiniteSet(Recent(r))
  BY FiniteItems DEF Recent
<1> QED BY <1>1, <1>2, FS_Subset

LEMMA RoomToMarkStep ==
  ASSUME TypeOK, OneServer, AtWork, Ages, RoomToMark, [Next]_vars
  PROVE  RoomToMark'
<1> USE ConstantsAssumption
<1>1. ASSUME NEW i \in Item, Approve(i) PROVE RoomToMark'
  BY <1>1 DEF RoomToMark, InWindow, Approve, records, local, work, time
<1>2. ASSUME NEW i \in Item, Publish(i) PROVE RoomToMark'
  BY <1>2 DEF RoomToMark, InWindow, Publish, records, local, work, time
<1>3. ASSUME NEW i \in Item, Replace(i) PROVE RoomToMark'
  BY <1>3 DEF RoomToMark, InWindow, Replace, records, local, work, time
<1>4. ASSUME NEW s \in Server, Start(s) PROVE RoomToMark'
  BY <1>4 DEF RoomToMark, InWindow, Start, Go, records, work, time
<1>5. ASSUME NEW s \in Server, Reconcile(s) PROVE RoomToMark'
  BY <1>5 DEF RoomToMark, InWindow, Reconcile, work, time
<1>6. ASSUME NEW s \in Server, Listen(s) PROVE RoomToMark'
  BY <1>6 DEF RoomToMark, InWindow, Listen, Go, records, work, time
<1>7. ASSUME NEW s \in Server, Request(s) PROVE RoomToMark'
  <2> SUFFICES ASSUME NEW t \in Server, pc'[t] = "mark", t = s, pc' # pc
               PROVE  Cardinality(InWindow(To[body'[t]])) < Cap[To[body'[t]]]
    BY <1>7 DEF TypeOK, OneServer, RoomToMark, InWindow, Request, Go, records, time
  <2>1. PICK i \in Item : /\ file[i] = ledger[i] /\ ledger[i] # None
                          /\ Cardinality(Recent(To[file[i]])) < Allowed(s, file[i])
                          /\ body' = [body EXCEPT ![s] = file[i]]
    BY <1>7 DEF Request
  <2>2. file[i] \in Body /\ body'[s] = file[i]
    BY <2>1 DEF TypeOK, None
  <2>3. Cap[To[file[i]]] \in Nat \ {0}
    BY <2>2
  <2>4. Allowed(s, file[i]) \in Nat /\ Allowed(s, file[i]) <= Cap[To[file[i]]]
    BY <2>3 DEF Allowed, UnloadedCap
  <2>5. Cardinality(InWindow(To[file[i]])) \in Nat /\ Cardinality(Recent(To[file[i]])) \in Nat
    BY FiniteItems DEF InWindow, Recent
  <2> QED BY <2>1, <2>2, <2>3, <2>4, <2>5, WindowIsRecent
<1>8. ASSUME NEW s \in Server, Mark(s) PROVE RoomToMark'
  BY <1>8 DEF TypeOK, OneServer, RoomToMark, Mark, Reply, Go
<1>9. ASSUME NEW s \in Server, MarkFails(s) PROVE RoomToMark'
  BY <1>9 DEF TypeOK, OneServer, RoomToMark, MarkFails, Reply, Go
<1>10. ASSUME NEW s \in Server, Send(s) PROVE RoomToMark'
  BY <1>10 DEF RoomToMark, InWindow, Send, Go, records, work, time
<1>11. ASSUME NEW s \in Server, Answer(s) PROVE RoomToMark'
  BY <1>11 DEF RoomToMark, InWindow, Answer, Go, records, time
<1>12. ASSUME NEW s \in Server, Record(s) PROVE RoomToMark'
  BY <1>12 DEF RoomToMark, InWindow, Record, Go, Reply, time
<1>13. ASSUME NEW s \in Server, Close(s) PROVE RoomToMark'
  BY <1>13 DEF RoomToMark, InWindow, Close, records, work, time
<1>14. ASSUME NEW s \in Server, Closed(s) PROVE RoomToMark'
  BY <1>14 DEF RoomToMark, InWindow, Closed, Forget, Go, records, time
<1>15. ASSUME NEW s \in Server, Crash(s) PROVE RoomToMark'
  BY <1>15 DEF TypeOK, RoomToMark, Crash, Forget, Lock!Leave, Go
<1>16. ASSUME NEW m \in flight, Arrive(m) PROVE RoomToMark'
  BY <1>16 DEF RoomToMark, InWindow, Arrive, records, local, work, time
<1>17. CASE Tick
  <2> SUFFICES ASSUME NEW s \in Server, pc[s] = "mark"
               PROVE  Cardinality(InWindow(To[body[s]])') < Cap[To[body[s]]]
    BY <1>17 DEF RoomToMark, InWindow, Tick, local, work
  <2>1. InWindow(To[body[s]])' \subseteq InWindow(To[body[s]])
    <3>1. \A i \in Item : elapsed' < since[i] + Window => elapsed < since[i] + Window
      BY <1>17 DEF TypeOK, Tick
    <3> QED BY <3>1, <1>17 DEF InWindow, Tick, records, local, work
  <2>2. Cardinality(InWindow(To[body[s]])') <= Cardinality(InWindow(To[body[s]]))
    BY <2>1, FiniteItems, FS_Subset DEF InWindow
  <2>3. body[s] \in Body
    BY DEF AtWork
  <2>4. Cap[To[body[s]]] \in Nat
    BY <2>3
  <2>5. Cardinality(InWindow(To[body[s]])') \in Nat /\ Cardinality(InWindow(To[body[s]])) \in Nat
    BY FiniteItems DEF InWindow
  <2> QED BY <2>2, <2>4, <2>5 DEF RoomToMark
<1>18. CASE StepBack
  BY <1>18 DEF RoomToMark, InWindow, StepBack, records, local, work
<1>19. CASE EditPeers
  BY <1>19 DEF RoomToMark, InWindow, EditPeers, records, local, work, time
<1>20. CASE UNCHANGED vars
  BY <1>20 DEF RoomToMark, InWindow, vars, records, local, work, time
<1> QED
  BY <1>1, <1>2, <1>3, <1>4, <1>5, <1>6, <1>7, <1>8, <1>9, <1>10, <1>11, <1>12, <1>13, <1>14,
     <1>15, <1>16, <1>17, <1>18, <1>19, <1>20
  DEF Next

LEMMA MarkKeepsRate ==
  ASSUME TypeOK, AtWork, Ages, RoomToMark, RateHolds, UNCHANGED time,
         NEW s \in Server, pc[s] = "mark", marker[item[s]] = NoMarker, CreateMarker(s)
  PROVE  RateHolds'
<1> DEFINE new == item[s]
           r == To[body[s]]
<1>1. new \in Item /\ body[s] \in Body /\ r \in Peer
  BY ConstantsAssumption DEF AtWork
<1>2. /\ marker'[new] = <<r, now>> /\ since'[new] = elapsed
      /\ \A i \in Item \ {new} : marker'[i] = marker[i] /\ since'[i] = since[i]
  BY <1>1 DEF TypeOK, CreateMarker
<1>3. Cardinality(InWindow(r) \cup {new}) <= Cap[r]
  <2>1. Cap[r] \in Nat /\ Cardinality(InWindow(r)) \in Nat /\ IsFiniteSet(InWindow(r))
    BY <1>1, FiniteItems, ConstantsAssumption DEF InWindow
  <2>2. Cardinality(InWindow(r)) < Cap[r]
    BY DEF RoomToMark
  <2>3. Cardinality(InWindow(r) \cup {new}) <= Cardinality(InWindow(r)) + 1
    <3>1. Cardinality(InWindow(r) \cup {new}) =
            IF new \in InWindow(r) THEN Cardinality(InWindow(r)) ELSE Cardinality(InWindow(r)) + 1
      BY <2>1, FS_AddElement
    <3> QED BY <2>1, <3>1
  <2>4. Cardinality(InWindow(r) \cup {new}) \in Nat
    BY <1>1, FiniteItems DEF InWindow
  <2> QED BY <2>1, <2>2, <2>3, <2>4
<1>4. \A i \in Item : since[i] \in Nat /\ (marker[i] # NoMarker => since[i] <= elapsed)
  BY DEF TypeOK, Ages, Aged
<1>5. elapsed \in Nat
  BY DEF TypeOK
<1> SUFFICES ASSUME NEW i \in Item, marker'[i] # NoMarker
             PROVE  Cardinality(HourUntil(i)') <= Cap[marker'[i][1]]
  BY DEF RateHolds
<1>6. CASE marker'[i][1] = r /\ since'[i] = elapsed
  <2>1. HourUntil(i)' \subseteq InWindow(r) \cup {new}
    BY <1>2, <1>6 DEF HourUntil, InWindow
  <2>2. Cardinality(HourUntil(i)') <= Cardinality(InWindow(r) \cup {new})
    BY <2>1, <1>1, FiniteItems, FS_Subset DEF InWindow
  <2>3. Cardinality(HourUntil(i)') \in Nat /\ Cardinality(InWindow(r) \cup {new}) \in Nat /\ Cap[r] \in Nat
    BY <1>1, FiniteItems, ConstantsAssumption DEF HourUntil, InWindow
  <2> QED BY <2>2, <2>3, <1>3, <1>6
<1>7. CASE ~(marker'[i][1] = r /\ since'[i] = elapsed)
  <2>1. i # new /\ marker[i] # NoMarker /\ marker'[i] = marker[i] /\ since'[i] = since[i]
    BY <1>2, <1>7
  <2>2. HourUntil(i)' = HourUntil(i)
    <3> SUFFICES ASSUME NEW j \in Item PROVE j \in HourUntil(i)' <=> j \in HourUntil(i)
      BY DEF HourUntil
    <3>1. CASE j # new
      BY <3>1, <2>1, <1>2 DEF HourUntil
    <3>2. CASE j = new
      BY <3>2, <2>1, <1>2, <1>4, <1>5, <1>7 DEF HourUntil
    <3> QED BY <3>1, <3>2
  <2> QED BY <2>1, <2>2 DEF RateHolds
<1> QED BY <1>6, <1>7

LEMMA RateHoldsStep ==
  ASSUME TypeOK, AtWork, Ages, RoomToMark, RateHolds, [Next]_vars
  PROVE  RateHolds'
<1>1. ASSUME NEW s \in Server, Mark(s) PROVE RateHolds'
  <2>1. CASE marker[item[s]] = NoMarker
    BY <2>1, <1>1, MarkKeepsRate DEF Mark
  <2>2. CASE marker[item[s]] # NoMarker
    BY <2>2, <1>1 DEF Mark, RateHolds, HourUntil
  <2> QED BY <2>1, <2>2
<1>2. ASSUME NEW s \in Server, MarkFails(s) PROVE RateHolds'
  BY <1>2, MarkKeepsRate DEF MarkFails
<1>3. CASE UNCHANGED <<marker, since>>
  BY <1>3 DEF RateHolds, HourUntil
<1> QED BY <1>1, <1>2, <1>3
        DEF Next, Approve, Publish, Replace, Start, Reconcile, Listen, Request, Send, Answer,
            Record, Close, Closed, Crash, Forget, Arrive, Tick, StepBack, EditPeers, records, vars

\* No peer's sends are started more often than outPerHour in any hour that passes, over
\* restarts, a clock that is set back, and a peers.json that does not load.
THEOREM HourlyCapHolds == Spec => []RateHolds
<1> DEFINE RateInv == Ages /\ RoomToMark /\ RateHolds
<1>1. Init => RateInv
  BY DEF Init, Ages, RoomToMark, RateHolds, NoMarker
<1>2. OutboxInv /\ RateInv /\ [Next]_vars => RateInv'
  BY AgesStep, RoomToMarkStep, RateHoldsStep DEF OutboxInv
<1> QED BY <1>1, <1>2, InvariantOutboxInv, PTL DEF Spec
=============================================================================
