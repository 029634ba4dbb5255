-------------------------- MODULE ReadThroughProofs --------------------------
(***************************************************************************)
(* Proofs about the replication controller's local reads, for any          *)
(* deployment of controllers, replicas, keys and writes.                   *)
(***************************************************************************)
EXTENDS ReadThrough, TLAPS

\* A controller that is not part of the deployment does nothing; one that is not up has no
\* sync; no sync starts from an epoch that is still to come.
Quiet ==
  /\ \A p \in Proc : p \notin setup.runs <=> mode[p] = "absent"
  /\ \A p \in Proc : p \notin setup.runs => p \notin proof
  /\ \A p \in Proc : mode[p] # "up" => sync[p] = NoSync
  /\ \A p \in Proc : sync[p].phase = "idle" => sync[p] = NoSync
  /\ \A p \in Proc : sync[p].epoch <= pend.epoch

\* The node never goes back behind a write it has applied.
NodeIsNewest ==
  /\ \A k \in Key : server[k] <= landings
  /\ \A o \in Op : \A k \in OpKeys[o] : landed[o] <= server[k]

\* A write without an answer has its record, unless that was cleared on purpose.
Unanswered(o, k) == \E r \in pend.records : r.op = o /\ r.key = k /\ r.state # "committed"

WritesRecorded ==
  \A o \in Op :
    /\ op[o] = "new" => landed[o] = 0
    /\ OpKeys[o] = {} => op[o] = "done" /\ landed[o] = 0
    /\ op[o] = "sent" /\ o \notin surrendered =>
         \A k \in OpKeys[o] : \E r \in pend.records :
           r.op = o /\ r.key = k /\ r.state = "in_flight"
    /\ op[o] = "unknown" /\ o \notin surrendered => \A k \in OpKeys[o] : Unanswered(o, k)
    /\ \A r \in pend.records : r.op = o /\ r.state = "committed" => op[o] = "done"

-----------------------------------------------------------------------------
\* A write that is known to have landed: it took a committed epoch, E[o] in what follows.
Settled(o) == op[o] = "done" /\ landed[o] # 0 /\ o \notin surrendered

\* A replica that is complete has the settled writes up to epoch e.
HasUpTo(E, r, e) ==
  rep[r].coverage = "complete" =>
    \A o \in Op : Settled(o) /\ E[o] <= e =>
      \A k \in OpKeys[o] \cap Covers[r] : rep[r].copy[k] >= landed[o]

Remembered(o, k) == \E r \in pend.records : r.op = o /\ r.key = k /\ r.state = "committed"

SettledBefore(E) == \A o \in Op : Settled(o) => E[o] <= pend.epoch

\* A sync that has its last page brought the writes up to the epoch it started from; so did
\* the sync whose epoch the fence has, and the one whose fence a read has seen.
SyncsHave(E) ==
  \A p \in Proc : sync[p].phase \in {"finished", "fenced"} => HasUpTo(E, Uses[p], sync[p].epoch)
FencesHave(E) == Durable => \A r \in Replica : HasUpTo(E, r, fence[r])
ReadsHave(E) ==
  Durable => \A p \in Proc : read[p].phase = "inspected" =>
    read[p].fence <= pend.epoch /\ HasUpTo(E, Uses[p], read[p].fence)

\* Without a durable store, a record names the epoch of its write, and a running sync knows
\* of every settled write: by its record or because it started after it.
RecordsTell(E) ==
  ~Durable => \A r \in pend.records : r.state = "committed" /\ Settled(r.op) => r.epoch = E[r.op]
SyncsKnow(E) ==
  ~Durable => \A p \in Proc, o \in Op : sync[p].phase # "idle" /\ Settled(o) =>
    \A k \in OpKeys[o] \cap Covers[Uses[p]] : Remembered(o, k) \/ E[o] <= sync[p].epoch

Epochs(E) ==
  /\ SettledBefore(E) /\ SyncsHave(E) /\ FencesHave(E) /\ ReadsHave(E)
  /\ RecordsTell(E) /\ SyncsKnow(E)
EpochsExist == \E E \in [Op -> Nat] : Epochs(E)

\* What inProcessProof stands for: the replica has each settled write that no record names.
ProofHolds ==
  ~Durable => \A p \in proof, o \in Op :
    Settled(o) /\ rep[Uses[p]].coverage = "complete" =>
      \A k \in OpKeys[o] \cap Covers[Uses[p]] :
        Remembered(o, k) \/ rep[Uses[p]].copy[k] >= landed[o]

ReadsSound ==
  \A p \in Proc : read[p].phase # "idle" =>
    /\ read[p].key \in Covers[Uses[p]]
    /\ \A o \in read[p].need : landed[o] # 0

\* A read that passed its checks finds its writes, also before it is delivered.
CheckedReads ==
  \A p \in Proc : read[p].phase = "checked" /\ rep[Uses[p]].coverage = "complete" =>
    \A o \in read[p].need \ surrendered :
      read[p].key \in OpKeys[o] => rep[Uses[p]].copy[read[p].key] >= landed[o]

\* The inductive invariant.
Inv ==
  /\ TypeOK /\ Quiet /\ NodeIsNewest /\ WritesRecorded /\ EpochsExist /\ ProofHolds
  /\ ReadsSound /\ CheckedReads

-----------------------------------------------------------------------------
\* What a step may do to a replica: copy the node's entries for all its keys, or for some.
Recopied(r) == \A k \in Covers[r] : rep'[r].copy[k] = server'[k]
Kept(r) ==
  /\ rep[r].coverage = "complete"
  /\ \A k \in Covers[r] : rep'[r].copy[k] = rep[r].copy[k] \/ rep'[r].copy[k] = server'[k]

\* A write that settles in a step takes the next epoch; the others keep theirs.
Renumbers(E, F) ==
  \A o \in Op : Settled(o)' => F[o] = IF Settled(o) THEN E[o] ELSE pend.epoch + 1

\* What a replica has, it has after the step.
Carried(E, F) ==
  \A r \in Replica, e \in Nat :
    (e <= pend.epoch /\ HasUpTo(E, r, e)) \/ Recopied(r) \/ rep'[r].coverage # "complete" =>
      HasUpTo(F, r, e)'

-----------------------------------------------------------------------------
\* What the configuration promises of the deployment.
LEMMA Deployment ==
  ASSUME TypeOK
  PROVE  /\ setup.runs \subseteq Proc
         /\ Uses \in [Proc -> Replica] /\ Covers \in [Replica -> SUBSET Key]
         /\ OpKeys \in [Op -> SUBSET Key]
         /\ Writer \in [Op -> Proc] /\ \A o \in Op : Writer[o] \in setup.runs
         /\ MaxGen \in Nat /\ MaxFaults \in Nat
         /\ ~Durable => \A p, q \in setup.runs : p = q
<1>1. setup \in Setup
  BY DEF TypeOK
<1>2. /\ setup.runs \subseteq Proc
      /\ setup.uses \in [Proc -> Replica] /\ setup.covers \in [Replica -> SUBSET Key]
      /\ setup.writer \in [Op -> setup.runs] /\ setup.keys \in [Op -> SUBSET Key]
      /\ ~setup.durable => \A p, q \in setup.runs : p = q
      /\ setup.maxGen \in Nat /\ setup.maxFaults \in Nat
  BY <1>1, ConstantsAssumption
<1> QED
  BY <1>2 DEF Uses, Covers, OpKeys, Writer, MaxGen, MaxFaults, Durable

\* The pending store's parts.
LEMMA PendingTyped ==
  ASSUME TypeOK
  PROVE  /\ pend = [epoch |-> pend.epoch, records |-> pend.records]
         /\ pend.epoch \in Nat /\ pend.records \subseteq Record
         /\ \A r \in pend.records :
              (r.state = "committed" <=> r.epoch # 0) /\ r.epoch <= pend.epoch
  BY DEF TypeOK

\* begin adds one in_flight record for each of the write's keys.
LEMMA BegunRecords ==
  ASSUME TypeOK, NEW o \in Op, NEW s, s = Begin(pend, o)
  PROVE  /\ s.epoch = pend.epoch
         /\ s.records = pend.records \cup
              {[op |-> o, key |-> k, state |-> "in_flight", epoch |-> 0] : k \in OpKeys[o]}
         /\ s \in [epoch : Nat, records : SUBSET Record]
         /\ \A r \in s.records : (r.state = "committed" <=> r.epoch # 0) /\ r.epoch <= s.epoch
<1> DEFINE new == {[op |-> o, key |-> k, state |-> "in_flight", epoch |-> 0] : k \in OpKeys[o]}
<1>1. s = [epoch |-> pend.epoch, records |-> pend.records \cup new]
  BY PendingTyped DEF Begin
<1>2. new \subseteq Record
  BY Deployment DEF Record
<1> QED
  BY <1>1, <1>2, PendingTyped

\* A record that is settled keeps its write and its key.
LEMMA CommittedRecord ==
  ASSUME NEW r \in Record, NEW e \in Nat,
         NEW x, x = [r EXCEPT !.state = "committed", !.epoch = e]
  PROVE  x = [op |-> r.op, key |-> r.key, state |-> "committed", epoch |-> e]
  BY DEF Record

\* One that is settled as ambiguous has no epoch to change.
LEMMA AmbiguousRecord ==
  ASSUME NEW r \in Record
  PROVE  [r EXCEPT !.state = "ambiguous"]
           = [op |-> r.op, key |-> r.key, state |-> "ambiguous", epoch |-> r.epoch]
  BY DEF Record

\* settleCommitted takes the next epoch when the write still has a record in flight, and
\* gives it to each of those.
LEMMA CommittedRecords ==
  ASSUME TypeOK, NEW o \in Op, NEW s, s = SettleCommitted(pend, o)
  PROVE  /\ s \in [epoch : Nat, records : SUBSET Record]
         /\ \A r \in s.records : (r.state = "committed" <=> r.epoch # 0) /\ r.epoch <= s.epoch
         /\ Own(pend, o) = {} => s = pend
         /\ Own(pend, o) # {} =>
              /\ s.epoch = pend.epoch + 1
              /\ \A r \in pend.records : r \notin Own(pend, o) => r \in s.records
              /\ \A x \in s.records : x \in pend.records \/
                   (x.op = o /\ x.state = "committed" /\ x.epoch = pend.epoch + 1)
              /\ \A r \in Own(pend, o) : \E x \in s.records :
                   x.op = o /\ x.key = r.key /\ x.state = "committed"
<1> DEFINE e == pend.epoch + 1
           set == {[r EXCEPT !.state = "committed", !.epoch = e] : r \in Own(pend, o)}
<1>1. CASE Own(pend, o) = {}
  BY <1>1, PendingTyped DEF SettleCommitted, TypeOK
<1>2. CASE Own(pend, o) # {}
  <2>1. s = [epoch |-> e, records |-> (pend.records \ Own(pend, o)) \cup set]
    BY <1>2 DEF SettleCommitted, Committed
  <2>2. \A r \in Own(pend, o) : r \in Record /\ r.op = o
    BY PendingTyped DEF Own
  <2>3. e \in Nat /\ e # 0 /\ pend.epoch <= e
    BY PendingTyped
  <2>4. \A x \in set : \E r \in Own(pend, o) :
          x = [op |-> r.op, key |-> r.key, state |-> "committed", epoch |-> e]
    BY <2>2, <2>3, CommittedRecord
  <2>5. ASSUME NEW x \in set
        PROVE  x \in Record /\ x.op = o /\ x.state = "committed" /\ x.epoch = e
    <3> HIDE DEF set, e
    <3>1. PICK r \in Own(pend, o) :
            x = [op |-> r.op, key |-> r.key, state |-> "committed", epoch |-> e]
      BY <2>4
    <3> QED
      BY <2>2, <2>3, <3>1 DEF Record
  <2>6. \A r \in Own(pend, o) : \E x \in set : x.key = r.key
    <3> SUFFICES ASSUME NEW r \in Own(pend, o) PROVE \E x \in set : x.key = r.key
      OBVIOUS
    <3>1. PICK x \in set : x = [r EXCEPT !.state = "committed", !.epoch = e]
      OBVIOUS
    <3>2. x = [op |-> r.op, key |-> r.key, state |-> "committed", epoch |-> e]
      BY <2>2, <2>3, <3>1, CommittedRecord
    <3> QED
      BY <3>2
  <2>7. \A r \in pend.records : r.epoch \in Nat /\ r.epoch <= e
    BY <2>3, PendingTyped DEF Record
  <2> HIDE DEF e, set
  <2>8. s.epoch = e /\ s.records = (pend.records \ Own(pend, o)) \cup set
    BY <2>1
  <2>9. s \in [epoch : Nat, records : SUBSET Record]
    BY <2>1, <2>3, <2>5, PendingTyped
  <2>10. \A r \in s.records : (r.state = "committed" <=> r.epoch # 0) /\ r.epoch <= s.epoch
    BY <2>3, <2>5, <2>7, <2>8, PendingTyped
  <2>11. /\ \A r \in pend.records : r \notin Own(pend, o) => r \in s.records
         /\ \A x \in s.records : x \in pend.records \/
              (x.op = o /\ x.state = "committed" /\ x.epoch = e)
         /\ \A r \in Own(pend, o) : \E x \in s.records :
              x.op = o /\ x.key = r.key /\ x.state = "committed"
    BY <2>5, <2>6, <2>8
  <2> QED
    BY <1>2, <2>8, <2>9, <2>10, <2>11 DEF e
<1> QED
  BY <1>1, <1>2

\* settleAmbiguous takes no epoch, and keeps a record of each key.
LEMMA AmbiguousRecords ==
  ASSUME TypeOK, NEW o \in Op, NEW s, s = SettleAmbiguous(pend, o)
  PROVE  /\ s \in [epoch : Nat, records : SUBSET Record]
         /\ \A r \in s.records : (r.state = "committed" <=> r.epoch # 0) /\ r.epoch <= s.epoch
         /\ s.epoch = pend.epoch
         /\ \A r \in pend.records : r \notin Own(pend, o) => r \in s.records
         /\ \A x \in s.records : x \in pend.records \/ (x.op = o /\ x.state = "ambiguous")
         /\ \A r \in Own(pend, o) : \E x \in s.records :
              x.op = o /\ x.key = r.key /\ x.state = "ambiguous"
<1> DEFINE set == {[r EXCEPT !.state = "ambiguous"] : r \in Own(pend, o)}
<1>1. s = [epoch |-> pend.epoch, records |-> (pend.records \ Own(pend, o)) \cup set]
  BY PendingTyped DEF SettleAmbiguous
<1>2. \A r \in Own(pend, o) : r \in Record /\ r \in pend.records /\ r.op = o /\ r.epoch = 0
  BY PendingTyped DEF Own
<1>3. \A x \in set : \E r \in Own(pend, o) :
        x = [op |-> r.op, key |-> r.key, state |-> "ambiguous", epoch |-> r.epoch]
  <2> SUFFICES ASSUME NEW r \in Own(pend, o)
               PROVE  [r EXCEPT !.state = "ambiguous"]
                        = [op |-> r.op, key |-> r.key, state |-> "ambiguous", epoch |-> r.epoch]
    OBVIOUS
  <2> QED
    BY <1>2, AmbiguousRecord
<1>4. \A x \in set : x \in Record /\ x.op = o /\ x.state = "ambiguous" /\ x.epoch = 0
  BY <1>2, <1>3 DEF Record
<1>5. \A r \in Own(pend, o) : \E x \in set : x.key = r.key
  <2> SUFFICES ASSUME NEW r \in Own(pend, o) PROVE [r EXCEPT !.state = "ambiguous"].key = r.key
    OBVIOUS
  <2> QED
    BY <1>2, AmbiguousRecord
<1> HIDE DEF set
<1>6. s.epoch = pend.epoch /\ s.records = (pend.records \ Own(pend, o)) \cup set
  BY <1>1
<1>7. s \in [epoch : Nat, records : SUBSET Record]
  BY <1>1, <1>4, PendingTyped
<1>8. \A r \in s.records : (r.state = "committed" <=> r.epoch # 0) /\ r.epoch <= s.epoch
  BY <1>4, <1>6, PendingTyped
<1> QED
  BY <1>4, <1>5, <1>6, <1>7, <1>8

\* settleFailed drops the write's records; a sync that settles drops those it covers.
LEMMA RefusedRecords ==
  ASSUME TypeOK, NEW o \in Op, NEW s, s = SettleFailed(pend, o)
  PROVE  /\ s.epoch = pend.epoch /\ s.records = {r \in pend.records : r.op # o}
         /\ s \in [epoch : Nat, records : SUBSET Record]
  BY PendingTyped DEF SettleFailed

\* settleSynced drops the committed records that the sync covers.
LEMMA SyncedRecords ==
  ASSUME TypeOK, NEW r, NEW e, NEW s, s = AfterSync(pend, r, e)
  PROVE  /\ s.epoch = pend.epoch /\ s.records = {x \in pend.records : ~Synced(x, r, e)}
         /\ s \in [epoch : Nat, records : SUBSET Record]
  BY PendingTyped DEF AfterSync

\* What a page, a reset or an opening leaves of a replica is one.
LEMMA ReplicaTyped ==
  ASSUME NEW x \in Mirror, NEW c \in {"none", "empty", "bootstrapping", "complete"}
  PROVE  /\ [x EXCEPT !.coverage = c] \in Mirror
         /\ \A k \in Key, n \in Nat : [x EXCEPT !.copy[k] = n, !.coverage = c] \in Mirror
         /\ \A f \in [Key -> Nat] : [x EXCEPT !.copy = f, !.coverage = c] \in Mirror
         /\ Emptied(x.gen + 1, c) \in Mirror
<1>1. /\ x = [gen |-> x.gen, coverage |-> x.coverage, copy |-> x.copy]
      /\ x.gen \in Nat \ {0} /\ x.copy \in [Key -> Nat]
  BY DEF Mirror
<1>2. [x EXCEPT !.coverage = c] \in Mirror
  <2>1. [x EXCEPT !.coverage = c] = [gen |-> x.gen, coverage |-> c, copy |-> x.copy]
    BY <1>1
  <2> QED
    BY <1>1, <2>1 DEF Mirror
<1>3. ASSUME NEW f \in [Key -> Nat], NEW y, y = [x EXCEPT !.copy = f, !.coverage = c]
      PROVE  y \in Mirror
  <2>1. y = [gen |-> x.gen, coverage |-> c, copy |-> f]
    BY <1>3 DEF Mirror
  <2> QED
    BY <1>1, <2>1 DEF Mirror
<1>4. ASSUME NEW k \in Key, NEW n \in Nat, NEW y, y = [x EXCEPT !.copy[k] = n, !.coverage = c]
      PROVE  y \in Mirror
  <2>1. y = [gen |-> x.gen, coverage |-> c, copy |-> [x.copy EXCEPT ![k] = n]]
    BY <1>4 DEF Mirror
  <2> QED
    BY <1>1, <2>1 DEF Mirror
<1>5. Emptied(x.gen + 1, c) \in Mirror
  BY <1>1 DEF Emptied, Mirror
<1> QED
  BY <1>2, <1>3, <1>4, <1>5

\* The deployment is fixed.
LEMMA SetupStays ==
  ASSUME [Next]_vars
  PROVE  setup' = setup
<1>1. ASSUME UNCHANGED setup PROVE setup' = setup
  BY <1>1
<1>2. ASSUME NEW o \in Op, BeginWrite(o) \/ Land(o) \/ WriteCommitted(o) \/ WriteFailed(o)
             \/ WriteAmbiguous(o) \/ SettleLost(o)
      PROVE  setup' = setup
  BY <1>1, <1>2 DEF BeginWrite, node, disk, memory, Land, WriteCommitted, WriteFailed,
     WriteAmbiguous, SettleLost
<1>3. ASSUME NEW p \in Proc, Open(p) \/ SyncStart(p) \/ SyncLease(p) \/ SyncRefused(p)
             \/ SyncLastPage(p) \/ NodeReset(p) \/ WriteFence(p) \/ SyncSettle(p)
             \/ SyncFails(p) \/ ReadRefresh(p) \/ ReadCheck(p) \/ ReadEnd(p) \/ Purge(p)
             \/ ClearPrefix(p) \/ ClearPending(p) \/ Crash(p) \/ Bind(p)
      PROVE  setup' = setup
  BY <1>1, <1>3 DEF Open, node, SyncStart, disk, SyncLease, SyncRefused, SyncLastPage,
     NodeReset, memory, WriteFence, SyncSettle, SyncFails, ReadRefresh, ReadCheck, ReadEnd,
     Purge, ClearPrefix, ClearPending, Crash, Bind
<1>4. ASSUME NEW p \in Proc, NEW k \in Key, SyncPage(p, k) \/ ReadStatus(p, k)
      PROVE  setup' = setup
  BY <1>1, <1>4 DEF SyncPage, node, memory, ReadStatus, disk
<1>5. ASSUME NEW r \in Replica, LeaseExpires(r) PROVE setup' = setup
  BY <1>1, <1>5 DEF LeaseExpires, node, memory
<1> QED
  BY <1>1, <1>2, <1>3, <1>4, <1>5 DEF Next, WriteStep, SyncStep, ReadStep, LifeStep, vars,
     node, disk, memory

\* Every step of the controllers, the node and the faults keeps the types.
LEMMA TypeOKStep ==
  ASSUME TypeOK, [Next]_vars
  PROVE  TypeOK'
<1>1. ASSUME UNCHANGED <<setup, landings, server, landed, op, pend, rep, fence, lease, mode,
             opened, sync, proof, read, faults, surrendered, erased>>
      PROVE  TypeOK'
  BY <1>1 DEF TypeOK, Record, Mirror, Sync, Read, Durable
<1>2. ASSUME NEW o \in Op, BeginWrite(o) PROVE TypeOK'
  <2>1. /\ pend' \in [epoch : Nat, records : SUBSET Record] /\ pend.epoch <= pend'.epoch
        /\ \A r \in pend'.records :
             (r.state = "committed" <=> r.epoch # 0) /\ r.epoch <= pend'.epoch
    BY <1>2, PendingTyped, BegunRecords DEF BeginWrite
  <2> QED
    BY <1>2, <2>1 DEF BeginWrite, node, disk, memory, TypeOK, Sync, Durable
<1>3. ASSUME NEW o \in Op, Land(o) PROVE TypeOK'
  BY <1>3, Deployment, PendingTyped DEF Land, OpKeys, disk, memory, TypeOK, Record, Mirror,
     Sync, Read, Durable
<1>4. ASSUME NEW o \in Op, WriteCommitted(o) PROVE TypeOK'
  <2>1. /\ pend' \in [epoch : Nat, records : SUBSET Record] /\ pend.epoch <= pend'.epoch
        /\ \A r \in pend'.records :
             (r.state = "committed" <=> r.epoch # 0) /\ r.epoch <= pend'.epoch
    BY <1>4, PendingTyped, CommittedRecords DEF WriteCommitted
  <2> QED
    BY <1>4, <2>1 DEF WriteCommitted, node, disk, memory, TypeOK, Sync, Durable
<1>5. ASSUME NEW o \in Op, WriteFailed(o) PROVE TypeOK'
  <2>1. /\ pend' \in [epoch : Nat, records : SUBSET Record] /\ pend.epoch <= pend'.epoch
        /\ \A r \in pend'.records :
             (r.state = "committed" <=> r.epoch # 0) /\ r.epoch <= pend'.epoch
    BY <1>5, PendingTyped, RefusedRecords DEF WriteFailed
  <2> QED
    BY <1>5, <2>1 DEF WriteFailed, node, disk, memory, TypeOK, Sync, Durable
<1>6. ASSUME NEW o \in Op, WriteAmbiguous(o) PROVE TypeOK'
  <2>1. /\ pend' \in [epoch : Nat, records : SUBSET Record] /\ pend.epoch <= pend'.epoch
        /\ \A r \in pend'.records :
             (r.state = "committed" <=> r.epoch # 0) /\ r.epoch <= pend'.epoch
    BY <1>6, PendingTyped, AmbiguousRecords DEF WriteAmbiguous
  <2> QED
    BY <1>6, <2>1 DEF WriteAmbiguous, node, disk, memory, TypeOK, Sync, Durable
<1>7. ASSUME NEW o \in Op, SettleLost(o) PROVE TypeOK'
  BY <1>7, Deployment, PendingTyped DEF SettleLost, MaxFaults, node, disk, memory, TypeOK,
     Record, Mirror, Sync, Read, Durable
<1>8. ASSUME NEW p \in Proc, Open(p) PROVE TypeOK'
  <2> DEFINE c == IF rep[Uses[p]].coverage = "none" THEN "empty" ELSE rep[Uses[p]].coverage
           y == [rep[Uses[p]] EXCEPT !.coverage = c]
  <2>1. rep[Uses[p]] \in Mirror /\ rep[Uses[p]].gen \in Nat
    BY Deployment DEF TypeOK, Mirror
  <2>2. c \in {"none", "empty", "bootstrapping", "complete"}
    BY <2>1 DEF Mirror
  <2> HIDE DEF c
  <2>3. y \in Mirror
    BY <2>1, <2>2, ReplicaTyped
  <2> USE DEF c
  <2>4. rep' = [rep EXCEPT ![Uses[p]] = y]
    BY <1>8, <2>1 DEF Open, TypeOK, Mirror
  <2> HIDE DEF y
  <2>5. rep' \in [Replica -> Mirror]
    BY <2>3, <2>4 DEF TypeOK
  <2> QED
    BY <1>8, <2>1, <2>2, <2>3, <2>4, <2>5, PendingTyped DEF Open, node, TypeOK, Durable
<1>9. ASSUME NEW p \in Proc, SyncStart(p) PROVE TypeOK'
  BY <1>9, Deployment, PendingTyped DEF SyncStart, node, disk, TypeOK, Record, Mirror, Sync,
     Read, Durable
<1>10. ASSUME NEW p \in Proc, SyncLease(p) PROVE TypeOK'
  <2>1. sync' \in [Proc -> Sync] /\ \A q \in Proc : sync'[q].epoch = sync[q].epoch
    BY <1>10 DEF SyncLease, TypeOK, Sync
  <2>2. lease' \in [Replica -> Proc \cup {NoProc}]
    BY <1>10 DEF SyncLease, TypeOK
  <2> QED
    BY <1>10, <2>1, <2>2, PendingTyped DEF SyncLease, node, TypeOK, Durable
<1>11. ASSUME NEW p \in Proc, SyncRefused(p) PROVE TypeOK'
  BY <1>11, Deployment, PendingTyped DEF SyncRefused, HandleLive, Uses, HoldsLease, NoSync,
     node, disk, TypeOK, Record, Mirror, Sync, Read, Durable
<1>12. ASSUME NEW p \in Proc, NEW k \in Key, SyncPage(p, k) PROVE TypeOK'
  <2> DEFINE c == IF rep[Uses[p]].coverage = "complete" THEN "complete" ELSE "bootstrapping"
           y == [rep[Uses[p]] EXCEPT !.copy[k] = server[k], !.coverage = c]
  <2>1. rep[Uses[p]] \in Mirror /\ rep[Uses[p]].gen \in Nat
    BY Deployment DEF TypeOK, Mirror
  <2>2. c \in {"none", "empty", "bootstrapping", "complete"} /\ server[k] \in Nat
    BY DEF TypeOK
  <2> HIDE DEF c
  <2>3. y \in Mirror
    BY <2>1, <2>2, ReplicaTyped
  <2> USE DEF c
  <2>4. rep' = [rep EXCEPT ![Uses[p]] = y]
    BY <1>12, <2>1 DEF SyncPage, TypeOK, Mirror
  <2> HIDE DEF y
  <2>5. rep' \in [Replica -> Mirror]
    BY <2>3, <2>4 DEF TypeOK
  <2> QED
    BY <1>12, <2>1, <2>2, <2>3, <2>4, <2>5, PendingTyped
    DEF SyncPage, node, memory, TypeOK, Durable
<1>13. ASSUME NEW p \in Proc, SyncLastPage(p) PROVE TypeOK'
  <2> DEFINE f == [k \in Key |-> IF k \in Covers[Uses[p]] THEN server[k] ELSE rep[Uses[p]].copy[k]]
           y == [rep[Uses[p]] EXCEPT !.copy = f, !.coverage = "complete"]
  <2>1. rep[Uses[p]] \in Mirror /\ rep[Uses[p]].gen \in Nat
    BY Deployment DEF TypeOK, Mirror
  <2>2. f \in [Key -> Nat]
    BY <2>1 DEF TypeOK, Mirror
  <2> HIDE DEF f
  <2>3. y \in Mirror
    BY <2>1, <2>2, ReplicaTyped
  <2> USE DEF f
  <2>4. rep' = [rep EXCEPT ![Uses[p]] = y]
    BY <1>13, <2>1 DEF SyncLastPage, TypeOK, Mirror
  <2> HIDE DEF y
  <2>5. rep' \in [Replica -> Mirror]
    BY <2>3, <2>4 DEF TypeOK
  <2>6. sync' \in [Proc -> Sync] /\ \A q \in Proc : sync'[q].epoch = sync[q].epoch
    BY <1>13 DEF SyncLastPage, TypeOK, Sync
  <2>7. lease' \in [Replica -> Proc \cup {NoProc}]
    BY <1>13 DEF SyncLastPage, TypeOK
  <2> QED
    BY <1>13, <2>1, <2>2, <2>3, <2>4, <2>5, <2>6, <2>7, PendingTyped
    DEF SyncLastPage, node, TypeOK, Durable
<1>14. ASSUME NEW p \in Proc, NodeReset(p) PROVE TypeOK'
  BY <1>14, Deployment, PendingTyped DEF NodeReset, Uses, HoldsLease, MaxGen, Emptied, node,
     memory, TypeOK, Record, Mirror, Sync, Read, Durable
<1>15. ASSUME NEW p \in Proc, WriteFence(p) PROVE TypeOK'
  BY <1>15, Deployment, PendingTyped DEF WriteFence, Uses, NewFence, node, TypeOK, Record,
     Mirror, Sync, Read, Durable
<1>16. ASSUME NEW p \in Proc, SyncSettle(p) PROVE TypeOK'
  <2>1. /\ pend' \in [epoch : Nat, records : SUBSET Record] /\ pend.epoch = pend'.epoch
        /\ pend'.records \subseteq pend.records
    BY <1>16, SyncedRecords DEF SyncSettle
  <2>2. sync' \in [Proc -> Sync] /\ \A q \in Proc : sync'[q].epoch \in {0, sync[q].epoch}
    BY <1>16 DEF SyncSettle, NoSync, TypeOK, Sync
  <2> QED
    BY <1>16, <2>1, <2>2, PendingTyped DEF SyncSettle, node, disk, TypeOK, Sync, Durable
<1>17. ASSUME NEW p \in Proc, SyncFails(p) PROVE TypeOK'
  BY <1>17, Deployment, PendingTyped DEF SyncFails, MaxFaults, HoldsLease, Uses, NoSync, node,
     TypeOK, Record, Mirror, Sync, Read, Durable
<1>18. ASSUME NEW p \in Proc, NEW k \in Key, ReadStatus(p, k) PROVE TypeOK'
  BY <1>18, Deployment, PendingTyped DEF ReadStatus, Uses, HandleLive, Covers, node, disk,
     TypeOK, Record, Mirror, Sync, Read, Durable
<1>19. ASSUME NEW p \in Proc, ReadRefresh(p) PROVE TypeOK'
  <2>1. read[p] \in Read /\ fence[Uses[p]] \in Nat
    BY Deployment DEF TypeOK, Read
  <2>2. \A y : y = [read[p] EXCEPT !.fence = fence[Uses[p]], !.complete = (rep[Uses[p]].coverage = "complete")] => y \in Read
    BY <2>1 DEF Read
  <2>3. read' \in [Proc -> Read]
    BY <1>19, <2>2 DEF ReadRefresh, TypeOK, Read
  <2> QED
    BY <1>19, <2>1, <2>2, <2>3, PendingTyped DEF ReadRefresh, node, disk, TypeOK, Durable
<1>20. ASSUME NEW p \in Proc, ReadCheck(p) PROVE TypeOK'
  <2>1. read' \in [Proc -> Read]
    BY <1>20 DEF ReadCheck, TypeOK, Read
  <2> QED
    BY <1>20, <2>1, PendingTyped DEF ReadCheck, node, disk, TypeOK, Durable
<1>21. ASSUME NEW p \in Proc, ReadEnd(p) PROVE TypeOK'
  BY <1>21, Deployment, PendingTyped DEF ReadEnd, NoRead, node, disk, TypeOK, Record, Mirror,
     Sync, Read, Durable
<1>22. ASSUME NEW p \in Proc, Purge(p) PROVE TypeOK'
  <2>1. rep[Uses[p]] \in Mirror
    BY Deployment DEF TypeOK, Mirror
  <2>2. rep' \in [Replica -> Mirror]
    BY <1>22, <2>1, ReplicaTyped DEF Purge, TypeOK
  <2>3. /\ fence' \in [Replica -> Nat] /\ \A r \in Replica : fence'[r] \in {0, fence[r]}
        /\ erased' \in [Replica -> Nat]
    BY <1>22, <2>1 DEF Purge, TypeOK, Mirror
  <2>4. read' \in [Proc -> Read]
    BY <1>22, ConstantsAssumption DEF Purge, TypeOK, Read, NoRead
  <2> QED
    BY <1>22, <2>1, <2>2, <2>3, <2>4, PendingTyped DEF Purge, node, TypeOK, Durable
<1>23. ASSUME NEW p \in Proc, ClearPrefix(p) PROVE TypeOK'
  <2>1. /\ pend'.epoch = pend.epoch /\ pend'.records \subseteq pend.records
        /\ pend' \in [epoch : Nat, records : SUBSET Record]
    BY <1>23, PendingTyped DEF ClearPrefix
  <2>2. surrendered' \subseteq Op
    BY <1>23, PendingTyped DEF ClearPrefix, Unsettled, TypeOK, Record
  <2> QED
    BY <1>23, <2>1, <2>2, PendingTyped DEF ClearPrefix, node, disk, memory, TypeOK, Durable
<1>24. ASSUME NEW p \in Proc, ClearPending(p) PROVE TypeOK'
  <2>1. /\ pend'.epoch = pend.epoch /\ pend'.records \subseteq pend.records
        /\ pend' \in [epoch : Nat, records : SUBSET Record]
    BY <1>24, PendingTyped DEF ClearPending
  <2>2. surrendered' \subseteq Op
    BY <1>24, PendingTyped DEF ClearPending, Unsettled, TypeOK, Record
  <2> QED
    BY <1>24, <2>1, <2>2, PendingTyped DEF ClearPending, node, disk, memory, TypeOK, Durable
<1>25. ASSUME NEW p \in Proc, Crash(p) PROVE TypeOK'
  BY <1>25, Deployment, PendingTyped DEF Crash, MaxFaults, NoSync, NoRead, Writer, Durable,
     NoPending, Unsettled, node, disk, TypeOK, Record, Mirror, Sync, Read
<1>26. ASSUME NEW p \in Proc, Bind(p) PROVE TypeOK'
  BY <1>26, Deployment, PendingTyped DEF Bind, node, disk, TypeOK, Record, Mirror, Sync, Read,
     Durable
<1>27. ASSUME NEW r \in Replica, LeaseExpires(r) PROVE TypeOK'
  BY <1>27, Deployment, PendingTyped DEF LeaseExpires, MaxFaults, node, memory, TypeOK, Record,
     Mirror, Sync, Read, Durable
<1> QED
  BY <1>1, <1>2, <1>3, <1>4, <1>5, <1>6, <1>7, <1>8, <1>9, <1>10, <1>11, <1>12, <1>13, <1>14,
     <1>15, <1>16, <1>17, <1>18, <1>19, <1>20, <1>21, <1>22, <1>23, <1>24, <1>25, <1>26, <1>27
  DEF Next, WriteStep, SyncStep, ReadStep, LifeStep, vars, node, disk, memory

\* A controller syncs only while it is up, and from the epoch it read at the start.
LEMMA QuietStep ==
  ASSUME TypeOK, Quiet, [Next]_vars
  PROVE  Quiet'
<1>1. ASSUME UNCHANGED <<setup, pend, mode, sync, proof>> PROVE Quiet'
  BY <1>1 DEF Quiet, TypeOK, Sync, NoSync, Durable
<1>2. ASSUME NEW o \in Op, Land(o) \/ SettleLost(o) PROVE Quiet'
  BY <1>1, <1>2 DEF Land, disk, memory, SettleLost, node
<1>3. ASSUME NEW p \in Proc, Open(p) \/ NodeReset(p) \/ ReadRefresh(p) \/ ReadCheck(p)
             \/ ReadEnd(p)
      PROVE  Quiet'
  BY <1>1, <1>3 DEF Open, node, NodeReset, memory, ReadRefresh, disk, ReadCheck, ReadEnd
<1>4. ASSUME NEW p \in Proc, NEW k \in Key, SyncPage(p, k) \/ ReadStatus(p, k) PROVE Quiet'
  BY <1>1, <1>4 DEF SyncPage, node, memory, ReadStatus, disk
<1>5. ASSUME NEW r \in Replica, LeaseExpires(r) PROVE Quiet'
  BY <1>1, <1>5 DEF LeaseExpires, node, memory
<1>6. ASSUME NEW o \in Op, BeginWrite(o) PROVE Quiet'
  BY <1>6, Deployment, PendingTyped DEF BeginWrite, Writer, Begin, node, disk, memory, OpKeys,
     Quiet, TypeOK, Sync, NoSync, Durable
<1>7. ASSUME NEW o \in Op, WriteCommitted(o) PROVE Quiet'
  <2>1. pend.epoch <= pend'.epoch /\ \A q \in Proc : sync[q].epoch \in Nat
    BY <1>7, CommittedRecords, PendingTyped DEF WriteCommitted, TypeOK, Sync
  <2> QED
    BY <1>7, <2>1, PendingTyped, CommittedRecords
    DEF WriteCommitted, node, disk, memory, Quiet, TypeOK
<1>8. ASSUME NEW o \in Op, WriteFailed(o) PROVE Quiet'
  BY <1>8, Deployment, PendingTyped DEF WriteFailed, SettleFailed, node, disk, memory, Quiet,
     TypeOK, Sync, NoSync, Durable
<1>9. ASSUME NEW o \in Op, WriteAmbiguous(o) PROVE Quiet'
  BY <1>9, Deployment, PendingTyped DEF WriteAmbiguous, SettleAmbiguous, node, disk, memory,
     Own, Quiet, TypeOK, Sync, NoSync, Durable
<1>10. ASSUME NEW p \in Proc, SyncStart(p) PROVE Quiet'
  BY <1>10, Deployment, PendingTyped DEF SyncStart, node, disk, Quiet, TypeOK, Sync, NoSync,
     Durable
<1>11. ASSUME NEW p \in Proc, SyncLease(p) PROVE Quiet'
  BY <1>11, Deployment, PendingTyped DEF SyncLease, HandleLive, Uses, node, Quiet, TypeOK,
     Sync, NoSync, Durable
<1>12. ASSUME NEW p \in Proc, SyncRefused(p) PROVE Quiet'
  BY <1>12, Deployment, PendingTyped DEF SyncRefused, HandleLive, Uses, HoldsLease, NoSync,
     node, disk, Quiet, TypeOK, Sync, Durable
<1>13. ASSUME NEW p \in Proc, SyncLastPage(p) PROVE Quiet'
  BY <1>13, Deployment, PendingTyped DEF SyncLastPage, Uses, HoldsLease, Covers, node, Quiet,
     TypeOK, Sync, NoSync, Durable
<1>14. ASSUME NEW p \in Proc, WriteFence(p) PROVE Quiet'
  BY <1>14, Deployment, PendingTyped DEF WriteFence, Uses, NewFence, node, Quiet, TypeOK, Sync,
     NoSync, Durable
<1>15. ASSUME NEW p \in Proc, SyncSettle(p) PROVE Quiet'
  BY <1>15, Deployment, PendingTyped DEF SyncSettle, AfterSync, Uses, NoSync, node, disk,
     Synced, Covers, Quiet, TypeOK, Sync, Durable
<1>16. ASSUME NEW p \in Proc, SyncFails(p) PROVE Quiet'
  BY <1>16, Deployment, PendingTyped DEF SyncFails, MaxFaults, HoldsLease, Uses, NoSync, node,
     Quiet, TypeOK, Sync, Durable
<1>17. ASSUME NEW p \in Proc, Purge(p) PROVE Quiet'
  BY <1>17, Deployment, PendingTyped DEF Purge, Uses, MaxGen, Emptied, NoRead, node, Quiet,
     TypeOK, Sync, NoSync, Durable
<1>18. ASSUME NEW p \in Proc, ClearPrefix(p) PROVE Quiet'
  BY <1>18, Deployment, PendingTyped DEF ClearPrefix, Covers, Uses, Unsettled, node, disk,
     Quiet, TypeOK, Sync, NoSync, Durable
<1>19. ASSUME NEW p \in Proc, ClearPending(p) PROVE Quiet'
  BY <1>19, Deployment, PendingTyped DEF ClearPending, Unsettled, node, disk, memory, Quiet,
     TypeOK, Sync, NoSync, Durable
<1>20. ASSUME NEW p \in Proc, Crash(p) PROVE Quiet'
  BY <1>20, Deployment, PendingTyped DEF Crash, MaxFaults, NoSync, NoRead, Writer, Durable,
     NoPending, Unsettled, node, disk, Quiet, TypeOK, Sync
<1>21. ASSUME NEW p \in Proc, Bind(p) PROVE Quiet'
  BY <1>21, Deployment, PendingTyped DEF Bind, node, disk, Quiet, TypeOK, Sync, NoSync, Durable
<1> QED
  BY <1>1, <1>2, <1>3, <1>4, <1>5, <1>6, <1>7, <1>8, <1>9, <1>10, <1>11, <1>12, <1>13, <1>14,
     <1>15, <1>16, <1>17, <1>18, <1>19, <1>20, <1>21
  DEF Next, WriteStep, SyncStep, ReadStep, LifeStep, vars, node, disk, memory

\* The node's entries only move forward, to the write it applies.
LEMMA NewestStep ==
  ASSUME TypeOK, NodeIsNewest, [Next]_vars
  PROVE  NodeIsNewest'
<1>1. ASSUME UNCHANGED <<setup, landings, server, landed>> PROVE NodeIsNewest'
  BY <1>1 DEF NodeIsNewest, TypeOK, OpKeys, Durable
<1>2. ASSUME NEW o \in Op, BeginWrite(o) \/ WriteCommitted(o) \/ WriteFailed(o)
             \/ WriteAmbiguous(o) \/ SettleLost(o)
      PROVE  NodeIsNewest'
  BY <1>1, <1>2 DEF BeginWrite, node, disk, memory, WriteCommitted, WriteFailed,
     WriteAmbiguous, SettleLost
<1>3. ASSUME NEW p \in Proc, Open(p) \/ SyncStart(p) \/ SyncLease(p) \/ SyncRefused(p)
             \/ SyncLastPage(p) \/ NodeReset(p) \/ WriteFence(p) \/ SyncSettle(p)
             \/ SyncFails(p) \/ ReadRefresh(p) \/ ReadCheck(p) \/ ReadEnd(p) \/ Purge(p)
             \/ ClearPrefix(p) \/ ClearPending(p) \/ Crash(p) \/ Bind(p)
      PROVE  NodeIsNewest'
  BY <1>1, <1>3 DEF Open, node, SyncStart, disk, SyncLease, SyncRefused, SyncLastPage,
     NodeReset, memory, WriteFence, SyncSettle, SyncFails, ReadRefresh, ReadCheck, ReadEnd,
     Purge, ClearPrefix, ClearPending, Crash, Bind
<1>4. ASSUME NEW p \in Proc, NEW k \in Key, SyncPage(p, k) \/ ReadStatus(p, k)
      PROVE  NodeIsNewest'
  BY <1>1, <1>4 DEF SyncPage, node, memory, ReadStatus, disk
<1>5. ASSUME NEW r \in Replica, LeaseExpires(r) PROVE NodeIsNewest'
  BY <1>1, <1>5 DEF LeaseExpires, node, memory
<1>6. ASSUME NEW o \in Op, Land(o) PROVE NodeIsNewest'
  BY <1>6, Deployment, PendingTyped DEF Land, OpKeys, disk, memory, NodeIsNewest, TypeOK,
     Durable
<1> QED
  BY <1>1, <1>2, <1>3, <1>4, <1>5, <1>6 DEF Next, WriteStep, SyncStep, ReadStep, LifeStep,
     vars, node, disk, memory

\* A write's records stay until it is settled or they are cleared: begin comes before the
\* dispatch, and only the write's own settle or a clear takes an unsettled one away.
LEMMA RecordedStep ==
  ASSUME TypeOK, Quiet, WritesRecorded, [Next]_vars
  PROVE  WritesRecorded'
<1>1. ASSUME UNCHANGED <<setup, landed, op, pend, surrendered>> PROVE WritesRecorded'
  BY <1>1 DEF WritesRecorded, TypeOK, Quiet, Record, OpKeys, Unanswered, Sync, Durable, NoSync
<1>2. ASSUME NEW p \in Proc, Open(p) \/ SyncStart(p) \/ SyncLease(p) \/ SyncRefused(p)
             \/ SyncLastPage(p) \/ NodeReset(p) \/ WriteFence(p) \/ SyncFails(p)
             \/ ReadRefresh(p) \/ ReadCheck(p) \/ ReadEnd(p) \/ Purge(p) \/ Bind(p)
      PROVE  WritesRecorded'
  BY <1>1, <1>2 DEF Open, node, SyncStart, disk, SyncLease, SyncRefused, SyncLastPage,
     NodeReset, memory, WriteFence, SyncFails, ReadRefresh, ReadCheck, ReadEnd, Purge, Bind
<1>3. ASSUME NEW p \in Proc, NEW k \in Key, SyncPage(p, k) \/ ReadStatus(p, k)
      PROVE  WritesRecorded'
  BY <1>1, <1>3 DEF SyncPage, node, memory, ReadStatus, disk
<1>4. ASSUME NEW r \in Replica, LeaseExpires(r) PROVE WritesRecorded'
  BY <1>1, <1>4 DEF LeaseExpires, node, memory
<1>5. ASSUME NEW o \in Op, BeginWrite(o) PROVE WritesRecorded'
  <2> SUFFICES ASSUME NEW w \in Op
               PROVE  /\ op'[w] = "new" => landed'[w] = 0
                      /\ OpKeys'[w] = {} => op'[w] = "done" /\ landed'[w] = 0
                      /\ op'[w] = "sent" /\ w \notin surrendered' =>
                           \A k \in OpKeys'[w] : \E r \in pend'.records :
                             r.op = w /\ r.key = k /\ r.state = "in_flight"
                      /\ op'[w] = "unknown" /\ w \notin surrendered' =>
                           \A k \in OpKeys'[w] : Unanswered(w, k)'
                      /\ \A r \in pend'.records : r.op = w /\ r.state = "committed" => op'[w] = "done"
    BY DEF WritesRecorded
  <2>1. /\ \A r \in pend'.records : r \in pend.records \/ (r.op = o /\ r.state = "in_flight")
        /\ pend.records \subseteq pend'.records
        /\ \A k \in OpKeys[o] : \E r \in pend'.records : r.op = o /\ r.key = k /\ r.state = "in_flight"
    <3>1. pend'.records = pend.records \cup
            {[op |-> o, key |-> k, state |-> "in_flight", epoch |-> 0] : k \in OpKeys[o]}
      BY <1>5, BegunRecords DEF BeginWrite
    <3>2. ASSUME NEW k \in OpKeys[o]
          PROVE  \E r \in pend'.records : r.op = o /\ r.key = k /\ r.state = "in_flight"
      <4> DEFINE r == [op |-> o, key |-> k, state |-> "in_flight", epoch |-> 0]
      <4>1. r \in pend'.records
        BY <3>1
      <4> QED
        BY <4>1
    <3>3. \A r \in pend'.records : r \in pend.records \/ (r.op = o /\ r.state = "in_flight")
      BY <3>1
    <3> QED
      BY <3>1, <3>2, <3>3
  <2>2. CASE w = o
    BY <1>5, <2>1, <2>2 DEF BeginWrite, node, disk, memory, WritesRecorded, TypeOK, OpKeys
  <2>3. CASE w # o
    BY <1>5, <2>1, <2>3 DEF BeginWrite, node, disk, memory, WritesRecorded, TypeOK, OpKeys,
       Unanswered
  <2> QED
    BY <2>2, <2>3
<1>6. ASSUME NEW o \in Op, Land(o) PROVE WritesRecorded'
  BY <1>6, Deployment, PendingTyped DEF Land, OpKeys, disk, memory, WritesRecorded, TypeOK,
     Quiet, Record, Unanswered, Sync, Durable, NoSync
<1>7. ASSUME NEW o \in Op, WriteCommitted(o) PROVE WritesRecorded'
  <2> SUFFICES ASSUME NEW w \in Op
               PROVE  /\ op'[w] = "new" => landed'[w] = 0
                      /\ OpKeys'[w] = {} => op'[w] = "done" /\ landed'[w] = 0
                      /\ op'[w] = "sent" /\ w \notin surrendered' =>
                           \A k \in OpKeys'[w] : \E r \in pend'.records :
                             r.op = w /\ r.key = k /\ r.state = "in_flight"
                      /\ op'[w] = "unknown" /\ w \notin surrendered' =>
                           \A k \in OpKeys'[w] : Unanswered(w, k)'
                      /\ \A r \in pend'.records : r.op = w /\ r.state = "committed" => op'[w] = "done"
    BY DEF WritesRecorded
  <2>1. /\ \A r \in pend'.records : r \in pend.records \/ r.op = o
        /\ \A r \in pend.records : r.op # o => r \in pend'.records
    BY <1>7, CommittedRecords DEF WriteCommitted, Own
  <2>2. CASE w = o
    BY <1>7, <2>1, <2>2 DEF WriteCommitted, node, disk, memory, WritesRecorded, TypeOK, OpKeys
  <2>3. CASE w # o
    BY <1>7, <2>1, <2>3 DEF WriteCommitted, node, disk, memory, WritesRecorded, TypeOK, OpKeys,
       Unanswered
  <2> QED
    BY <2>2, <2>3
<1>8. ASSUME NEW o \in Op, WriteFailed(o) PROVE WritesRecorded'
  BY <1>8, Deployment, PendingTyped DEF WriteFailed, SettleFailed, node, disk, memory,
     WritesRecorded, TypeOK, Quiet, Record, OpKeys, Unanswered, Sync, Durable, NoSync
<1>9. ASSUME NEW o \in Op, WriteAmbiguous(o) PROVE WritesRecorded'
  <2> SUFFICES ASSUME NEW w \in Op
               PROVE  /\ op'[w] = "new" => landed'[w] = 0
                      /\ OpKeys'[w] = {} => op'[w] = "done" /\ landed'[w] = 0
                      /\ op'[w] = "sent" /\ w \notin surrendered' =>
                           \A k \in OpKeys'[w] : \E r \in pend'.records :
                             r.op = w /\ r.key = k /\ r.state = "in_flight"
                      /\ op'[w] = "unknown" /\ w \notin surrendered' =>
                           \A k \in OpKeys'[w] : Unanswered(w, k)'
                      /\ \A r \in pend'.records : r.op = w /\ r.state = "committed" => op'[w] = "done"
    BY DEF WritesRecorded
  <2>1. /\ \A r \in pend'.records : r \in pend.records \/ (r.op = o /\ r.state = "ambiguous")
        /\ \A r \in pend.records : r.op # o => r \in pend'.records
        /\ \A r \in pend.records : r.op = o /\ r.state = "in_flight" => \E x \in pend'.records :
             x.op = o /\ x.key = r.key /\ x.state = "ambiguous"
    BY <1>9, AmbiguousRecords DEF WriteAmbiguous, Own
  <2>2. CASE w = o
    BY <1>9, <2>1, <2>2 DEF WriteAmbiguous, node, disk, memory, WritesRecorded, TypeOK, OpKeys,
       Unanswered
  <2>3. CASE w # o
    BY <1>9, <2>1, <2>3 DEF WriteAmbiguous, node, disk, memory, WritesRecorded, TypeOK, OpKeys,
       Unanswered
  <2> QED
    BY <2>2, <2>3
<1>10. ASSUME NEW o \in Op, SettleLost(o) PROVE WritesRecorded'
  BY <1>10, Deployment, PendingTyped DEF SettleLost, MaxFaults, node, disk, memory,
     WritesRecorded, TypeOK, Quiet, Record, OpKeys, Unanswered, Sync, Durable, NoSync
<1>11. ASSUME NEW p \in Proc, SyncSettle(p) PROVE WritesRecorded'
  BY <1>11, Deployment, PendingTyped DEF SyncSettle, AfterSync, Uses, NoSync, node, disk,
     Synced, Covers, WritesRecorded, TypeOK, Quiet, Record, OpKeys, Unanswered, Sync, Durable
<1>12. ASSUME NEW p \in Proc, ClearPrefix(p) PROVE WritesRecorded'
  BY <1>12, Deployment, PendingTyped DEF ClearPrefix, Covers, Uses, Unsettled, node, disk,
     WritesRecorded, TypeOK, Quiet, Record, OpKeys, Unanswered, Sync, Durable, NoSync
<1>13. ASSUME NEW p \in Proc, ClearPending(p) PROVE WritesRecorded'
  BY <1>13, Deployment, PendingTyped DEF ClearPending, Unsettled, node, disk, memory,
     WritesRecorded, TypeOK, Quiet, Record, OpKeys, Unanswered, Sync, Durable, NoSync
<1>14. ASSUME NEW p \in Proc, Crash(p) PROVE WritesRecorded'
  BY <1>14, Deployment, PendingTyped DEF Crash, MaxFaults, NoSync, NoRead, Writer, Durable,
     NoPending, Unsettled, node, disk, WritesRecorded, TypeOK, Quiet, Record, OpKeys,
     Unanswered, Sync
<1> QED
  BY <1>1, <1>2, <1>3, <1>4, <1>5, <1>6, <1>7, <1>8, <1>9, <1>10, <1>11, <1>12, <1>13, <1>14
  DEF Next, WriteStep, SyncStep, ReadStep, LifeStep, vars, node, disk, memory

\* A read is of a key under its prefix, and remembers writes that had landed.
LEMMA ReadsSoundStep ==
  ASSUME TypeOK, ReadsSound, [Next]_vars
  PROVE  ReadsSound'
<1>1. ASSUME UNCHANGED <<setup, landed, read>> PROVE ReadsSound'
  BY <1>1 DEF ReadsSound, TypeOK, Read, Covers, Uses, Durable
<1>2. ASSUME NEW o \in Op, BeginWrite(o) \/ WriteCommitted(o) \/ WriteFailed(o)
             \/ WriteAmbiguous(o) \/ SettleLost(o)
      PROVE  ReadsSound'
  BY <1>1, <1>2 DEF BeginWrite, node, disk, memory, WriteCommitted, WriteFailed,
     WriteAmbiguous, SettleLost
<1>3. ASSUME NEW p \in Proc, Open(p) \/ SyncStart(p) \/ SyncLease(p) \/ SyncRefused(p)
             \/ SyncLastPage(p) \/ NodeReset(p) \/ WriteFence(p) \/ SyncSettle(p)
             \/ SyncFails(p) \/ ClearPrefix(p) \/ ClearPending(p) \/ Bind(p)
      PROVE  ReadsSound'
  BY <1>1, <1>3 DEF Open, node, SyncStart, disk, SyncLease, SyncRefused, SyncLastPage,
     NodeReset, memory, WriteFence, SyncSettle, SyncFails, ClearPrefix, ClearPending, Bind
<1>4. ASSUME NEW p \in Proc, NEW k \in Key, SyncPage(p, k) PROVE ReadsSound'
  BY <1>1, <1>4 DEF SyncPage, node, memory
<1>5. ASSUME NEW r \in Replica, LeaseExpires(r) PROVE ReadsSound'
  BY <1>1, <1>5 DEF LeaseExpires, node, memory
<1>6. ASSUME NEW o \in Op, Land(o) PROVE ReadsSound'
  BY <1>6, Deployment, PendingTyped DEF Land, OpKeys, disk, memory, ReadsSound, TypeOK, Read,
     Covers, Uses, Durable
<1>7. ASSUME NEW p \in Proc, NEW k \in Key, ReadStatus(p, k) PROVE ReadsSound'
  BY <1>7, Deployment, PendingTyped DEF ReadStatus, Uses, HandleLive, Covers, node, disk,
     ReadsSound, TypeOK, Read, Durable
<1>8. ASSUME NEW p \in Proc, ReadRefresh(p) PROVE ReadsSound'
  BY <1>8, Deployment, PendingTyped DEF ReadRefresh, HandleLive, Uses, node, disk, ReadsSound,
     TypeOK, Read, Covers, Durable
<1>9. ASSUME NEW p \in Proc, ReadCheck(p) PROVE ReadsSound'
  BY <1>9, Deployment, PendingTyped DEF ReadCheck, UsesReplica, node, disk, Durable,
     ReadsSound, TypeOK, Read, Covers, Uses
<1>10. ASSUME NEW p \in Proc, ReadEnd(p) PROVE ReadsSound'
  BY <1>10, Deployment, PendingTyped DEF ReadEnd, NoRead, node, disk, ReadsSound, TypeOK, Read,
     Covers, Uses, Durable
<1>11. ASSUME NEW p \in Proc, Purge(p) PROVE ReadsSound'
  BY <1>11, Deployment, PendingTyped DEF Purge, Uses, MaxGen, Emptied, NoRead, node,
     ReadsSound, TypeOK, Read, Covers, Durable
<1>12. ASSUME NEW p \in Proc, Crash(p) PROVE ReadsSound'
  BY <1>12, Deployment, PendingTyped DEF Crash, MaxFaults, NoSync, NoRead, Writer, Durable,
     NoPending, Unsettled, node, disk, ReadsSound, TypeOK, Read, Covers, Uses
<1> QED
  BY <1>1, <1>2, <1>3, <1>4, <1>5, <1>6, <1>7, <1>8, <1>9, <1>10, <1>11, <1>12
  DEF Next, WriteStep, SyncStep, ReadStep, LifeStep, vars, node, disk, memory

\* A write becomes settled only by settleCommitted with its own record in flight.
LEMMA SettledStep ==
  ASSUME TypeOK, WritesRecorded, [Next]_vars
  PROVE  \A x \in Op : Settled(x)' =>
              /\ landed'[x] = landed[x]
              /\ Settled(x) \/ (WriteCommitted(x) /\ Own(pend, x) # {})
<1> DEFINE Goal == \A x \in Op : Settled(x)' =>
             /\ landed'[x] = landed[x]
             /\ Settled(x) \/ (WriteCommitted(x) /\ Own(pend, x) # {})
<1>1. ASSUME UNCHANGED <<setup, landings, landed, op, pend, surrendered>> PROVE Goal
  BY <1>1 DEF Settled, TypeOK, WritesRecorded, Durable, OpKeys, Unanswered
<1>2. ASSUME NEW p \in Proc, Open(p) \/ SyncStart(p) \/ SyncLease(p) \/ SyncRefused(p)
             \/ SyncLastPage(p) \/ NodeReset(p) \/ WriteFence(p) \/ SyncFails(p)
             \/ ReadRefresh(p) \/ ReadCheck(p) \/ ReadEnd(p) \/ Purge(p) \/ Bind(p)
      PROVE  Goal
  BY <1>1, <1>2 DEF Open, node, SyncStart, disk, SyncLease, SyncRefused, SyncLastPage,
     NodeReset, memory, WriteFence, SyncFails, ReadRefresh, ReadCheck, ReadEnd, Purge, Bind
<1>3. ASSUME NEW p \in Proc, NEW k \in Key, SyncPage(p, k) \/ ReadStatus(p, k) PROVE Goal
  BY <1>1, <1>3 DEF SyncPage, node, memory, ReadStatus, disk
<1>4. ASSUME NEW r \in Replica, LeaseExpires(r) PROVE Goal
  BY <1>1, <1>4 DEF LeaseExpires, node, memory
<1>5. ASSUME NEW o \in Op, BeginWrite(o) PROVE Goal
  BY <1>5, Deployment, PendingTyped DEF BeginWrite, Writer, Begin, node, disk, memory, OpKeys,
     Settled, TypeOK, WritesRecorded, Durable, Unanswered
<1>6. ASSUME NEW o \in Op, Land(o) PROVE Goal
  BY <1>6, Deployment, PendingTyped DEF Land, OpKeys, disk, memory, Settled, TypeOK,
     WritesRecorded, Durable, Unanswered
<1>7. ASSUME NEW o \in Op, WriteCommitted(o) PROVE Goal
  <2>1. Own(pend, o) # {} \/ o \in surrendered
    <3>1. \A k \in OpKeys[o] : o \notin surrendered =>
            \E r \in pend.records : r.op = o /\ r.key = k /\ r.state = "in_flight"
      BY <1>7 DEF WriteCommitted, WritesRecorded
    <3>2. OpKeys[o] # {}
      BY <1>7 DEF WriteCommitted, WritesRecorded
    <3> QED
      BY <3>1, <3>2 DEF Own
  <2> QED
    BY <1>7, <2>1 DEF WriteCommitted, node, disk, memory, Settled, TypeOK
<1>8. ASSUME NEW o \in Op, WriteFailed(o) PROVE Goal
  BY <1>8, Deployment, PendingTyped DEF WriteFailed, SettleFailed, node, disk, memory, Settled,
     TypeOK, WritesRecorded, Durable, OpKeys, Unanswered
<1>9. ASSUME NEW o \in Op, WriteAmbiguous(o) PROVE Goal
  BY <1>9, Deployment, PendingTyped DEF WriteAmbiguous, SettleAmbiguous, node, disk, memory,
     Own, Settled, TypeOK, WritesRecorded, Durable, OpKeys, Unanswered
<1>10. ASSUME NEW o \in Op, SettleLost(o) PROVE Goal
  BY <1>10, Deployment, PendingTyped DEF SettleLost, MaxFaults, node, disk, memory, Settled,
     TypeOK, WritesRecorded, Durable, OpKeys, Unanswered
<1>11. ASSUME NEW p \in Proc, SyncSettle(p) PROVE Goal
  BY <1>11, Deployment, PendingTyped DEF SyncSettle, AfterSync, Uses, NoSync, node, disk,
     Synced, Covers, Settled, TypeOK, WritesRecorded, Durable, OpKeys, Unanswered
<1>12. ASSUME NEW p \in Proc, ClearPrefix(p) PROVE Goal
  BY <1>12, Deployment, PendingTyped DEF ClearPrefix, Covers, Uses, Unsettled, node, disk,
     Settled, TypeOK, WritesRecorded, Durable, OpKeys, Unanswered
<1>13. ASSUME NEW p \in Proc, ClearPending(p) PROVE Goal
  BY <1>13, Deployment, PendingTyped DEF ClearPending, Unsettled, node, disk, memory, Settled,
     TypeOK, WritesRecorded, Durable, OpKeys, Unanswered
<1>14. ASSUME NEW p \in Proc, Crash(p) PROVE Goal
  BY <1>14, Deployment, PendingTyped DEF Crash, MaxFaults, NoSync, NoRead, Writer, Durable,
     NoPending, Unsettled, node, disk, Settled, TypeOK, WritesRecorded, OpKeys, Unanswered
<1> QED
  BY <1>1, <1>2, <1>3, <1>4, <1>5, <1>6, <1>7, <1>8, <1>9, <1>10, <1>11, <1>12, <1>13, <1>14
  DEF Next, WriteStep, SyncStep, ReadStep, LifeStep, vars, node, disk, memory

\* A replica that is complete after a step was complete before it, or has just been copied from
\* the node: a bootstrap shows nothing until its last page.
LEMMA CopyStep ==
  ASSUME TypeOK, [Next]_vars
  PROVE  \A r \in Replica : Recopied(r) \/ Kept(r) \/ rep'[r].coverage # "complete"
<1> DEFINE Goal == \A r \in Replica : Recopied(r) \/ Kept(r) \/ rep'[r].coverage # "complete"
<1>1. ASSUME UNCHANGED <<setup, rep>> PROVE Goal
  BY <1>1 DEF Recopied, Kept, TypeOK, Covers, Mirror, Durable
<1>2. ASSUME NEW o \in Op, BeginWrite(o) \/ Land(o) \/ WriteCommitted(o) \/ WriteFailed(o)
             \/ WriteAmbiguous(o) \/ SettleLost(o)
      PROVE  Goal
  BY <1>1, <1>2 DEF BeginWrite, node, disk, memory, Land, WriteCommitted, WriteFailed,
     WriteAmbiguous, SettleLost
<1>3. ASSUME NEW p \in Proc, SyncStart(p) \/ SyncLease(p) \/ SyncRefused(p) \/ WriteFence(p)
             \/ SyncSettle(p) \/ SyncFails(p) \/ ReadRefresh(p) \/ ReadCheck(p) \/ ReadEnd(p)
             \/ ClearPrefix(p) \/ ClearPending(p) \/ Crash(p) \/ Bind(p)
      PROVE  Goal
  BY <1>1, <1>3 DEF SyncStart, node, disk, SyncLease, SyncRefused, WriteFence, SyncSettle,
     SyncFails, ReadRefresh, ReadCheck, ReadEnd, ClearPrefix, ClearPending, memory, Crash, Bind
<1>4. ASSUME NEW p \in Proc, NEW k \in Key, ReadStatus(p, k) PROVE Goal
  BY <1>1, <1>4 DEF ReadStatus, node, disk
<1>5. ASSUME NEW r \in Replica, LeaseExpires(r) PROVE Goal
  BY <1>1, <1>5 DEF LeaseExpires, node, memory
<1>6. ASSUME NEW p \in Proc, Open(p) PROVE Goal
  BY <1>6, Deployment DEF Open, Uses, node, Recopied, Kept, TypeOK, Covers, Mirror, Durable
<1>7. ASSUME NEW p \in Proc, NEW k \in Key, SyncPage(p, k) PROVE Goal
  BY <1>7, Deployment DEF SyncPage, Uses, HoldsLease, Covers, node, memory, Recopied, Kept,
     TypeOK, Mirror, Durable
<1>8. ASSUME NEW p \in Proc, SyncLastPage(p) PROVE Goal
  <2> SUFFICES ASSUME NEW r \in Replica
               PROVE  Recopied(r) \/ Kept(r) \/ rep'[r].coverage # "complete"
    OBVIOUS
  <2>1. CASE r = Uses[p]
    BY <1>8, <2>1, Deployment DEF SyncLastPage, node, Recopied, Kept, TypeOK, Mirror, Covers
  <2>2. CASE r # Uses[p]
    BY <1>8, <2>2, Deployment DEF SyncLastPage, node, Kept, TypeOK
  <2> QED
    BY <2>1, <2>2
<1>9. ASSUME NEW p \in Proc, NodeReset(p) PROVE Goal
  BY <1>9, Deployment DEF NodeReset, Uses, HoldsLease, MaxGen, Emptied, node, memory, Recopied,
     Kept, TypeOK, Covers, Mirror, Durable
<1>10. ASSUME NEW p \in Proc, Purge(p) PROVE Goal
  <2> SUFFICES ASSUME NEW r \in Replica
               PROVE  Recopied(r) \/ Kept(r) \/ rep'[r].coverage # "complete"
    OBVIOUS
  <2>1. CASE r = Uses[p]
    BY <1>10, <2>1, Deployment DEF Purge, node, Recopied, Kept, TypeOK, Mirror, Emptied, Covers
  <2>2. CASE r # Uses[p]
    BY <1>10, <2>2, Deployment DEF Purge, node, Kept, TypeOK
  <2> QED
    BY <2>1, <2>2
<1> QED
  BY <1>1, <1>2, <1>3, <1>4, <1>5, <1>6, <1>7, <1>8, <1>9, <1>10
  DEF Next, WriteStep, SyncStep, ReadStep, LifeStep, vars, node, disk, memory


\* What a complete replica has of the settled writes, it keeps, whatever pages, resets and
\* purges come in between.
LEMMA CarriedStep ==
  ASSUME TypeOK, TypeOK', NodeIsNewest', WritesRecorded, [Next]_vars,
         NEW E \in [Op -> Nat], NEW F \in [Op -> Nat], Renumbers(E, F)
  PROVE  Carried(E, F)
<1> SUFFICES ASSUME NEW r \in Replica, NEW e \in Nat,
                    (e <= pend.epoch /\ HasUpTo(E, r, e)) \/ Recopied(r),
                    rep'[r].coverage = "complete",
                    NEW o \in Op, Settled(o)', F[o] <= e,
                    NEW k \in OpKeys[o] \cap Covers[r]
             PROVE  rep'[r].copy[k] >= landed'[o]
  BY SetupStays DEF Carried, HasUpTo, OpKeys, Covers
<1>1. k \in Key /\ landed'[o] \in Nat /\ server'[k] \in Nat /\ server'[k] >= landed'[o]
  BY Deployment, SetupStays DEF NodeIsNewest, OpKeys, TypeOK
<1>2. CASE Recopied(r)
  BY <1>1, <1>2 DEF Recopied
<1>3. CASE e <= pend.epoch /\ HasUpTo(E, r, e) /\ ~Recopied(r)
  <2>1. Settled(o) /\ F[o] = E[o]
    BY <1>3, PendingTyped DEF Renumbers
  <2>2. landed'[o] = landed[o]
    BY SettledStep
  <2>3. Kept(r)
    BY <1>3, CopyStep
  <2>4. rep[r].copy[k] >= landed[o]
    BY <1>3, <2>1, <2>3 DEF HasUpTo, Kept
  <2> QED
    BY <1>1, <2>2, <2>3, <2>4 DEF Kept
<1> QED
  BY <1>2, <1>3

\* The epochs given out so far are at most committedEpoch.
LEMMA SettledBeforeStep ==
  ASSUME TypeOK, WritesRecorded, [Next]_vars, pend.epoch <= pend'.epoch, pend'.epoch \in Nat,
         NEW E \in [Op -> Nat], NEW F \in [Op -> Nat], Renumbers(E, F), SettledBefore(E)
  PROVE  SettledBefore(F)'
<1> SUFFICES ASSUME NEW o \in Op, Settled(o)' PROVE F[o] <= pend'.epoch
  BY DEF SettledBefore
<1>1. CASE Settled(o)
  BY <1>1, PendingTyped DEF SettledBefore, Renumbers
<1>2. CASE ~Settled(o)
  <2>1. WriteCommitted(o) /\ Own(pend, o) # {}
    BY <1>2, SettledStep
  <2>2. pend'.epoch = pend.epoch + 1
    BY <2>1, CommittedRecords DEF WriteCommitted
  <2> QED
    BY <1>2, <2>2 DEF Renumbers
<1> QED
  BY <1>1, <1>2

\* A sync comes to its end only by its last page, and keeps the epoch it started from.
LEMMA SyncMoves ==
  ASSUME TypeOK, Quiet, [Next]_vars
  PROVE  \A p \in Proc : sync'[p].phase \in {"finished", "fenced"} =>
           /\ sync'[p].epoch = sync[p].epoch
           /\ sync[p].phase \in {"finished", "fenced"} \/ Recopied(Uses[p])
<1> DEFINE Goal == \A p \in Proc : sync'[p].phase \in {"finished", "fenced"} =>
               /\ sync'[p].epoch = sync[p].epoch
               /\ sync[p].phase \in {"finished", "fenced"} \/ Recopied(Uses[p])
<1>1. ASSUME UNCHANGED sync PROVE Goal
  BY <1>1 DEF TypeOK, Quiet, Recopied, Sync, NoSync, Uses, Mirror, Durable, Covers
<1>2. ASSUME NEW o \in Op, BeginWrite(o) \/ Land(o) \/ WriteCommitted(o) \/ WriteFailed(o)
             \/ WriteAmbiguous(o) \/ SettleLost(o)
      PROVE  Goal
  BY <1>1, <1>2 DEF BeginWrite, node, disk, memory, Land, WriteCommitted, WriteFailed,
     WriteAmbiguous, SettleLost
<1>3. ASSUME NEW p \in Proc, Open(p) \/ NodeReset(p) \/ ReadRefresh(p) \/ ReadCheck(p)
             \/ ReadEnd(p) \/ Purge(p) \/ ClearPrefix(p) \/ ClearPending(p) \/ Bind(p)
      PROVE  Goal
  BY <1>1, <1>3 DEF Open, node, NodeReset, memory, ReadRefresh, disk, ReadCheck, ReadEnd,
     Purge, ClearPrefix, ClearPending, Bind
<1>4. ASSUME NEW p \in Proc, NEW k \in Key, SyncPage(p, k) \/ ReadStatus(p, k) PROVE Goal
  BY <1>1, <1>4 DEF SyncPage, node, memory, ReadStatus, disk
<1>5. ASSUME NEW r \in Replica, LeaseExpires(r) PROVE Goal
  BY <1>1, <1>5 DEF LeaseExpires, node, memory
<1>6. ASSUME NEW p \in Proc, SyncStart(p) PROVE Goal
  BY <1>6, Deployment DEF SyncStart, node, disk, TypeOK, Quiet, Recopied, Sync, NoSync, Uses,
     Mirror, Durable, Covers
<1>7. ASSUME NEW p \in Proc, SyncLease(p) PROVE Goal
  BY <1>7, Deployment DEF SyncLease, HandleLive, Uses, node, TypeOK, Quiet, Recopied, Sync,
     NoSync, Mirror, Durable, Covers
<1>8. ASSUME NEW p \in Proc, SyncRefused(p) PROVE Goal
  BY <1>8, Deployment DEF SyncRefused, HandleLive, Uses, HoldsLease, NoSync, node, disk,
     TypeOK, Quiet, Recopied, Sync, Mirror, Durable, Covers
<1>9. ASSUME NEW p \in Proc, SyncLastPage(p) PROVE Goal
  <2>1. Recopied(Uses[p]) /\ sync'[p].epoch = sync[p].epoch
    BY <1>9, Deployment DEF SyncLastPage, node, Recopied, Covers, TypeOK, Mirror, Sync
  <2>2. \A q \in Proc : q # p => sync'[q] = sync[q]
    BY <1>9 DEF SyncLastPage, TypeOK
  <2> QED
    BY <2>1, <2>2
<1>10. ASSUME NEW p \in Proc, WriteFence(p) PROVE Goal
  BY <1>10, Deployment DEF WriteFence, Uses, NewFence, node, TypeOK, Quiet, Recopied, Sync,
     NoSync, Mirror, Durable, Covers
<1>11. ASSUME NEW p \in Proc, SyncSettle(p) PROVE Goal
  BY <1>11, Deployment DEF SyncSettle, AfterSync, Uses, NoSync, node, disk, Synced, Covers,
     TypeOK, Quiet, Recopied, Sync, Mirror, Durable
<1>12. ASSUME NEW p \in Proc, SyncFails(p) PROVE Goal
  BY <1>12, Deployment DEF SyncFails, MaxFaults, HoldsLease, Uses, NoSync, node, TypeOK, Quiet,
     Recopied, Sync, Mirror, Durable, Covers
<1>13. ASSUME NEW p \in Proc, Crash(p) PROVE Goal
  BY <1>13, Deployment DEF Crash, MaxFaults, NoSync, NoRead, Writer, Durable, NoPending,
     Unsettled, node, disk, TypeOK, Quiet, Recopied, Sync, Uses, Mirror, Covers
<1> QED
  BY <1>1, <1>2, <1>3, <1>4, <1>5, <1>6, <1>7, <1>8, <1>9, <1>10, <1>11, <1>12, <1>13
  DEF Next, WriteStep, SyncStep, ReadStep, LifeStep, vars, node, disk, memory

\* fence.json gets the epoch of a sync that has its last page, or goes with the replica.
LEMMA FenceMoves ==
  ASSUME TypeOK, [Next]_vars
  PROVE  \A r \in Replica :
           \/ fence'[r] = fence[r]
           \/ rep'[r].coverage # "complete"
           \/ \E p \in Proc : Uses[p] = r /\ sync[p].phase = "finished" /\ fence'[r] = sync[p].epoch
<1> DEFINE Goal == \A r \in Replica :
               \/ fence'[r] = fence[r]
               \/ rep'[r].coverage # "complete"
               \/ \E p \in Proc : Uses[p] = r /\ sync[p].phase = "finished" /\ fence'[r] = sync[p].epoch
<1>1. ASSUME UNCHANGED fence PROVE Goal
  BY <1>1 DEF TypeOK, Uses, Mirror, Sync, Durable
<1>2. ASSUME NEW o \in Op, BeginWrite(o) \/ Land(o) \/ WriteCommitted(o) \/ WriteFailed(o)
             \/ WriteAmbiguous(o) \/ SettleLost(o)
      PROVE  Goal
  BY <1>1, <1>2 DEF BeginWrite, node, disk, memory, Land, WriteCommitted, WriteFailed,
     WriteAmbiguous, SettleLost
<1>3. ASSUME NEW p \in Proc, Open(p) \/ SyncStart(p) \/ SyncLease(p) \/ SyncRefused(p)
             \/ SyncLastPage(p) \/ NodeReset(p) \/ SyncSettle(p) \/ SyncFails(p)
             \/ ReadRefresh(p) \/ ReadCheck(p) \/ ReadEnd(p) \/ ClearPrefix(p)
             \/ ClearPending(p) \/ Crash(p) \/ Bind(p)
      PROVE  Goal
  BY <1>1, <1>3 DEF Open, node, SyncStart, disk, SyncLease, SyncRefused, SyncLastPage,
     NodeReset, memory, SyncSettle, SyncFails, ReadRefresh, ReadCheck, ReadEnd, ClearPrefix,
     ClearPending, Crash, Bind
<1>4. ASSUME NEW p \in Proc, NEW k \in Key, SyncPage(p, k) \/ ReadStatus(p, k) PROVE Goal
  BY <1>1, <1>4 DEF SyncPage, node, memory, ReadStatus, disk
<1>5. ASSUME NEW r \in Replica, LeaseExpires(r) PROVE Goal
  BY <1>1, <1>5 DEF LeaseExpires, node, memory
<1>6. ASSUME NEW p \in Proc, WriteFence(p) PROVE Goal
  BY <1>6, Deployment DEF WriteFence, Uses, NewFence, node, TypeOK, Mirror, Sync, Durable
<1>7. ASSUME NEW p \in Proc, Purge(p) PROVE Goal
  BY <1>7, Deployment DEF Purge, Uses, MaxGen, Emptied, NoRead, node, TypeOK, Mirror, Sync,
     Durable
<1> QED
  BY <1>1, <1>2, <1>3, <1>4, <1>5, <1>6, <1>7
  DEF Next, WriteStep, SyncStep, ReadStep, LifeStep, vars, node, disk, memory

\* A read takes its fence from the status it inspects.
LEMMA ReadMoves ==
  ASSUME TypeOK, [Next]_vars
  PROVE  \A p \in Proc : read'[p].phase = "inspected" =>
           \/ read[p].phase = "inspected" /\ read'[p].fence = read[p].fence
           \/ read'[p].fence = fence[Uses[p]]
<1> DEFINE Goal == \A p \in Proc : read'[p].phase = "inspected" =>
               \/ read[p].phase = "inspected" /\ read'[p].fence = read[p].fence
               \/ read'[p].fence = fence[Uses[p]]
<1>1. ASSUME UNCHANGED read PROVE Goal
  BY <1>1 DEF TypeOK, Uses, Read, NoRead, Mirror, Sync, Durable
<1>2. ASSUME NEW o \in Op, BeginWrite(o) \/ Land(o) \/ WriteCommitted(o) \/ WriteFailed(o)
             \/ WriteAmbiguous(o) \/ SettleLost(o)
      PROVE  Goal
  BY <1>1, <1>2 DEF BeginWrite, node, disk, memory, Land, WriteCommitted, WriteFailed,
     WriteAmbiguous, SettleLost
<1>3. ASSUME NEW p \in Proc, Open(p) \/ SyncStart(p) \/ SyncLease(p) \/ SyncRefused(p)
             \/ SyncLastPage(p) \/ NodeReset(p) \/ WriteFence(p) \/ SyncSettle(p)
             \/ SyncFails(p) \/ ClearPrefix(p) \/ ClearPending(p) \/ Bind(p)
      PROVE  Goal
  BY <1>1, <1>3 DEF Open, node, SyncStart, disk, SyncLease, SyncRefused, SyncLastPage,
     NodeReset, memory, WriteFence, SyncSettle, SyncFails, ClearPrefix, ClearPending, Bind
<1>4. ASSUME NEW p \in Proc, NEW k \in Key, SyncPage(p, k) PROVE Goal
  BY <1>1, <1>4 DEF SyncPage, node, memory
<1>5. ASSUME NEW r \in Replica, LeaseExpires(r) PROVE Goal
  BY <1>1, <1>5 DEF LeaseExpires, node, memory
<1>6. ASSUME NEW p \in Proc, NEW k \in Key, ReadStatus(p, k) PROVE Goal
  BY <1>6, Deployment DEF ReadStatus, Uses, HandleLive, Covers, node, disk, TypeOK, Read,
     NoRead, Mirror, Sync, Durable
<1>7. ASSUME NEW p \in Proc, ReadRefresh(p) PROVE Goal
  BY <1>7, Deployment DEF ReadRefresh, HandleLive, Uses, node, disk, TypeOK, Read, NoRead,
     Mirror, Sync, Durable
<1>8. ASSUME NEW p \in Proc, ReadCheck(p) PROVE Goal
  BY <1>8, Deployment DEF ReadCheck, UsesReplica, node, disk, Durable, TypeOK, Uses, Read,
     NoRead, Mirror, Sync
<1>9. ASSUME NEW p \in Proc, ReadEnd(p) PROVE Goal
  BY <1>9, Deployment DEF ReadEnd, NoRead, node, disk, TypeOK, Uses, Read, Mirror, Sync,
     Durable
<1>10. ASSUME NEW p \in Proc, Purge(p) PROVE Goal
  BY <1>10, Deployment DEF Purge, Uses, MaxGen, Emptied, NoRead, node, TypeOK, Read, Mirror,
     Sync, Durable
<1>11. ASSUME NEW p \in Proc, Crash(p) PROVE Goal
  BY <1>11, Deployment DEF Crash, MaxFaults, NoSync, NoRead, Writer, Durable, NoPending,
     Unsettled, node, disk, TypeOK, Uses, Read, Mirror, Sync
<1> QED
  BY <1>1, <1>2, <1>3, <1>4, <1>5, <1>6, <1>7, <1>8, <1>9, <1>10, <1>11
  DEF Next, WriteStep, SyncStep, ReadStep, LifeStep, vars, node, disk, memory


\* So a sync that has its last page has brought the writes up to its start.
LEMMA SyncsHaveStep ==
  ASSUME TypeOK, Quiet, [Next]_vars, NEW E, NEW F, Carried(E, F), SyncsHave(E)
  PROVE  SyncsHave(F)'
<1> SUFFICES ASSUME NEW p \in Proc, sync'[p].phase \in {"finished", "fenced"},
                    NEW r, r = Uses[p], NEW e, e = sync'[p].epoch
             PROVE  HasUpTo(F, r, e)'
  BY SetupStays DEF SyncsHave, HasUpTo, Uses
<1>1. /\ e = sync[p].epoch
      /\ sync[p].phase \in {"finished", "fenced"} \/ Recopied(r)
  BY SyncMoves
<1>2. r \in Replica /\ e \in Nat /\ e <= pend.epoch
  BY <1>1, Deployment DEF TypeOK, Sync, Quiet
<1>3. HasUpTo(E, r, e) \/ Recopied(r)
  BY <1>1 DEF SyncsHave
<1> QED
  BY <1>2, <1>3 DEF Carried

\* So has the sync whose epoch is in fence.json, although a late sync may put an older epoch
\* there.
LEMMA FencesHaveStep ==
  ASSUME TypeOK, [Next]_vars, NEW E, NEW F, Carried(E, F), SyncsHave(E), FencesHave(E)
  PROVE  FencesHave(F)'
<1> SUFFICES ASSUME Durable, NEW r \in Replica, NEW e, e = fence'[r]
             PROVE  HasUpTo(F, r, e)'
  BY SetupStays DEF FencesHave, HasUpTo, Durable
<1>1. CASE e = fence[r]
  <2>1. e \in Nat /\ e <= pend.epoch
    BY <1>1 DEF TypeOK
  <2>2. HasUpTo(E, r, e)
    BY <1>1 DEF FencesHave
  <2> QED
    BY <2>1, <2>2 DEF Carried
<1>2. CASE rep'[r].coverage # "complete"
  BY <1>2 DEF HasUpTo
<1>3. ASSUME NEW p \in Proc, Uses[p] = r, sync[p].phase = "finished", e = sync[p].epoch
      PROVE  HasUpTo(F, r, e)'
  <2>1. e \in Nat /\ e <= pend.epoch
    BY <1>3 DEF TypeOK, Sync
  <2>2. HasUpTo(E, r, e)
    BY <1>3 DEF SyncsHave
  <2> QED
    BY <2>1, <2>2 DEF Carried
<1> QED
  BY <1>1, <1>2, <1>3, FenceMoves

\* So has the one whose fence a read saw, although the file may have changed since.
LEMMA ReadsHaveStep ==
  ASSUME TypeOK, [Next]_vars, pend.epoch <= pend'.epoch, pend'.epoch \in Nat,
         NEW E, NEW F, Carried(E, F), FencesHave(E), ReadsHave(E)
  PROVE  ReadsHave(F)'
<1> SUFFICES ASSUME Durable, NEW p \in Proc, read'[p].phase = "inspected",
                    NEW r, r = Uses[p], NEW e, e = read'[p].fence
             PROVE  e <= pend'.epoch /\ HasUpTo(F, r, e)'
  BY SetupStays DEF ReadsHave, HasUpTo, Durable, Uses
<1>1. r \in Replica /\ pend.epoch \in Nat
  BY Deployment, PendingTyped
<1>2. e \in Nat /\ e <= pend.epoch /\ HasUpTo(E, r, e)
  <2>1. CASE read[p].phase = "inspected" /\ e = read[p].fence
    BY <2>1 DEF ReadsHave, TypeOK, Read
  <2>2. CASE e = fence[r]
    BY <1>1, <2>2 DEF FencesHave, TypeOK
  <2> QED
    BY <2>1, <2>2, ReadMoves
<1> QED
  BY <1>1, <1>2 DEF Carried

\* committedEpoch never goes back, except with a volatile store's process.
LEMMA EpochGrows ==
  ASSUME TypeOK, [Next]_vars, Durable \/ \A p \in Proc : ~Crash(p)
  PROVE  pend.epoch <= pend'.epoch
<1>1. ASSUME UNCHANGED pend PROVE pend.epoch <= pend'.epoch
  BY <1>1, PendingTyped DEF Durable
<1>2. ASSUME NEW o \in Op, Land(o) \/ SettleLost(o) PROVE pend.epoch <= pend'.epoch
  BY <1>1, <1>2 DEF Land, disk, memory, SettleLost, node
<1>3. ASSUME NEW p \in Proc, Open(p) \/ SyncStart(p) \/ SyncLease(p) \/ SyncRefused(p)
             \/ SyncLastPage(p) \/ NodeReset(p) \/ WriteFence(p) \/ SyncFails(p)
             \/ ReadRefresh(p) \/ ReadCheck(p) \/ ReadEnd(p) \/ Purge(p) \/ Bind(p)
      PROVE  pend.epoch <= pend'.epoch
  BY <1>1, <1>3 DEF Open, node, SyncStart, disk, SyncLease, SyncRefused, SyncLastPage,
     NodeReset, memory, WriteFence, SyncFails, ReadRefresh, ReadCheck, ReadEnd, Purge, Bind
<1>4. ASSUME NEW p \in Proc, NEW k \in Key, SyncPage(p, k) \/ ReadStatus(p, k)
      PROVE  pend.epoch <= pend'.epoch
  BY <1>1, <1>4 DEF SyncPage, node, memory, ReadStatus, disk
<1>5. ASSUME NEW r \in Replica, LeaseExpires(r) PROVE pend.epoch <= pend'.epoch
  BY <1>1, <1>5 DEF LeaseExpires, node, memory
<1>6. ASSUME NEW o \in Op, BeginWrite(o) PROVE pend.epoch <= pend'.epoch
  BY <1>6, PendingTyped DEF BeginWrite, Writer, Begin, node, disk, memory, OpKeys, Durable
<1>7. ASSUME NEW o \in Op, WriteCommitted(o) PROVE pend.epoch <= pend'.epoch
  BY <1>7, PendingTyped, CommittedRecords DEF WriteCommitted
<1>8. ASSUME NEW o \in Op, WriteFailed(o) PROVE pend.epoch <= pend'.epoch
  BY <1>8, PendingTyped DEF WriteFailed, SettleFailed, node, disk, memory, Durable
<1>9. ASSUME NEW o \in Op, WriteAmbiguous(o) PROVE pend.epoch <= pend'.epoch
  BY <1>9, PendingTyped DEF WriteAmbiguous, SettleAmbiguous, node, disk, memory, Own, Durable
<1>10. ASSUME NEW p \in Proc, SyncSettle(p) PROVE pend.epoch <= pend'.epoch
  BY <1>10, PendingTyped DEF SyncSettle, AfterSync, Uses, NoSync, node, disk, Synced, Covers,
     Durable
<1>11. ASSUME NEW p \in Proc, ClearPrefix(p) PROVE pend.epoch <= pend'.epoch
  BY <1>11, PendingTyped DEF ClearPrefix, Covers, Uses, Unsettled, node, disk, Durable
<1>12. ASSUME NEW p \in Proc, ClearPending(p) PROVE pend.epoch <= pend'.epoch
  BY <1>12, PendingTyped DEF ClearPending, Unsettled, node, disk, memory, Durable
<1>13. ASSUME NEW p \in Proc, Crash(p) PROVE pend.epoch <= pend'.epoch
  <2>1. Durable
    BY <1>13
  <2> QED
    BY <1>13, <2>1, PendingTyped DEF Crash
<1> QED
  BY <1>1, <1>2, <1>3, <1>4, <1>5, <1>6, <1>7, <1>8, <1>9, <1>10, <1>11, <1>12, <1>13
  DEF Next, WriteStep, SyncStep, ReadStep, LifeStep, vars, node, disk, memory

\* A committed record is new only when its write settles, with the next epoch.
LEMMA RecordMoves ==
  ASSUME TypeOK, [Next]_vars
  PROVE  \A r \in pend'.records : r.state = "committed" =>
           r \in pend.records \/ (WriteCommitted(r.op) /\ r.epoch = pend.epoch + 1)
<1> DEFINE Goal == \A r \in pend'.records : r.state = "committed" =>
               r \in pend.records \/ (WriteCommitted(r.op) /\ r.epoch = pend.epoch + 1)
<1>1. ASSUME UNCHANGED pend PROVE Goal
  BY <1>1 DEF Durable
<1>2. ASSUME NEW o \in Op, Land(o) \/ SettleLost(o) PROVE Goal
  BY <1>1, <1>2 DEF Land, disk, memory, SettleLost, node
<1>3. ASSUME NEW p \in Proc, Open(p) \/ SyncStart(p) \/ SyncLease(p) \/ SyncRefused(p)
             \/ SyncLastPage(p) \/ NodeReset(p) \/ WriteFence(p) \/ SyncFails(p)
             \/ ReadRefresh(p) \/ ReadCheck(p) \/ ReadEnd(p) \/ Purge(p) \/ Bind(p)
      PROVE  Goal
  BY <1>1, <1>3 DEF Open, node, SyncStart, disk, SyncLease, SyncRefused, SyncLastPage,
     NodeReset, memory, WriteFence, SyncFails, ReadRefresh, ReadCheck, ReadEnd, Purge, Bind
<1>4. ASSUME NEW p \in Proc, NEW k \in Key, SyncPage(p, k) \/ ReadStatus(p, k) PROVE Goal
  BY <1>1, <1>4 DEF SyncPage, node, memory, ReadStatus, disk
<1>5. ASSUME NEW r \in Replica, LeaseExpires(r) PROVE Goal
  BY <1>1, <1>5 DEF LeaseExpires, node, memory
<1>6. ASSUME NEW o \in Op, BeginWrite(o) PROVE Goal
  BY <1>6, BegunRecords DEF BeginWrite
<1>7. ASSUME NEW o \in Op, WriteCommitted(o) PROVE Goal
  <2>1. pend' = SettleCommitted(pend, o)
    BY <1>7 DEF WriteCommitted
  <2> QED
    BY <1>7, <2>1, CommittedRecords
<1>8. ASSUME NEW o \in Op, WriteFailed(o) PROVE Goal
  BY <1>8, PendingTyped DEF WriteFailed, SettleFailed, node, disk, memory, Durable
<1>9. ASSUME NEW o \in Op, WriteAmbiguous(o) PROVE Goal
  BY <1>9, AmbiguousRecords DEF WriteAmbiguous
<1>10. ASSUME NEW p \in Proc, SyncSettle(p) PROVE Goal
  BY <1>10, PendingTyped DEF SyncSettle, AfterSync, Uses, NoSync, node, disk, Synced, Covers,
     Durable
<1>11. ASSUME NEW p \in Proc, ClearPrefix(p) PROVE Goal
  BY <1>11, PendingTyped DEF ClearPrefix, Covers, Uses, Unsettled, node, disk, Durable
<1>12. ASSUME NEW p \in Proc, ClearPending(p) PROVE Goal
  BY <1>12, PendingTyped DEF ClearPending, Unsettled, node, disk, memory, Durable
<1>13. ASSUME NEW p \in Proc, Crash(p) PROVE Goal
  BY <1>13, PendingTyped DEF Crash, MaxFaults, NoSync, NoRead, Writer, Durable, NoPending,
     Unsettled, node, disk
<1> QED
  BY <1>1, <1>2, <1>3, <1>4, <1>5, <1>6, <1>7, <1>8, <1>9, <1>10, <1>11, <1>12, <1>13
  DEF Next, WriteStep, SyncStep, ReadStep, LifeStep, vars, node, disk, memory


\* A write that settles leaves a committed record for each of its keys.
LEMMA CommitRemembered ==
  ASSUME TypeOK, WritesRecorded, [Next]_vars,
         NEW o \in Op, Settled(o)', ~Settled(o), NEW k \in OpKeys[o]
  PROVE  Remembered(o, k)'
<1>1. WriteCommitted(o) /\ Own(pend, o) # {}
  BY SettledStep
<1>2. o \notin surrendered /\ op[o] = "sent"
  BY <1>1 DEF WriteCommitted, Settled
<1>3. PICK r \in pend.records : r.op = o /\ r.key = k /\ r.state = "in_flight"
  BY <1>2 DEF WritesRecorded
<1>4. r \in Own(pend, o)
  BY <1>3 DEF Own
<1> QED
  BY <1>1, <1>3, <1>4, CommittedRecords DEF WriteCommitted, Remembered

\* A committed record goes only when a sync that covers it settles, or by a purge.
LEMMA RememberedStays ==
  ASSUME TypeOK, [Next]_vars, \A p \in Proc : ~Crash(p),
         NEW x \in Op, Settled(x), NEW y, Remembered(x, y)
  PROVE  \/ Remembered(x, y)'
         \/ \E p \in Proc : /\ SyncSettle(p) /\ y \in Covers[Uses[p]]
                           /\ \E r \in pend.records :
                                /\ r.op = x /\ r.key = y /\ r.state = "committed"
                                /\ r.epoch <= sync[p].epoch
         \/ \E p \in Proc : ClearPrefix(p)
<1> DEFINE Goal == \/ Remembered(x, y)'
                   \/ \E p \in Proc : /\ SyncSettle(p) /\ y \in Covers[Uses[p]]
                                     /\ \E r \in pend.records :
                                          /\ r.op = x /\ r.key = y /\ r.state = "committed"
                                          /\ r.epoch <= sync[p].epoch
                   \/ \E p \in Proc : ClearPrefix(p)
<1>1. ASSUME UNCHANGED pend PROVE Goal
  BY <1>1 DEF Remembered, Settled
<1>2. ASSUME NEW o \in Op, Land(o) \/ SettleLost(o) PROVE Goal
  BY <1>1, <1>2 DEF Land, disk, memory, SettleLost, node
<1>3. ASSUME NEW p \in Proc, Open(p) \/ SyncStart(p) \/ SyncLease(p) \/ SyncRefused(p)
             \/ SyncLastPage(p) \/ NodeReset(p) \/ WriteFence(p) \/ SyncFails(p)
             \/ ReadRefresh(p) \/ ReadCheck(p) \/ ReadEnd(p) \/ Purge(p) \/ Bind(p)
      PROVE  Goal
  BY <1>1, <1>3 DEF Open, node, SyncStart, disk, SyncLease, SyncRefused, SyncLastPage,
     NodeReset, memory, WriteFence, SyncFails, ReadRefresh, ReadCheck, ReadEnd, Purge, Bind
<1>4. ASSUME NEW p \in Proc, NEW k \in Key, SyncPage(p, k) \/ ReadStatus(p, k) PROVE Goal
  BY <1>1, <1>4 DEF SyncPage, node, memory, ReadStatus, disk
<1>5. ASSUME NEW r \in Replica, LeaseExpires(r) PROVE Goal
  BY <1>1, <1>5 DEF LeaseExpires, node, memory
<1>6. ASSUME NEW o \in Op, BeginWrite(o) PROVE Goal
  BY <1>6, BegunRecords DEF BeginWrite, Remembered
<1>7. ASSUME NEW o \in Op, WriteCommitted(o) PROVE Goal
  BY <1>7, CommittedRecords DEF WriteCommitted, Remembered, Own
<1>8. ASSUME NEW o \in Op, WriteFailed(o) PROVE Goal
  BY <1>8, PendingTyped DEF WriteFailed, SettleFailed, node, disk, memory, Remembered, Settled
<1>9. ASSUME NEW o \in Op, WriteAmbiguous(o) PROVE Goal
  BY <1>9, AmbiguousRecords DEF WriteAmbiguous, Remembered, Own
<1>10. ASSUME NEW p \in Proc, SyncSettle(p) PROVE Goal
  BY <1>10, PendingTyped DEF SyncSettle, AfterSync, Uses, NoSync, node, disk, Synced, Covers,
     Remembered, Settled
<1>11. ASSUME NEW p \in Proc, ClearPrefix(p) PROVE Goal
  BY <1>11, PendingTyped DEF ClearPrefix, Covers, Uses, Unsettled, node, disk, Remembered,
     Settled
<1>12. ASSUME NEW p \in Proc, ClearPending(p) PROVE Goal
  BY <1>12, PendingTyped DEF ClearPending, Unsettled, node, disk, memory, Remembered, Settled
<1>13. ASSUME NEW p \in Proc, Crash(p) PROVE Goal
  BY <1>13
<1> QED
  BY <1>1, <1>2, <1>3, <1>4, <1>5, <1>6, <1>7, <1>8, <1>9, <1>10, <1>11, <1>12, <1>13
  DEF Next, WriteStep, SyncStep, ReadStep, LifeStep, vars, node, disk, memory


\* A committed record keeps the epoch of its write.
LEMMA RecordsTellStep ==
  ASSUME TypeOK, TypeOK', WritesRecorded, [Next]_vars,
         NEW E \in [Op -> Nat], NEW F \in [Op -> Nat], Renumbers(E, F), RecordsTell(E)
  PROVE  RecordsTell(F)'
<1> SUFFICES ASSUME ~Durable, NEW r \in pend'.records, r.state = "committed", Settled(r.op)',
                    r.op \in Op
             PROVE  r.epoch = F[r.op]
  <2>1. \A r \in pend'.records : r.state = "committed" => r.op \in Op
    BY DEF Record, TypeOK
  <2> QED
    BY <2>1, SetupStays DEF RecordsTell, Durable
<1>1. CASE r \in pend.records
  <2>1. op[r.op] = "done"
    BY <1>1 DEF WritesRecorded
  <2>2. Settled(r.op)
    BY <2>1, SettledStep DEF WriteCommitted
  <2> QED
    BY <1>1, <2>2 DEF Renumbers, RecordsTell
<1>2. CASE r \notin pend.records
  <2>1. WriteCommitted(r.op) /\ r.epoch = pend.epoch + 1
    BY <1>2, RecordMoves
  <2>2. ~Settled(r.op)
    BY <2>1 DEF WriteCommitted, Settled
  <2> QED
    BY <2>1, <2>2 DEF Renumbers
<1> QED
  BY <1>1, <1>2

\* A sync starts from the epoch of that moment.
LEMMA SyncLives ==
  ASSUME TypeOK, Quiet, [Next]_vars
  PROVE  \A p \in Proc : sync'[p].phase # "idle" =>
           \/ sync[p].phase # "idle" /\ sync'[p].epoch = sync[p].epoch
           \/ mode[p] = "up" /\ sync'[p].epoch = pend.epoch
<1> DEFINE Goal == \A p \in Proc : sync'[p].phase # "idle" =>
               \/ sync[p].phase # "idle" /\ sync'[p].epoch = sync[p].epoch
               \/ mode[p] = "up" /\ sync'[p].epoch = pend.epoch
<1>1. ASSUME UNCHANGED sync PROVE Goal
  BY <1>1 DEF TypeOK, Sync, NoSync, Durable
<1>2. ASSUME NEW o \in Op, BeginWrite(o) \/ Land(o) \/ WriteCommitted(o) \/ WriteFailed(o)
             \/ WriteAmbiguous(o) \/ SettleLost(o)
      PROVE  Goal
  BY <1>1, <1>2 DEF BeginWrite, node, disk, memory, Land, WriteCommitted, WriteFailed,
     WriteAmbiguous, SettleLost
<1>3. ASSUME NEW p \in Proc, Open(p) \/ NodeReset(p) \/ ReadRefresh(p) \/ ReadCheck(p)
             \/ ReadEnd(p) \/ Purge(p) \/ ClearPrefix(p) \/ ClearPending(p) \/ Bind(p)
      PROVE  Goal
  BY <1>1, <1>3 DEF Open, node, NodeReset, memory, ReadRefresh, disk, ReadCheck, ReadEnd,
     Purge, ClearPrefix, ClearPending, Bind
<1>4. ASSUME NEW p \in Proc, NEW k \in Key, SyncPage(p, k) \/ ReadStatus(p, k) PROVE Goal
  BY <1>1, <1>4 DEF SyncPage, node, memory, ReadStatus, disk
<1>5. ASSUME NEW r \in Replica, LeaseExpires(r) PROVE Goal
  BY <1>1, <1>5 DEF LeaseExpires, node, memory
<1>6. ASSUME NEW p \in Proc, SyncStart(p) PROVE Goal
  BY <1>6, PendingTyped DEF SyncStart, node, disk, TypeOK, Sync, NoSync, Durable
<1>7. ASSUME NEW p \in Proc, SyncLease(p) PROVE Goal
  BY <1>7, PendingTyped DEF SyncLease, HandleLive, Uses, node, TypeOK, Sync, NoSync, Durable
<1>8. ASSUME NEW p \in Proc, SyncRefused(p) PROVE Goal
  BY <1>8, PendingTyped DEF SyncRefused, HandleLive, Uses, HoldsLease, NoSync, node, disk,
     TypeOK, Sync, Durable
<1>9. ASSUME NEW p \in Proc, SyncLastPage(p) PROVE Goal
  BY <1>9, PendingTyped DEF SyncLastPage, Uses, HoldsLease, Covers, node, TypeOK, Sync, NoSync,
     Durable
<1>10. ASSUME NEW p \in Proc, WriteFence(p) PROVE Goal
  BY <1>10, PendingTyped DEF WriteFence, Uses, NewFence, node, TypeOK, Sync, NoSync, Durable
<1>11. ASSUME NEW p \in Proc, SyncSettle(p) PROVE Goal
  BY <1>11, PendingTyped DEF SyncSettle, AfterSync, Uses, NoSync, node, disk, Synced, Covers,
     TypeOK, Sync, Durable
<1>12. ASSUME NEW p \in Proc, SyncFails(p) PROVE Goal
  BY <1>12, PendingTyped DEF SyncFails, MaxFaults, HoldsLease, Uses, NoSync, node, TypeOK,
     Sync, Durable
<1>13. ASSUME NEW p \in Proc, Crash(p) PROVE Goal
  BY <1>13, PendingTyped DEF Crash, MaxFaults, NoSync, NoRead, Writer, Durable, NoPending,
     Unsettled, node, disk, TypeOK, Sync
<1> QED
  BY <1>1, <1>2, <1>3, <1>4, <1>5, <1>6, <1>7, <1>8, <1>9, <1>10, <1>11, <1>12, <1>13
  DEF Next, WriteStep, SyncStep, ReadStep, LifeStep, vars, node, disk, memory

\* inProcessProof is set only when handle.sync has returned.
LEMMA ProofMoves ==
  ASSUME [Next]_vars
  PROVE  \A p \in Proc : p \in proof' => p \in proof \/ WriteFence(p)
<1> DEFINE Goal == \A p \in Proc : p \in proof' => p \in proof \/ WriteFence(p)
<1>1. ASSUME UNCHANGED proof PROVE Goal
  BY <1>1
<1>2. ASSUME NEW o \in Op, BeginWrite(o) \/ Land(o) \/ WriteCommitted(o) \/ WriteFailed(o)
             \/ WriteAmbiguous(o) \/ SettleLost(o)
      PROVE  Goal
  BY <1>1, <1>2 DEF BeginWrite, node, disk, memory, Land, WriteCommitted, WriteFailed,
     WriteAmbiguous, SettleLost
<1>3. ASSUME NEW p \in Proc, Open(p) \/ SyncStart(p) \/ SyncLease(p) \/ SyncRefused(p)
             \/ SyncLastPage(p) \/ NodeReset(p) \/ SyncSettle(p) \/ SyncFails(p)
             \/ ReadRefresh(p) \/ ReadCheck(p) \/ ReadEnd(p) \/ Purge(p) \/ ClearPending(p)
             \/ Bind(p)
      PROVE  Goal
  BY <1>1, <1>3 DEF Open, node, SyncStart, disk, SyncLease, SyncRefused, SyncLastPage,
     NodeReset, memory, SyncSettle, SyncFails, ReadRefresh, ReadCheck, ReadEnd, Purge,
     ClearPending, Bind
<1>4. ASSUME NEW p \in Proc, NEW k \in Key, SyncPage(p, k) \/ ReadStatus(p, k) PROVE Goal
  BY <1>1, <1>4 DEF SyncPage, node, memory, ReadStatus, disk
<1>5. ASSUME NEW r \in Replica, LeaseExpires(r) PROVE Goal
  BY <1>1, <1>5 DEF LeaseExpires, node, memory
<1>6. ASSUME NEW p \in Proc, WriteFence(p) PROVE Goal
  <2>1. proof' = proof \cup {p}
    BY <1>6 DEF WriteFence
  <2> QED
    BY <1>6, <2>1
<1>7. ASSUME NEW p \in Proc, ClearPrefix(p) PROVE Goal
  BY <1>7 DEF ClearPrefix, Covers, Uses, Unsettled, node, disk
<1>8. ASSUME NEW p \in Proc, Crash(p) PROVE Goal
  BY <1>8 DEF Crash, MaxFaults, NoSync, NoRead, Writer, Durable, NoPending, Unsettled, node,
     disk
<1> QED
  BY <1>1, <1>2, <1>3, <1>4, <1>5, <1>6, <1>7, <1>8
  DEF Next, WriteStep, SyncStep, ReadStep, LifeStep, vars, node, disk, memory


\* A volatile store has one controller.
LEMMA OneRuns ==
  ASSUME TypeOK, Quiet, ~Durable, NEW p \in Proc, NEW q \in Proc,
         mode[p] # "absent", mode[q] # "absent"
  PROVE  p = q
  BY Deployment DEF Quiet

\* A running sync goes on knowing of every settled write.
LEMMA SyncsKnowStep ==
  ASSUME TypeOK, Quiet, WritesRecorded, [Next]_vars, \A p \in Proc : ~Crash(p),
         NEW E \in [Op -> Nat], NEW F \in [Op -> Nat], Renumbers(E, F),
         SettledBefore(E), RecordsTell(E), SyncsKnow(E)
  PROVE  SyncsKnow(F)'
<1> SUFFICES ASSUME ~Durable, NEW p \in Proc, NEW o \in Op,
                    sync'[p].phase # "idle", Settled(o)',
                    NEW k \in OpKeys[o] \cap Covers[Uses[p]], ~Remembered(o, k)'
             PROVE  F[o] <= sync'[p].epoch
  BY SetupStays DEF SyncsKnow, Durable, OpKeys, Covers, Uses
<1>1. Settled(o) /\ F[o] = E[o]
  BY CommitRemembered DEF Renumbers
<1>2. CASE mode[p] = "up" /\ sync'[p].epoch = pend.epoch
  BY <1>1, <1>2 DEF SettledBefore
<1>3. CASE sync[p].phase # "idle" /\ sync'[p].epoch = sync[p].epoch
  <2>1. CASE ~Remembered(o, k)
    BY <1>1, <1>3, <2>1 DEF SyncsKnow
  <2>2. ASSUME NEW q \in Proc, SyncSettle(q),
               NEW r \in pend.records, r.op = o, r.state = "committed", r.epoch <= sync[q].epoch
        PROVE  E[o] <= sync[p].epoch
    <3>1. mode[p] = "up" /\ mode[q] = "up"
      BY <1>3, <2>2 DEF Quiet, SyncSettle, NoSync
    <3>2. p = q
      BY <3>1, OneRuns
    <3> QED
      BY <1>1, <2>2, <3>2 DEF RecordsTell
  <2>3. ASSUME NEW q \in Proc, ClearPrefix(q) PROVE FALSE
    <3>1. mode[p] = "up" /\ mode[q] = "purging"
      BY <1>3, <2>3 DEF Quiet, ClearPrefix, NoSync
    <3> QED
      BY <3>1, OneRuns
  <2> QED
    BY <1>1, <1>3, <2>1, <2>2, <2>3, RememberedStays
<1> QED
  BY <1>2, <1>3, SyncLives

\* inProcessProof goes on standing for a replica that has every settled write without a record.
LEMMA ProofHoldsStep ==
  ASSUME TypeOK, TypeOK', Quiet, NodeIsNewest', WritesRecorded, [Next]_vars,
         NEW E \in [Op -> Nat], SyncsHave(E), RecordsTell(E), SyncsKnow(E), ProofHolds
  PROVE  ProofHolds'
<1> SUFFICES ASSUME ~Durable, NEW p \in proof', NEW o \in Op,
                    Settled(o)', rep'[Uses[p]].coverage = "complete",
                    NEW k \in OpKeys[o] \cap Covers[Uses[p]], ~Remembered(o, k)'
             PROVE  rep'[Uses[p]].copy[k] >= landed'[o]
  BY SetupStays DEF ProofHolds, Durable, OpKeys, Covers, Uses
<1> DEFINE r == Uses[p]
<1>1. /\ p \in Proc /\ r \in Replica /\ k \in Key
      /\ landed'[o] \in Nat /\ server'[k] \in Nat /\ server'[k] >= landed'[o]
  BY Deployment, SetupStays DEF NodeIsNewest, OpKeys, TypeOK
<1>2. Settled(o) /\ landed'[o] = landed[o]
  BY CommitRemembered, SettledStep
<1>3. mode[p] # "absent"
  BY <1>1, ProofMoves DEF Quiet, WriteFence, NoSync
<1>4. ASSUME NEW q \in Proc, Crash(q) PROVE FALSE
  BY <1>1, <1>3, <1>4, OneRuns DEF Crash
<1>5. ASSUME NEW e \in Nat, sync[p].phase \in {"finished", "fenced"}, sync[p].epoch = e,
             E[o] <= e, rep[r].coverage = "complete"
      PROVE  rep[r].copy[k] >= landed[o]
  BY <1>1, <1>2, <1>5 DEF SyncsHave, HasUpTo
<1>6. CASE WriteFence(p)
  <2>1. rep' = rep /\ pend' = pend /\ sync[p].phase = "finished" /\ sync[p].epoch \in Nat
    BY <1>1, <1>6 DEF WriteFence, TypeOK, Sync
  <2>2. E[o] <= sync[p].epoch
    BY <1>1, <1>2, <2>1 DEF SyncsKnow, Remembered
  <2> QED
    BY <1>2, <1>5, <2>1, <2>2
<1>7. CASE p \in proof
  <2>1. CASE Recopied(r)
    BY <1>1, <2>1 DEF Recopied
  <2>2. CASE Kept(r)
    <3>1. rep[r].copy[k] >= landed[o] => rep'[r].copy[k] >= landed'[o]
      BY <1>1, <1>2, <2>2 DEF Kept
    <3>2. CASE ~Remembered(o, k)
      BY <1>2, <1>7, <2>2, <3>1, <3>2 DEF ProofHolds, Kept
    <3>3. ASSUME NEW q \in Proc, SyncSettle(q),
                 NEW x \in pend.records, x.op = o, x.state = "committed", x.epoch <= sync[q].epoch
          PROVE  rep[r].copy[k] >= landed[o]
      <4>1. p = q
        BY <1>1, <1>3, <3>3, OneRuns DEF Quiet, SyncSettle, NoSync
      <4>2. sync[p].phase = "fenced" /\ sync[p].epoch \in Nat /\ E[o] <= sync[p].epoch
        BY <1>1, <1>2, <3>3, <4>1 DEF RecordsTell, SyncSettle, TypeOK, Sync
      <4> QED
        BY <1>5, <2>2, <4>2 DEF Kept
    <3>4. ASSUME NEW q \in Proc, ClearPrefix(q) PROVE FALSE
      <4>1. p = q
        BY <1>1, <1>3, <3>4, OneRuns DEF ClearPrefix
      <4> QED
        BY <3>4, <4>1 DEF ClearPrefix
    <3> QED
      BY <1>2, <1>4, <3>1, <3>2, <3>3, <3>4, RememberedStays
  <2> QED
    BY <1>1, <2>1, <2>2, CopyStep
<1> QED
  BY <1>1, <1>6, <1>7, ProofMoves


\* Some numbering of the settled writes goes on fitting the records, the fences, the syncs and
\* the reads; when a volatile store ends, nothing is left that had to fit.
LEMMA EpochsStep ==
  ASSUME TypeOK, TypeOK', Quiet, NodeIsNewest', WritesRecorded, EpochsExist, ProofHolds,
         [Next]_vars
  PROVE  EpochsExist' /\ ProofHolds'
<1>1. PICK E \in [Op -> Nat] : Epochs(E)
  BY DEF EpochsExist
<1>2. ProofHolds'
  BY <1>1, ProofHoldsStep DEF Epochs
<1>3. ASSUME Durable \/ \A p \in Proc : ~Crash(p) PROVE EpochsExist'
  <2>1. \E F \in [Op -> Nat] : Renumbers(E, F)
    <3> DEFINE F == [o \in Op |-> IF Settled(o) THEN E[o] ELSE pend.epoch + 1]
    <3>1. F \in [Op -> Nat]
      BY PendingTyped
    <3>2. Renumbers(E, F)
      BY DEF Renumbers
    <3> QED
      BY <3>1, <3>2
  <2>2. PICK F \in [Op -> Nat] : Renumbers(E, F)
    BY <2>1
  <2>3. pend.epoch <= pend'.epoch /\ pend'.epoch \in Nat
    BY <1>3, EpochGrows DEF TypeOK
  <2>4. Carried(E, F)
    BY <2>2, CarriedStep
  <2>5. SettledBefore(F)'
    BY <1>1, <2>2, <2>3, SettledBeforeStep DEF Epochs
  <2>6. SyncsHave(F)' /\ FencesHave(F)' /\ ReadsHave(F)'
    BY <1>1, <2>3, <2>4, SyncsHaveStep, FencesHaveStep, ReadsHaveStep DEF Epochs
  <2>7. RecordsTell(F)'
    BY <1>1, <2>2, RecordsTellStep DEF Epochs
  <2>8. SyncsKnow(F)'
    <3>1. CASE Durable
      BY <3>1, SetupStays DEF SyncsKnow, Durable
    <3>2. CASE \A p \in Proc : ~Crash(p)
      BY <1>1, <2>2, <3>2, SyncsKnowStep DEF Epochs
    <3> QED
      BY <1>3, <3>1, <3>2
  <2>9. Epochs(F)'
    BY <2>5, <2>6, <2>7, <2>8 DEF Epochs
  <2> QED
    BY <2>9 DEF EpochsExist
<1>4. ASSUME ~Durable, NEW p \in Proc, Crash(p) PROVE EpochsExist'
  <2> DEFINE F == [o \in Op |-> 0]
  <2>1. F \in [Op -> Nat] /\ \A o \in Op : F[o] = 0
    OBVIOUS
  <2> HIDE DEF F
  <2>2. ~Durable' /\ pend'.epoch = 0 /\ pend'.records = {}
    BY <1>4, SetupStays DEF Crash, Durable, NoPending
  <2>3. \A q \in Proc : sync'[q].phase = "idle"
    <3> SUFFICES ASSUME NEW q \in Proc PROVE sync'[q].phase = "idle"
      OBVIOUS
    <3>1. CASE q = p
      BY <1>4, <3>1 DEF Crash, NoSync, TypeOK
    <3>2. CASE q # p
      BY <1>4, <3>2, OneRuns DEF Crash, NoSync, TypeOK, Quiet
    <3> QED
      BY <3>1, <3>2
  <2>4. Epochs(F)'
    BY <2>1, <2>2, <2>3
    DEF Epochs, SettledBefore, SyncsHave, FencesHave, ReadsHave, RecordsTell, SyncsKnow
  <2> QED
    BY <2>1, <2>4 DEF EpochsExist
<1> QED
  BY <1>2, <1>3, <1>4

\* The controller's checks are enough: no record names the key, so the write is settled, and
\* the fence (or the proof) then says that the replica has it.
LEMMA CheckIsEnough ==
  ASSUME TypeOK, WritesRecorded, EpochsExist, ProofHolds,
         NEW p \in Proc, read[p].phase = "inspected", UsesReplica(p),
         rep[Uses[p]].coverage = "complete",
         NEW o \in Op, o \notin surrendered, landed[o] # 0,
         read[p].key \in OpKeys[o] \cap Covers[Uses[p]]
  PROVE  rep[Uses[p]].copy[read[p].key] >= landed[o]
<1>1. \A r \in pend.records : r.key # read[p].key
  BY DEF UsesReplica
<1>2. Settled(o)
  BY <1>1 DEF WritesRecorded, Unanswered, Settled, TypeOK
<1>3. ~Remembered(o, read[p].key)
  BY <1>1 DEF Remembered
<1>4. CASE Durable
  <2>1. PICK E \in [Op -> Nat] : SettledBefore(E) /\ ReadsHave(E)
    BY DEF EpochsExist, Epochs
  <2>2. E[o] <= read[p].fence
    BY <1>2, <2>1, PendingTyped DEF SettledBefore, UsesReplica, TypeOK, Read
  <2> QED
    BY <1>2, <1>4, <2>1, <2>2 DEF ReadsHave, HasUpTo
<1>5. CASE ~Durable
  BY <1>2, <1>3, <1>5 DEF UsesReplica, ProofHolds
<1> QED
  BY <1>4, <1>5

\* A read is checked only by those checks.
LEMMA ReadChecks ==
  ASSUME TypeOK, [Next]_vars
  PROVE  \A p \in Proc : read'[p].phase = "checked" =>
           \/ read'[p] = read[p]
           \/ /\ read[p].phase = "inspected" /\ UsesReplica(p)
              /\ read'[p].key = read[p].key /\ read'[p].need = read[p].need
              /\ rep' = rep /\ landed' = landed /\ surrendered' = surrendered
<1> DEFINE Goal == \A p \in Proc : read'[p].phase = "checked" =>
               \/ read'[p] = read[p]
               \/ /\ read[p].phase = "inspected" /\ UsesReplica(p)
                  /\ read'[p].key = read[p].key /\ read'[p].need = read[p].need
                  /\ rep' = rep /\ landed' = landed /\ surrendered' = surrendered
<1>1. ASSUME UNCHANGED read PROVE Goal
  BY <1>1 DEF TypeOK, Read, NoRead, Durable
<1>2. ASSUME NEW o \in Op, BeginWrite(o) \/ Land(o) \/ WriteCommitted(o) \/ WriteFailed(o)
             \/ WriteAmbiguous(o) \/ SettleLost(o)
      PROVE  Goal
  BY <1>1, <1>2 DEF BeginWrite, node, disk, memory, Land, WriteCommitted, WriteFailed,
     WriteAmbiguous, SettleLost
<1>3. ASSUME NEW p \in Proc, Open(p) \/ SyncStart(p) \/ SyncLease(p) \/ SyncRefused(p)
             \/ SyncLastPage(p) \/ NodeReset(p) \/ WriteFence(p) \/ SyncSettle(p)
             \/ SyncFails(p) \/ ClearPrefix(p) \/ ClearPending(p) \/ Bind(p)
      PROVE  Goal
  BY <1>1, <1>3 DEF Open, node, SyncStart, disk, SyncLease, SyncRefused, SyncLastPage,
     NodeReset, memory, WriteFence, SyncSettle, SyncFails, ClearPrefix, ClearPending, Bind
<1>4. ASSUME NEW p \in Proc, NEW k \in Key, SyncPage(p, k) PROVE Goal
  BY <1>1, <1>4 DEF SyncPage, node, memory
<1>5. ASSUME NEW r \in Replica, LeaseExpires(r) PROVE Goal
  BY <1>1, <1>5 DEF LeaseExpires, node, memory
<1>6. ASSUME NEW p \in Proc, NEW k \in Key, ReadStatus(p, k) PROVE Goal
  BY <1>6 DEF ReadStatus, Uses, HandleLive, Covers, node, disk, TypeOK, Read, NoRead, Durable
<1>7. ASSUME NEW p \in Proc, ReadRefresh(p) PROVE Goal
  BY <1>7 DEF ReadRefresh, HandleLive, Uses, node, disk, TypeOK, Read, NoRead, Durable
<1>8. ASSUME NEW p \in Proc, ReadCheck(p) PROVE Goal
  <2>1. UsesReplica(p)
    BY <1>8 DEF ReadCheck
  <2> QED
    BY <1>8, <2>1 DEF ReadCheck, node, disk, TypeOK, Read
<1>9. ASSUME NEW p \in Proc, ReadEnd(p) PROVE Goal
  BY <1>9 DEF ReadEnd, NoRead, node, disk, TypeOK, Read, Durable
<1>10. ASSUME NEW p \in Proc, Purge(p) PROVE Goal
  BY <1>10 DEF Purge, Uses, MaxGen, Emptied, NoRead, node, TypeOK, Read, Durable
<1>11. ASSUME NEW p \in Proc, Crash(p) PROVE Goal
  BY <1>11 DEF Crash, MaxFaults, NoSync, NoRead, Writer, Durable, NoPending, Unsettled, node,
     disk, TypeOK, Read
<1> QED
  BY <1>1, <1>2, <1>3, <1>4, <1>5, <1>6, <1>7, <1>8, <1>9, <1>10, <1>11
  DEF Next, WriteStep, SyncStep, ReadStep, LifeStep, vars, node, disk, memory

\* Only more records are given up.
LEMMA NeedsStay ==
  ASSUME [Next]_vars
  PROVE  surrendered \subseteq surrendered'
<1>1. ASSUME UNCHANGED surrendered PROVE surrendered \subseteq surrendered'
  BY <1>1
<1>2. ASSUME NEW o \in Op, BeginWrite(o) \/ Land(o) \/ WriteCommitted(o) \/ WriteFailed(o)
             \/ WriteAmbiguous(o) \/ SettleLost(o)
      PROVE  surrendered \subseteq surrendered'
  BY <1>1, <1>2 DEF BeginWrite, node, disk, memory, Land, WriteCommitted, WriteFailed,
     WriteAmbiguous, SettleLost
<1>3. ASSUME NEW p \in Proc, Open(p) \/ SyncStart(p) \/ SyncLease(p) \/ SyncRefused(p)
             \/ SyncLastPage(p) \/ NodeReset(p) \/ WriteFence(p) \/ SyncSettle(p)
             \/ SyncFails(p) \/ ReadRefresh(p) \/ ReadCheck(p) \/ ReadEnd(p) \/ Purge(p)
             \/ Bind(p)
      PROVE  surrendered \subseteq surrendered'
  BY <1>1, <1>3 DEF Open, node, SyncStart, disk, SyncLease, SyncRefused, SyncLastPage,
     NodeReset, memory, WriteFence, SyncSettle, SyncFails, ReadRefresh, ReadCheck, ReadEnd,
     Purge, Bind
<1>4. ASSUME NEW p \in Proc, NEW k \in Key, SyncPage(p, k) \/ ReadStatus(p, k)
      PROVE  surrendered \subseteq surrendered'
  BY <1>1, <1>4 DEF SyncPage, node, memory, ReadStatus, disk
<1>5. ASSUME NEW r \in Replica, LeaseExpires(r) PROVE surrendered \subseteq surrendered'
  BY <1>1, <1>5 DEF LeaseExpires, node, memory
<1>6. ASSUME NEW p \in Proc, ClearPrefix(p) PROVE surrendered \subseteq surrendered'
  BY <1>6 DEF ClearPrefix, Covers, Uses, Unsettled, node, disk
<1>7. ASSUME NEW p \in Proc, ClearPending(p) PROVE surrendered \subseteq surrendered'
  BY <1>7 DEF ClearPending, Unsettled, node, disk, memory
<1>8. ASSUME NEW p \in Proc, Crash(p) PROVE surrendered \subseteq surrendered'
  BY <1>8 DEF Crash, MaxFaults, NoSync, NoRead, Writer, Durable, NoPending, Unsettled, node,
     disk
<1> QED
  BY <1>1, <1>2, <1>3, <1>4, <1>5, <1>6, <1>7, <1>8
  DEF Next, WriteStep, SyncStep, ReadStep, LifeStep, vars, node, disk, memory

\* A write lands once.
LEMMA LandedStays ==
  ASSUME TypeOK, [Next]_vars
  PROVE  \A x \in Op : landed[x] # 0 => landed'[x] = landed[x]
<1> DEFINE Goal == \A x \in Op : landed[x] # 0 => landed'[x] = landed[x]
<1>1. ASSUME UNCHANGED landed PROVE Goal
  BY <1>1
<1>2. ASSUME NEW o \in Op, BeginWrite(o) \/ WriteCommitted(o) \/ WriteFailed(o)
             \/ WriteAmbiguous(o) \/ SettleLost(o)
      PROVE  Goal
  BY <1>1, <1>2 DEF BeginWrite, node, disk, memory, WriteCommitted, WriteFailed,
     WriteAmbiguous, SettleLost
<1>3. ASSUME NEW p \in Proc, Open(p) \/ SyncStart(p) \/ SyncLease(p) \/ SyncRefused(p)
             \/ SyncLastPage(p) \/ NodeReset(p) \/ WriteFence(p) \/ SyncSettle(p)
             \/ SyncFails(p) \/ ReadRefresh(p) \/ ReadCheck(p) \/ ReadEnd(p) \/ Purge(p)
             \/ ClearPrefix(p) \/ ClearPending(p) \/ Crash(p) \/ Bind(p)
      PROVE  Goal
  BY <1>1, <1>3 DEF Open, node, SyncStart, disk, SyncLease, SyncRefused, SyncLastPage,
     NodeReset, memory, WriteFence, SyncSettle, SyncFails, ReadRefresh, ReadCheck, ReadEnd,
     Purge, ClearPrefix, ClearPending, Crash, Bind
<1>4. ASSUME NEW p \in Proc, NEW k \in Key, SyncPage(p, k) \/ ReadStatus(p, k) PROVE Goal
  BY <1>1, <1>4 DEF SyncPage, node, memory, ReadStatus, disk
<1>5. ASSUME NEW r \in Replica, LeaseExpires(r) PROVE Goal
  BY <1>1, <1>5 DEF LeaseExpires, node, memory
<1>6. ASSUME NEW o \in Op, Land(o) PROVE Goal
  BY <1>6 DEF Land, TypeOK
<1> QED
  BY <1>1, <1>2, <1>3, <1>4, <1>5, <1>6 DEF Next, WriteStep, SyncStep, ReadStep, LifeStep,
     vars, node, disk, memory


\* A read that was checked stays right until it is delivered, whatever syncs, resets and purges
\* happen in between.
LEMMA CheckedStep ==
  ASSUME TypeOK, TypeOK', NodeIsNewest', WritesRecorded, EpochsExist, ProofHolds,
         ReadsSound, CheckedReads, [Next]_vars
  PROVE  CheckedReads'
<1> SUFFICES ASSUME NEW p \in Proc, NEW r, r = Uses[p],
                    read'[p].phase = "checked", rep'[r].coverage = "complete",
                    NEW o \in read'[p].need \ surrendered', NEW k, k = read'[p].key,
                    k \in OpKeys[o]
             PROVE  rep'[r].copy[k] >= landed'[o]
  BY SetupStays DEF CheckedReads, Uses, OpKeys
<1>1. /\ read'[p].need = read[p].need /\ k = read[p].key
      /\ read[p].phase \in {"inspected", "checked"}
  BY ReadChecks
<1>2. o \in Op /\ o \notin surrendered
  BY <1>1, NeedsStay DEF TypeOK, Read
<1>3. r \in Replica /\ k \in Covers[r] /\ k \in Key /\ landed[o] # 0
  BY <1>1, Deployment DEF ReadsSound
<1>4. landed'[o] = landed[o] /\ landed[o] \in Nat /\ server'[k] \in Nat /\ server'[k] >= landed'[o]
  BY <1>2, <1>3, LandedStays, SetupStays DEF NodeIsNewest, OpKeys, TypeOK
<1>5. CASE read'[p] = read[p]
  <2>1. CASE Recopied(r)
    BY <1>3, <1>4, <2>1 DEF Recopied
  <2>2. CASE Kept(r)
    <3>1. rep[r].copy[k] >= landed[o]
      BY <1>1, <1>2, <1>3, <1>5, <2>2 DEF CheckedReads, Kept
    <3> QED
      BY <1>3, <1>4, <2>2, <3>1 DEF Kept
  <2> QED
    BY <1>3, <2>1, <2>2, CopyStep
<1>6. CASE read[p].phase = "inspected" /\ UsesReplica(p) /\ rep' = rep
  BY <1>1, <1>2, <1>3, <1>4, <1>6, CheckIsEnough
<1> QED
  BY <1>5, <1>6, ReadChecks

\* The invariant holds of the deployment before its first sync.
LEMMA InvInit == Init => Inv
<1> SUFFICES ASSUME Init PROVE Inv
  OBVIOUS
<1>1. TypeOK
  BY ConstantsAssumption
  DEF Init, TypeOK, NoPending, NoSync, NoRead, Emptied, Mirror, Sync, Read, Record, OpKeys, Durable
<1>2. Quiet /\ NodeIsNewest /\ WritesRecorded
  BY <1>1, Deployment
  DEF Init, Quiet, NodeIsNewest, WritesRecorded, NoPending, NoSync, Unanswered
<1>3. ProofHolds /\ ReadsSound /\ CheckedReads
  BY DEF Init, ProofHolds, ReadsSound, CheckedReads, NoRead
<1>4. EpochsExist
  <2> DEFINE F == [o \in Op |-> 0]
  <2>1. F \in [Op -> Nat]
    OBVIOUS
  <2>2. Epochs(F)
    BY <1>1, Deployment
    DEF Init, Epochs, SettledBefore, SyncsHave, FencesHave, ReadsHave, RecordsTell, SyncsKnow,
        Settled, HasUpTo, NoPending, NoSync, NoRead
  <2> HIDE DEF F
  <2> QED
    BY <2>1, <2>2 DEF EpochsExist
<1> QED
  BY <1>1, <1>2, <1>3, <1>4 DEF Inv

\* Every step keeps it.
LEMMA InvStep == Inv /\ [Next]_vars => Inv'
<1> SUFFICES ASSUME Inv, [Next]_vars PROVE Inv'
  OBVIOUS
<1> USE DEF Inv
<1>1. TypeOK' /\ Quiet' /\ NodeIsNewest' /\ WritesRecorded' /\ ReadsSound'
  BY TypeOKStep, QuietStep, NewestStep, RecordedStep, ReadsSoundStep
<1>2. EpochsExist' /\ ProofHolds'
  BY <1>1, EpochsStep
<1>3. CheckedReads'
  BY <1>1, CheckedStep
<1> QED
  BY <1>1, <1>2, <1>3

\* It holds always.
LEMMA Invariant == Spec => []Inv
  BY InvInit, InvStep, PTL DEF Spec

-----------------------------------------------------------------------------
\* The pending records, the replicas, the syncs and the reads keep their types, and a record
\* has an epoch exactly when it is committed.
THEOREM TypeCorrect == Spec => []TypeOK
<1>1. Inv => TypeOK
  BY DEF Inv
<1> QED
  BY <1>1, Invariant, PTL

\* A read served from the replica shows every write of this identity that had landed when the
\* read began, in every deployment of controllers, replicas and keys: with the checks of get
\* (no record of the key, the fence at committedEpoch, a proof of this process when the store
\* is volatile) and any order of syncs, faults, resets, purges and clears.
THEOREM OwnWritesAreRead == Spec => []LocalReadsSeeOwnWrites
<1>1. Inv => LocalReadsSeeOwnWrites
  BY DEF Inv, CheckedReads, LocalReadsSeeOwnWrites, Deliverable
<1> QED
  BY <1>1, Invariant, PTL

=============================================================================
