---------------------------- MODULE ReadThrough ----------------------------
(***************************************************************************)
(* Read-your-writes of the local KV replica: the replication controller    *)
(* (packages/sdk-services/src/kv/replication/controller.ts), its pending   *)
(* writes (pendingWrites.ts) and the Node replica handle with its fence    *)
(* file and sync lease (packages/node-sdk/src/replication/sqlite.ts,       *)
(* packages/replica/src/engine.ts, sqlite/store.ts).                       *)
(*                                                                         *)
(* A covered write is recorded as in_flight before it is dispatched and    *)
(* settled afterwards; a committed write gets the next committedEpoch.  A  *)
(* sync remembers the epoch it started from, copies the node's feed into   *)
(* the replica under the sync lease, then writes that epoch to fence.json, *)
(* then drops the committed records it covers.  A local read is served     *)
(* only if no record names its key and the fence has reached the epoch.    *)
(*                                                                         *)
(* A controller follows one prefix; processes that configure several       *)
(* prefixes are several controllers here, since controller.ts keeps no     *)
(* other state across prefixes.  All controllers share one identity: one   *)
(* pending.json when Durable, one in-memory store otherwise.  The value of *)
(* a key is the index of the last write that landed on it at the node.     *)
(***************************************************************************)
EXTENDS Naturals

CONSTANTS
  Proc,          \* controllers
  Replica,       \* replica directories: one per (prefix, device)
  Key,
  Op,            \* writes; each is issued once
  NoProc, NoKey,
  Setup          \* the deployments of which one is chosen

\* A deployment: the replica of each controller that runs and the keys under its prefix,
\* the controller that issues each write and the write's keys (none: it is not issued), and
\* whether pending records outlive a process.  maxGen bounds the generations of a replica,
\* maxFaults the failures, and may names what else may happen.
ASSUME ConstantsAssumption ==
  /\ NoProc \notin Proc /\ NoKey \notin Key
  /\ \A s \in Setup :
       /\ s.runs \subseteq Proc
       /\ s.uses \in [Proc -> Replica]
       /\ s.covers \in [Replica -> SUBSET Key]
       /\ s.writer \in [Op -> s.runs]
       /\ s.keys \in [Op -> SUBSET Key]
       /\ \A o \in Op : s.keys[o] \subseteq s.covers[s.uses[s.writer[o]]]
       /\ s.durable \in BOOLEAN
       /\ ~s.durable => \A p, q \in s.runs : p = q
       /\ s.maxGen \in Nat /\ s.maxFaults \in Nat
       /\ s.may \subseteq {"crash", "purge", "clear", "reset"}

VARIABLE setup   \* the deployment; it never changes

Uses      == setup.uses
Covers    == setup.covers
Writer    == setup.writer
OpKeys    == setup.keys
Durable   == setup.durable
MaxGen    == setup.maxGen
MaxFaults == setup.maxFaults

VARIABLES
  landings,   \* writes the node has applied so far
  server,     \* server[k]: index of the last write the node applied to k
  landed,     \* landed[o]: index at which the node applied o, 0 before
  op,         \* op[o]: the issuing controller's view of o
  pend,       \* the pending-write store: committedEpoch and records
  rep,        \* rep[r]: generation, coverage and copied entries of a replica
  fence,      \* fence[r]: fence.json
  lease,      \* lease[r]: holder of the sync lease
  mode,       \* mode[p]: life of a controller
  opened,     \* opened[p]: generation of the handle p holds, 0 without one
  sync,       \* sync[p]: the sync p runs
  proof,      \* inProcessProof: controllers that synced since they started
  read,       \* read[p]: the read p serves
  faults

\* What the properties remember; no action's guard reads these.
VARIABLES
  surrendered,  \* writes whose unsettled record was cleared
  erased        \* erased[r]: the last generation that was purged

node    == <<landings, server, landed>>
disk    == <<rep, fence, lease>>
memory  == <<mode, opened, sync, proof, read>>
vars    == <<setup, node, op, pend, disk, memory, faults, surrendered, erased>>

-----------------------------------------------------------------------------
Record == [op : Op, key : Key, state : {"in_flight", "committed", "ambiguous"}, epoch : Nat]
Mirror == [gen : Nat \ {0}, coverage : {"none", "empty", "bootstrapping", "complete"},
           copy : [Key -> Nat]]
Sync   == [phase : {"idle", "started", "paging", "finished", "fenced"}, epoch : Nat]
Read   == [phase : {"idle", "inspected", "checked"}, key : Key \cup {NoKey},
           fence : Nat, complete : BOOLEAN, need : SUBSET Op]

NoPending == [epoch |-> 0, records |-> {}]
NoSync    == [phase |-> "idle", epoch |-> 0]
NoRead    == [phase |-> "idle", key |-> NoKey, fence |-> 0, complete |-> FALSE, need |-> {}]
Emptied(g, coverage) == [gen |-> g, coverage |-> coverage, copy |-> [k \in Key |-> 0]]

-----------------------------------------------------------------------------
\* pendingWrites.ts, as functions of the stored state.
Begin(s, o) ==
  [s EXCEPT !.records = @ \cup
     {[op |-> o, key |-> k, state |-> "in_flight", epoch |-> 0] : k \in OpKeys[o]}]

Own(s, o) == {r \in s.records : r.op = o /\ r.state = "in_flight"}

Committed(s, o, e) ==
  (s.records \ Own(s, o)) \cup {[r EXCEPT !.state = "committed", !.epoch = e] : r \in Own(s, o)}

SettleCommitted_SameEpoch(s, o) == [s EXCEPT !.records = Committed(s, o, s.epoch)]
SettleCommitted_Supersedes(s, o) ==
  IF Own(s, o) = {} THEN s
  ELSE [epoch   |-> s.epoch + 1,
        records |-> {r \in Committed(s, o, s.epoch + 1) :
                       r.state = "ambiguous" => r.key \notin OpKeys[o]}]
SettleCommitted(s, o) ==
  IF Own(s, o) = {} THEN s
  ELSE [epoch |-> s.epoch + 1, records |-> Committed(s, o, s.epoch + 1)]

SettleAmbiguous(s, o) ==
  [s EXCEPT !.records = (@ \ Own(s, o)) \cup
     {[r EXCEPT !.state = "ambiguous"] : r \in Own(s, o)}]

SettleFailed(s, o) == [s EXCEPT !.records = {r \in @ : r.op # o}]

Synced_Strict(r, replica, startEpoch) ==
  r.state = "committed" /\ r.epoch < startEpoch /\ r.key \in Covers[replica]
Synced(r, replica, startEpoch) ==
  r.state = "committed" /\ r.epoch <= startEpoch /\ r.key \in Covers[replica]
AfterSync(s, replica, startEpoch) ==
  [s EXCEPT !.records = {r \in @ : ~Synced(r, replica, startEpoch)}]

Unsettled(records) == {r.op : r \in {x \in records : x.state # "committed"}}

-----------------------------------------------------------------------------
\* assertLive and the snapshot's generation check.
HandleLive(p) ==
  /\ opened[p] = rep[Uses[p]].gen
  /\ rep[Uses[p]].coverage # "none"

\* checkLease: the sync still holds the lease it took.
HoldsLease(p) == sync[p].phase = "paging" /\ lease[Uses[p]] = p

\* The local-read conditions of get, on the status it inspected and the store as it is now.
UsesReplica_NoFence(p) ==
  /\ \A r \in pend.records : r.key # read[p].key
  /\ Durable \/ p \in proof
  /\ read[p].complete
UsesReplica_NoProof(p) ==
  /\ \A r \in pend.records : r.key # read[p].key
  /\ read[p].fence >= pend.epoch
  /\ read[p].complete
UsesReplica(p) ==
  /\ \A r \in pend.records : r.key # read[p].key
  /\ Durable \/ p \in proof
  /\ read[p].fence >= pend.epoch
  /\ read[p].complete

\* handle.get would deliver: same generation, and coverage still complete.
Deliverable(p) ==
  /\ read[p].phase = "checked"
  /\ HandleLive(p)
  /\ rep[Uses[p]].coverage = "complete"

-----------------------------------------------------------------------------
Init ==
  /\ setup \in Setup
  /\ landings = 0
  /\ server = [k \in Key |-> 0]
  /\ landed = [o \in Op |-> 0]
  /\ op = [o \in Op |-> IF OpKeys[o] = {} THEN "done" ELSE "new"]
  /\ pend = NoPending
  /\ rep = [r \in Replica |-> Emptied(1, "none")]
  /\ fence = [r \in Replica |-> 0]
  /\ lease = [r \in Replica |-> NoProc]
  /\ mode = [p \in Proc |-> IF p \in setup.runs THEN "up" ELSE "absent"]
  /\ opened = [p \in Proc |-> 0]
  /\ sync = [p \in Proc |-> NoSync]
  /\ proof = {}
  /\ read = [p \in Proc |-> NoRead]
  /\ faults = 0
  /\ surrendered = {}
  /\ erased = [r \in Replica |-> 0]

-----------------------------------------------------------------------------
\* A write: recorded, dispatched, applied by the node, settled.
BeginWrite(o) ==
  /\ op[o] = "new"
  /\ mode[Writer[o]] # "down"
  /\ op' = [op EXCEPT ![o] = "sent"]
  /\ pend' = Begin(pend, o)
  /\ UNCHANGED <<setup, node, disk, memory, faults, surrendered, erased>>

\* The node applies a dispatched write, even after its caller gave up on it.
Land(o) ==
  /\ op[o] \in {"sent", "unknown"}
  /\ landed[o] = 0
  /\ landings' = landings + 1
  /\ landed' = [landed EXCEPT ![o] = landings']
  /\ server' = [k \in Key |-> IF k \in OpKeys[o] THEN landings' ELSE server[k]]
  /\ UNCHANGED <<setup, op, pend, disk, memory, faults, surrendered, erased>>

WriteCommitted(o) ==
  /\ op[o] = "sent"
  /\ landed[o] # 0
  /\ op' = [op EXCEPT ![o] = "done"]
  /\ pend' = SettleCommitted(pend, o)
  /\ UNCHANGED <<setup, node, disk, memory, faults, surrendered, erased>>

\* A definitive refusal: the node did not apply the write and never will.
WriteFailed(o) ==
  /\ op[o] = "sent"
  /\ landed[o] = 0
  /\ op' = [op EXCEPT ![o] = "done"]
  /\ pend' = SettleFailed(pend, o)
  /\ UNCHANGED <<setup, node, disk, memory, faults, surrendered, erased>>

\* No usable answer; the settled record stays ambiguous.
WriteAmbiguous(o) ==
  /\ op[o] = "sent"
  /\ op' = [op EXCEPT ![o] = "unknown"]
  /\ pend' = SettleAmbiguous(pend, o)
  /\ UNCHANGED <<setup, node, disk, memory, faults, surrendered, erased>>

\* The settle itself fails: the caller gets its answer, the record stays in_flight.
SettleLost(o) ==
  /\ op[o] = "sent"
  /\ faults < MaxFaults
  /\ faults' = faults + 1
  /\ op' = [op EXCEPT ![o] = "unknown"]
  /\ UNCHANGED <<setup, node, pend, disk, memory, surrendered, erased>>

-----------------------------------------------------------------------------
\* A sync of controller p.
Open(p) ==
  LET r == Uses[p] IN
  /\ mode[p] = "up"
  /\ opened[p] = 0
  /\ opened' = [opened EXCEPT ![p] = rep[r].gen]
  /\ rep' = [rep EXCEPT ![r].coverage = IF @ = "none" THEN "empty" ELSE @]
  /\ UNCHANGED <<setup, node, op, pend, fence, lease, mode, sync, proof, read,
                 faults, surrendered, erased>>

SyncStart(p) ==
  /\ mode[p] = "up"
  /\ opened[p] # 0
  /\ sync[p].phase = "idle"
  /\ sync' = [sync EXCEPT ![p] = [phase |-> "started", epoch |-> pend.epoch]]
  /\ UNCHANGED <<setup, node, op, pend, disk, mode, opened, proof, read,
                 faults, surrendered, erased>>

\* handle.sync: the handle is live and the lease is free.
SyncLease(p) ==
  /\ sync[p].phase = "started"
  /\ HandleLive(p)
  /\ lease[Uses[p]] = NoProc
  /\ lease' = [lease EXCEPT ![Uses[p]] = p]
  /\ sync' = [sync EXCEPT ![p].phase = "paging"]
  /\ UNCHANGED <<setup, node, op, pend, rep, fence, mode, opened, proof, read,
                 faults, surrendered, erased>>

\* busy, RESET_REQUIRED, a lost lease, or a directory that is gone.
SyncRefused(p) ==
  /\ \/ sync[p].phase = "started" /\ (~HandleLive(p) \/ lease[Uses[p]] # NoProc)
     \/ sync[p].phase = "paging" /\ ~HoldsLease(p)
     \/ sync[p].phase = "finished" /\ rep[Uses[p]].coverage = "none"
  /\ sync' = [sync EXCEPT ![p] = NoSync]
  /\ UNCHANGED <<setup, node, op, pend, disk, mode, opened, proof, read,
                 faults, surrendered, erased>>

\* A page that is not the last brings some keys up to date; coverage stays complete.
SyncPage(p, k) ==
  LET r == Uses[p] IN
  /\ HoldsLease(p)
  /\ k \in Covers[r]
  /\ rep[r].copy[k] # server[k]
  /\ rep' = [rep EXCEPT ![r].copy[k] = server[k],
                        ![r].coverage = IF @ = "complete" THEN @ ELSE "bootstrapping"]
  /\ UNCHANGED <<setup, node, op, pend, fence, lease, memory, faults, surrendered, erased>>

\* The last page (more = false) makes the replica the node's state; the lease is released.
SyncLastPage(p) ==
  LET r == Uses[p] IN
  /\ HoldsLease(p)
  /\ rep' = [rep EXCEPT ![r].copy = [k \in Key |-> IF k \in Covers[r] THEN server[k] ELSE @[k]],
                        ![r].coverage = "complete"]
  /\ lease' = [lease EXCEPT ![r] = NoProc]
  /\ sync' = [sync EXCEPT ![p].phase = "finished"]
  /\ UNCHANGED <<setup, node, op, pend, fence, mode, opened, proof, read,
                 faults, surrendered, erased>>

\* The node answers 410: the replica is reset in place and the feed starts over.
NodeReset(p) ==
  LET r == Uses[p] IN
  /\ "reset" \in setup.may
  /\ HoldsLease(p)
  /\ rep[r].gen < MaxGen
  /\ rep' = [rep EXCEPT ![r] = Emptied(@.gen + 1, "empty")]
  /\ UNCHANGED <<setup, node, op, pend, fence, lease, memory, faults, surrendered, erased>>

\* fence.json, after the lease is released; nothing compares it with the file's old value.
\* handle.sync then returns to the controller, which has its in-process proof.
NewFence_Kept(p) == fence[Uses[p]]
NewFence_Current(p) == pend.epoch
NewFence(p) == sync[p].epoch

WriteFence(p) ==
  /\ sync[p].phase = "finished"
  /\ rep[Uses[p]].coverage # "none"
  /\ fence' = [fence EXCEPT ![Uses[p]] = NewFence(p)]
  /\ proof' = proof \cup {p}
  /\ sync' = [sync EXCEPT ![p].phase = "fenced"]
  /\ UNCHANGED <<setup, node, op, pend, rep, lease, mode, opened, read,
                 faults, surrendered, erased>>

SyncSettle(p) ==
  /\ sync[p].phase = "fenced"
  /\ pend' = AfterSync(pend, Uses[p], sync[p].epoch)
  /\ sync' = [sync EXCEPT ![p] = NoSync]
  /\ UNCHANGED <<setup, node, op, disk, mode, opened, proof, read, faults, surrendered, erased>>

\* Offline, timed out or aborted in any phase; a lease that is still held is released.
SyncFails(p) ==
  /\ sync[p].phase # "idle"
  /\ faults < MaxFaults
  /\ faults' = faults + 1
  /\ lease' = IF HoldsLease(p) THEN [lease EXCEPT ![Uses[p]] = NoProc] ELSE lease
  /\ sync' = [sync EXCEPT ![p] = NoSync]
  /\ UNCHANGED <<setup, node, op, pend, rep, fence, mode, opened, proof, read, surrendered, erased>>

\* A lease outlives its sync (or its process) and is taken over.
LeaseExpires(r) ==
  /\ lease[r] # NoProc
  /\ faults < MaxFaults
  /\ faults' = faults + 1
  /\ lease' = [lease EXCEPT ![r] = NoProc]
  /\ UNCHANGED <<setup, node, op, pend, rep, fence, memory, surrendered, erased>>

-----------------------------------------------------------------------------
\* A local read of key k: status first, the pending store second, the entry last.
ReadStatus(p, k) ==
  LET r == Uses[p] IN
  /\ mode[p] = "up"
  /\ HandleLive(p)
  /\ k \in Covers[r]
  /\ read[p].phase = "idle"
  /\ read' = [read EXCEPT ![p] =
       [phase |-> "inspected", key |-> k, fence |-> fence[r],
        complete |-> rep[r].coverage = "complete",
        need |-> {o \in Op : landed[o] # 0}]]
  /\ UNCHANGED <<setup, node, op, pend, disk, mode, opened, sync, proof,
                 faults, surrendered, erased>>

\* freshness refreshes the status once a stale-read sync has settled.
ReadRefresh(p) ==
  /\ read[p].phase = "inspected"
  /\ sync[p].phase = "idle"
  /\ HandleLive(p)
  /\ read' = [read EXCEPT ![p].fence = fence[Uses[p]],
                          ![p].complete = rep[Uses[p]].coverage = "complete"]
  /\ UNCHANGED <<setup, node, op, pend, disk, mode, opened, sync, proof,
                 faults, surrendered, erased>>

ReadCheck(p) ==
  /\ read[p].phase = "inspected"
  /\ UsesReplica(p)
  /\ read' = [read EXCEPT ![p].phase = "checked"]
  /\ UNCHANGED <<setup, node, op, pend, disk, mode, opened, sync, proof,
                 faults, surrendered, erased>>

\* The read is served locally (Deliverable) or falls back to the network.
ReadEnd(p) ==
  /\ read[p].phase # "idle"
  /\ read' = [read EXCEPT ![p] = NoRead]
  /\ UNCHANGED <<setup, node, op, pend, disk, mode, opened, sync, proof,
                 faults, surrendered, erased>>

-----------------------------------------------------------------------------
\* purge, first half: handles closed, syncs drained, the replica wiped and removed.
Purge(p) ==
  LET r == Uses[p] IN
  /\ "purge" \in setup.may
  /\ mode[p] = "up"
  /\ sync[p].phase = "idle"
  /\ lease[r] = NoProc
  /\ rep[r].coverage # "none" => rep[r].gen < MaxGen
  /\ IF rep[r].coverage = "none" THEN UNCHANGED <<rep, fence, erased>>
     ELSE /\ rep' = [rep EXCEPT ![r] = Emptied(@.gen + 1, "none")]
          /\ fence' = [fence EXCEPT ![r] = 0]
          /\ erased' = [erased EXCEPT ![r] = rep[r].gen]
  /\ mode' = [mode EXCEPT ![p] = "purging"]
  /\ opened' = [opened EXCEPT ![p] = 0]
  /\ read' = [read EXCEPT ![p] = NoRead]
  /\ UNCHANGED <<setup, node, op, pend, lease, sync, proof, faults, surrendered>>

\* purge, second half: the records under the prefix go, whoever wrote them.
ClearPrefix(p) ==
  LET gone == {r \in pend.records : r.key \in Covers[Uses[p]]} IN
  /\ mode[p] = "purging"
  /\ pend' = [pend EXCEPT !.records = @ \ gone]
  /\ surrendered' = surrendered \cup Unsettled(gone)
  /\ mode' = [mode EXCEPT ![p] = "closed"]
  /\ proof' = proof \ {p}
  /\ UNCHANGED <<setup, node, op, disk, opened, sync, read, faults, erased>>

\* clearPending: ambiguous records, and in_flight ones older than ten minutes.
ClearPending(p) ==
  /\ "clear" \in setup.may
  /\ mode[p] \notin {"down", "absent"}
  /\ \E old \in SUBSET {r \in pend.records : r.state = "in_flight"} :
       LET gone == old \cup {r \in pend.records : r.state = "ambiguous"} IN
       /\ gone # {}
       /\ pend' = [pend EXCEPT !.records = @ \ gone]
       /\ surrendered' = surrendered \cup Unsettled(gone)
  /\ UNCHANGED <<setup, node, op, disk, memory, faults, erased>>

Crash(p) ==
  /\ "crash" \in setup.may
  /\ mode[p] \notin {"down", "absent"}
  /\ faults < MaxFaults
  /\ faults' = faults + 1
  /\ mode' = [mode EXCEPT ![p] = "down"]
  /\ opened' = [opened EXCEPT ![p] = 0]
  /\ sync' = [sync EXCEPT ![p] = NoSync]
  /\ read' = [read EXCEPT ![p] = NoRead]
  /\ proof' = proof \ {p}
  /\ op' = [o \in Op |-> IF op[o] = "sent" /\ Writer[o] = p THEN "unknown" ELSE op[o]]
  /\ IF Durable THEN UNCHANGED <<pend, surrendered>>
     ELSE /\ pend' = NoPending
          /\ surrendered' = surrendered \cup Unsettled(pend.records)
  /\ UNCHANGED <<setup, node, disk, erased>>

\* A restarted process, or the runtime binding a session, builds a new controller.
Bind(p) ==
  /\ mode[p] \in {"down", "closed"}
  /\ mode' = [mode EXCEPT ![p] = "up"]
  /\ UNCHANGED <<setup, node, op, pend, disk, opened, sync, proof, read,
                 faults, surrendered, erased>>

-----------------------------------------------------------------------------
WriteStep(o) ==
  \/ BeginWrite(o) \/ Land(o)
  \/ WriteCommitted(o) \/ WriteFailed(o) \/ WriteAmbiguous(o) \/ SettleLost(o)

SyncStep(p) ==
  \/ Open(p) \/ SyncStart(p) \/ SyncLease(p) \/ SyncRefused(p)
  \/ (\E k \in Key : SyncPage(p, k))
  \/ SyncLastPage(p) \/ NodeReset(p) \/ WriteFence(p) \/ SyncSettle(p) \/ SyncFails(p)

ReadStep(p) ==
  \/ (\E k \in Key : ReadStatus(p, k))
  \/ ReadRefresh(p) \/ ReadCheck(p) \/ ReadEnd(p)

LifeStep(p) ==
  \/ Purge(p) \/ ClearPrefix(p) \/ ClearPending(p) \/ Crash(p) \/ Bind(p)

Next ==
  \/ \E o \in Op : WriteStep(o)
  \/ \E p \in Proc : SyncStep(p) \/ ReadStep(p) \/ LifeStep(p)
  \/ \E r \in Replica : LeaseExpires(r)

Spec == Init /\ [][Next]_vars

\* Background mode: every controller opens its replica and syncs at an interval for ever,
\* and a sync that was started and is not disturbed goes on to its end.  Users' writes and
\* reads, faults and the node's resets are not owed to anyone.
Fairness ==
  \A p \in Proc :
    /\ WF_vars(Open(p)) /\ WF_vars(SyncStart(p))
    /\ WF_vars(SyncLease(p) \/ SyncRefused(p))
    /\ WF_vars(SyncLastPage(p)) /\ WF_vars(WriteFence(p)) /\ WF_vars(SyncSettle(p))

FairSpec == Spec /\ Fairness

-----------------------------------------------------------------------------
\* Every part of the state has its type; only a committed record has an epoch, and no
\* record and, with a durable store, no fence and no running sync is ahead of
\* committedEpoch.
TypeOK ==
  /\ setup \in Setup
  /\ landings \in Nat
  /\ server \in [Key -> Nat]
  /\ landed \in [Op -> Nat]
  /\ op \in [Op -> {"new", "sent", "unknown", "done"}]
  /\ pend \in [epoch : Nat, records : SUBSET Record]
  /\ rep \in [Replica -> Mirror]
  /\ fence \in [Replica -> Nat]
  /\ lease \in [Replica -> Proc \cup {NoProc}]
  /\ mode \in [Proc -> {"up", "purging", "closed", "down", "absent"}]
  /\ opened \in [Proc -> Nat]
  /\ sync \in [Proc -> Sync]
  /\ proof \subseteq Proc
  /\ read \in [Proc -> Read]
  /\ faults \in Nat
  /\ surrendered \subseteq Op
  /\ erased \in [Replica -> Nat]
  /\ \A r \in pend.records : (r.state = "committed" <=> r.epoch # 0) /\ r.epoch <= pend.epoch
  /\ Durable => /\ \A r \in Replica : fence[r] <= pend.epoch
                /\ \A p \in Proc : sync[p].epoch <= pend.epoch

\* A read that passed the controller's checks and can still be delivered from the replica
\* returns, for its key, a value at least as new as every write of this identity that the
\* node had applied when the read looked at the replica's status: whichever controller
\* wrote it, whether it was acknowledged or not, over crashes, lost settles, taken-over
\* leases, late fence writes, resets and purges.  Excepted are writes whose unsettled
\* record a purge, clearPending or the end of a volatile store dropped.
LocalReadsSeeOwnWrites ==
  \A p \in Proc : Deliverable(p) =>
    \A o \in read[p].need \ surrendered :
      read[p].key \in OpKeys[o] => rep[Uses[p]].copy[read[p].key] >= landed[o]

\* Background syncs bring every fence up to committedEpoch and keep it there, although a
\* slow sync may put an older epoch back over a newer one.
FencesCatchUp == <>[](\A p \in setup.runs : fence[Uses[p]] = pend.epoch)

\* A committed record does not stay for ever: its key is not pinned to the network.
CommittedRecordsDrain ==
  \A o \in Op :
    (\E r \in pend.records : r.op = o /\ r.state = "committed")
      ~> (\A r \in pend.records : r.op # o)

\* CONTRACT.md: RESET_REQUIRED is reserved for handles whose partition was erased after
\* they opened.  A handle of another generation raises it; a 410 of the node makes one.
ResetRequiredMeansErased ==
  \A p \in Proc :
    opened[p] # 0 /\ opened[p] # rep[Uses[p]].gen => opened[p] <= erased[Uses[p]]
=============================================================================
