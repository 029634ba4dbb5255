-------------------------- MODULE BrowserGateProofs --------------------------
(***************************************************************************)
(* Proofs about the browser replica's account gate, for any tabs, accounts *)
(* and bounds.                                                             *)
(***************************************************************************)
EXTENDS BrowserGate, TLAPS

\* The tombstone is at or above the gate, in epoch and time, and no later than the clock
\* allows for the number of denials.
GateUnderFloor ==
    /\ gate # NoGate => gate.epoch <= tomb.epoch /\ gate.deniedAt <= tomb.at
    /\ tomb.at <= MaxTime + tomb.epoch
    /\ outAt <= tomb.at

\* Rows are in an indexed partition; so is every store that is still of its generation,
\* and every page that can still be committed.
RowsIndexed ==
    /\ rows \subseteq index
    /\ \A t \in Tab : handle[t] # NoStamp /\ handle[t].fresh => handle[t].inc \in index
    /\ \A t \in Tab : page[t] => handle[t] # NoStamp /\ handle[t].fresh

\* Without a gate there is no data; a sign-out that is to be committed finds its account
\* behind the tombstone; a marker is removed only when the database is gone.
UnderWay ==
    /\ gate = NoGate => rows = {} /\ pend = {}
    /\ lock # Free /\ lock.step = "commit" /\ gate # NoGate => Active /\ Behind
    /\ lock # Free /\ lock.step = "unmark" => gate = NoGate

\* A queued delete is never the only thing that will remove data: it may be dropped.
Condemned(i) ==
    \/ /\ i \in rows => <<"partition", i>> \in intents
       /\ i \in pend => <<"pending", i>> \in intents
    \/ Behind
    \/ marker /\ tomb.epoch > 0

DataCondemned == \A i \in rows \cup pend : Owned(i) \/ Condemned(i)

\* Only stamps below the tombstone have been reported as ended.
EndedBelow == \A s \in ended : s.epoch < tomb.epoch

\* The inductive invariant.
Inv ==
    /\ TypeOK /\ GateUnderFloor /\ RowsIndexed /\ UnderWay /\ DataCondemned /\ SignInIsFresh
    /\ EndedBelow

-----------------------------------------------------------------------------
\* What the shared steps leave behind has its type.
LEMMA SectionTyped ==
  ASSUME TypeOK, lock # Free, NEW step \in {"wipe", "mark", "unmark", "purge"}, GoTo(step)
  PROVE  lock' \in Sections
  BY DEF TypeOK, GoTo, Sections

\* What is reported as ended is a stamp.
LEMMA EndedTyped ==
  ASSUME Report
  PROVE  ended' \subseteq Stamps
  BY DEF Report

\* A deleted database leaves the stores that were open, none of them usable.
LEMMA GoneTyped ==
  ASSUME TypeOK, DatabaseGone
  PROVE  /\ handle' \in [Tab -> Stores \cup {NoStamp}] /\ page' \in [Tab -> BOOLEAN]
         /\ gate' = NoGate /\ index' = {} /\ rows' = {} /\ pend' = {} /\ intents' = {}
<1>1. ASSUME NEW t \in Tab, handle[t] # NoStamp
      PROVE  [handle[t] EXCEPT !.fresh = FALSE] \in Stores
  BY <1>1 DEF TypeOK, Stores
<1>2. handle' \in [Tab -> Stores \cup {NoStamp}]
  BY <1>1 DEF DatabaseGone
<1> QED
  BY <1>2 DEF DatabaseGone

\* So does a partition that gets its next generation.
LEMMA OutdateTyped ==
  ASSUME TypeOK, NEW i, Outdate(i)
  PROVE  handle' \in [Tab -> Stores \cup {NoStamp}] /\ page' \in [Tab -> BOOLEAN]
<1>1. ASSUME NEW t \in Tab, handle[t] # NoStamp
      PROVE  [handle[t] EXCEPT !.fresh = FALSE] \in Stores
  BY <1>1 DEF TypeOK, Stores
<1>2. handle' \in [Tab -> Stores \cup {NoStamp}]
  BY <1>1 DEF Outdate, TypeOK
<1>3. page' \in [Tab -> BOOLEAN]
  <2>1. \A t \in Tab : (page[t] /\ handle[t].inc # i) \in BOOLEAN
    OBVIOUS
  <2> QED
    BY <2>1 DEF Outdate, Moved
<1> QED
  BY <1>2, <1>3

\* What a committed deny makes of the gate.
LEMMA DeniedTyped ==
  ASSUME TypeOK, gate \in Gates, NEW g,
         g = [gate EXCEPT !.who = Nobody, !.deadline = 0,
                          !.epoch = tomb.epoch, !.deniedAt = tomb.at]
  PROVE  /\ g \in Gates /\ g.who = Nobody /\ g.deadline = 0
         /\ g.epoch = tomb.epoch /\ g.deniedAt = tomb.at
<1>1. g = [inc |-> gate.inc, epoch |-> tomb.epoch, who |-> Nobody, deniedAt |-> tomb.at,
           deadline |-> 0]
  BY DEF Gates
<1> QED
  BY <1>1, BrowserGateAssumption DEF TypeOK, Gates

\* Every step of the tabs, the worker and the faults keeps the types.
LEMMA TypeOKStep ==
  ASSUME TypeOK, GateUnderFloor, RowsIndexed, [Next]_vars
  PROVE  TypeOK'
<1> USE BrowserGateAssumption, NothingAssumption
<1>1. ASSUME UNCHANGED <<gate, index, rows, pend, intents, queued, tomb, marker, lock, now,
             born, faults, view, leaving, restoring, handle, page, reply, ended, outAt>>
      PROVE  TypeOK'
  BY <1>1 DEF TypeOK, GateUnderFloor, RowsIndexed, Gates, Kinds, Sections, Restores, Stores,
     Stamps
<1>2. ASSUME NEW t \in Tab, NEW p \in Account, NEW at \in 1..MaxTime, Establish(t, p, at)
      PROVE  TypeOK'
  BY <1>2 DEF Establish, DatabaseOpens, FloorReadable, FloorAt, Active, FloorEpoch, Adopt,
     Expired, worker, Behind, MaxOf, Tombstone, TypeOK, GateUnderFloor, RowsIndexed, Gates,
     Kinds, Sections, Restores, Stores, Stamps
<1>3. ASSUME NEW t \in Tab, RestoreRead(t) PROVE TypeOK'
  BY <1>3 DEF RestoreRead, DatabaseOpens, FloorReadable, Active, db, origin, worker, history,
     Behind, TypeOK, GateUnderFloor, RowsIndexed, Gates, Kinds, Sections, Restores, Stores,
     Stamps
<1>4. ASSUME NEW t \in Tab, RestoreKeys(t) PROVE TypeOK'
  <2>1. restoring[t] \in Restores
    BY <1>4 DEF TypeOK, RestoreKeys
  <2>2. [restoring[t] EXCEPT !.keyed = TRUE] \in Restores
    BY <2>1 DEF Restores
  <2>3. restoring' \in [Tab -> Restores \cup {NoStamp}]
    BY <2>2, <1>4 DEF TypeOK, RestoreKeys
  <2> QED
    BY <2>3, <1>4 DEF TypeOK, RestoreKeys, db, origin, worker, history
<1>5. ASSUME NEW t \in Tab, RestoreAdopt(t) PROVE TypeOK'
  BY <1>5 DEF RestoreAdopt, DatabaseOpens, Adopt, db, origin, worker, history, TypeOK,
     GateUnderFloor, RowsIndexed, Gates, Kinds, Sections, Restores, Stores, Stamps
<1>6. ASSUME NEW t \in Tab, AskDeny(t) PROVE TypeOK'
  BY <1>6 DEF AskDeny, db, origin, worker, history, TypeOK, GateUnderFloor, RowsIndexed, Gates,
     Kinds, Sections, Restores, Stores, Stamps
<1>7. ASSUME NEW t \in Tab, StartDeny(t) PROVE TypeOK'
  BY <1>7 DEF StartDeny, DatabaseOpens, FloorReadable, Active, Tombstone, NoFail, Fail, db,
     worker, Behind, FloorEpoch, MaxOf, FloorAt, TypeOK, GateUnderFloor, RowsIndexed, Gates,
     Kinds, Sections, Restores, Stores, Stamps
<1>8. ASSUME NEW t \in Tab, Expire(t) PROVE TypeOK'
  BY <1>8 DEF Expire, DatabaseOpens, FloorReadable, Active, Expired, db, worker, Behind,
     Tombstone, FloorEpoch, MaxOf, FloorAt, TypeOK, GateUnderFloor, RowsIndexed, Gates, Kinds,
     Sections, Restores, Stores, Stamps
<1>9. ASSUME NEW t \in Tab, CommitDeny(t) PROVE TypeOK'
  <2>1. ended' \subseteq Stamps
    BY <1>9, EndedTyped DEF CommitDeny, TypeOK
  <2>2. lock' \in Sections \cup {Free}
    BY <1>9, SectionTyped DEF CommitDeny, Holds, AfterCommit, Release
  <2>3. /\ gate' \in Gates \cup {NoGate}
        /\ gate' # NoGate => (gate'.who = Nobody) = (gate'.deadline = 0)
    <3>1. CASE gate' = gate
      BY <3>1 DEF TypeOK
    <3>2. CASE gate' # gate
      <4>1. gate \in Gates /\ gate' = [gate EXCEPT !.who = Nobody, !.deadline = 0,
                                                  !.epoch = tomb.epoch, !.deniedAt = tomb.at]
        BY <1>9, <3>2 DEF CommitDeny, TypeOK, Active
      <4>2. gate' \in Gates /\ gate'.who = Nobody /\ gate'.deadline = 0
        BY <4>1, DeniedTyped
      <4> QED
        BY <4>2
    <3> QED
      BY <3>1, <3>2
  <2>4. intents' \subseteq Kinds \X (1..MaxInc)
    BY <1>9 DEF CommitDeny, TypeOK, Kinds
  <2> QED
    BY <2>1, <2>2, <2>3, <2>4, <1>9 DEF TypeOK, CommitDeny, origin, session, worker
<1>10. ASSUME NEW t \in Tab, Wipe(t) PROVE TypeOK'
  <2>1. ended' \subseteq Stamps
    BY <1>10, EndedTyped DEF Wipe
  <2>2. DatabaseGone
    BY <1>10 DEF Wipe
  <2> QED
    BY <2>1, <2>2, GoneTyped, <1>10 DEF TypeOK, Wipe, Release, origin, session
<1>11. ASSUME NEW t \in Tab, Mark(t) PROVE TypeOK'
  <2>1. ended' \subseteq Stamps
    BY <1>11, EndedTyped DEF Mark, TypeOK
  <2>2. marker' \in BOOLEAN /\ faults' \in 0..MaxFaults
    <3>1. marker' = TRUE \/ marker' = marker
      BY <1>11 DEF Mark
    <3>2. faults' \in 0..MaxFaults
      BY <1>11 DEF Mark, TypeOK, Fail, NoFail
    <3> QED
      BY <3>1, <3>2, Zenon DEF TypeOK
  <2> QED
    BY <2>1, <2>2, <1>11 DEF TypeOK, Mark, Release, db, session, worker
<1>12. ASSUME NEW t \in Tab, Clear(t) PROVE TypeOK'
  <2>1. lock' \in Sections \cup {Free}
    BY <1>12, SectionTyped DEF Clear, Holds, Release
  <2>2. faults' \in 0..MaxFaults /\ queued' \in Tab \cup {Nobody}
    BY <1>12 DEF Clear, TypeOK, Fail, NoFail
  <2>3. CASE DatabaseGone
    BY <2>1, <2>2, <2>3, GoneTyped, <1>12 DEF TypeOK, Clear, origin, session, history
  <2>4. CASE ~DatabaseGone
    BY <2>1, <2>2, <2>4, <1>12 DEF TypeOK, Clear, db, origin, session, history
  <2> QED
    BY <2>3, <2>4
<1>13. ASSUME NEW t \in Tab, Unmark(t) PROVE TypeOK'
  <2>1. marker' \in BOOLEAN /\ faults' \in 0..MaxFaults
    <3>1. marker' = FALSE \/ marker' = marker
      BY <1>13 DEF Unmark
    <3>2. faults' \in 0..MaxFaults
      BY <1>13 DEF Unmark, TypeOK, Fail, NoFail
    <3> QED
      BY <3>1, <3>2, Zenon DEF TypeOK
  <2> QED
    BY <2>1, <1>13 DEF TypeOK, Unmark, Release, db, session, worker, history
<1>14. ASSUME NEW t \in Tab, NEW intent \in intents, EraseIntent(t, intent) PROVE TypeOK'
  <2>1. CASE intent[1] = "partition"
    <3>1. Outdate(intent[2])
      BY <1>14, <2>1 DEF EraseIntent
    <3> QED
      BY <1>14, <2>1, <3>1, OutdateTyped DEF TypeOK, EraseIntent, origin, session, history
  <2>2. CASE intent[1] # "partition"
    BY <1>14, <2>2 DEF TypeOK, EraseIntent, origin, session, history
  <2> QED
    BY <2>1, <2>2
<1>15. ASSUME NEW t \in Tab, EraseDone(t) PROVE TypeOK'
  BY <1>15 DEF EraseDone, Holds, NoFail, Fail, GoTo, Release, db, origin, session, worker,
     history, TypeOK, GateUnderFloor, RowsIndexed, Gates, Kinds, Sections, Restores, Stores,
     Stamps
<1>16. ASSUME NEW t \in Tab, CommitFails(t) PROVE TypeOK'
  BY <1>16 DEF CommitFails, Holds, Fail, GoTo, db, origin, session, worker, history, TypeOK,
     GateUnderFloor, RowsIndexed, Gates, Kinds, Sections, Restores, Stores, Stamps
<1>17. ASSUME NEW t \in Tab, WipeFails(t) PROVE TypeOK'
  BY <1>17 DEF WipeFails, Holds, DatabaseOpens, Fail, GoTo, Release, db, origin, session,
     worker, history, TypeOK, GateUnderFloor, RowsIndexed, Gates, Kinds, Sections, Restores,
     Stores, Stamps
<1>18. ASSUME NEW t \in Tab, Crash(t) PROVE TypeOK'
  BY <1>18 DEF Crash, Fail, Release, db, origin, history, TypeOK, GateUnderFloor, RowsIndexed,
     Gates, Kinds, Sections, Restores, Stores, Stamps
<1>19. ASSUME NEW t \in Tab, Recover(t) PROVE TypeOK'
  BY <1>19 DEF Recover, DatabaseOpens, Behind, FloorReadable, Active, Expired, db, worker,
     Tombstone, FloorEpoch, MaxOf, FloorAt, TypeOK, GateUnderFloor, RowsIndexed, Gates, Kinds,
     Sections, Restores, Stores, Stamps
<1>20. ASSUME NEW t \in Tab, ErasePending(t) PROVE TypeOK'
  BY <1>20 DEF ErasePending, DatabaseOpens, db, origin, session, worker, history, TypeOK,
     GateUnderFloor, RowsIndexed, Gates, Kinds, Sections, Restores, Stores, Stamps
<1>21. ASSUME NEW t \in Tab, EraseLocalCopy(t) PROVE TypeOK'
  BY <1>21 DEF EraseLocalCopy, DatabaseOpens, Active, Behind, db, origin, session, worker,
     history, TypeOK, GateUnderFloor, RowsIndexed, Gates, Kinds, Sections, Restores, Stores,
     Stamps
<1>22. ASSUME NEW t \in Tab, Open(t) PROVE TypeOK'
  BY <1>22 DEF Open, StampOf, CanDeliver, Guarded, origin, session, history, DatabaseOpens,
     Active, Kinds, TypeOK, GateUnderFloor, RowsIndexed, Gates, Sections, Restores, Stores,
     Stamps
<1>23. ASSUME NEW t \in Tab, Serve(t) PROVE TypeOK'
  BY <1>23 DEF Serve, Live, Unasked, CanDeliver, StampOf, db, origin, session, history,
     Guarded, DatabaseOpens, Active, Kinds, TypeOK, GateUnderFloor, RowsIndexed, Gates,
     Sections, Restores, Stores, Stamps
<1>24. ASSUME NEW t \in Tab, Deliver(t) PROVE TypeOK'
  BY <1>24 DEF Deliver, CanDeliver, db, origin, session, history, StampOf, TypeOK,
     GateUnderFloor, RowsIndexed, Gates, Kinds, Sections, Restores, Stores, Stamps
<1>25. ASSUME NEW t \in Tab, Drop(t) PROVE TypeOK'
  BY <1>25 DEF Drop, CanDeliver, db, origin, session, history, StampOf, TypeOK, GateUnderFloor,
     RowsIndexed, Gates, Kinds, Sections, Restores, Stores, Stamps
<1>26. ASSUME NEW t \in Tab, PreparePage(t) PROVE TypeOK'
  BY <1>26 DEF PreparePage, Live, Unasked, db, origin, session, history, Guarded,
     DatabaseOpens, Active, StampOf, Kinds, TypeOK, GateUnderFloor, RowsIndexed, Gates,
     Sections, Restores, Stores, Stamps
<1>27. ASSUME NEW t \in Tab, CommitPage(t) PROVE TypeOK'
  BY <1>27 DEF CommitPage, Guarded, Moved, origin, session, history, DatabaseOpens, Active,
     StampOf, Kinds, TypeOK, GateUnderFloor, RowsIndexed, Gates, Sections, Restores, Stores,
     Stamps
<1>28. ASSUME NEW t \in Tab, WritePending(t) PROVE TypeOK'
  BY <1>28 DEF WritePending, Guarded, origin, session, worker, history, DatabaseOpens, Active,
     StampOf, Kinds, TypeOK, GateUnderFloor, RowsIndexed, Gates, Sections, Restores, Stores,
     Stamps
<1>29. ASSUME NEW t \in Tab, Purge(t) PROVE TypeOK'
  <2>1. Outdate(gate.inc)
    BY <1>29 DEF Purge
  <2> QED
    BY <2>1, OutdateTyped, <1>29 DEF TypeOK, Purge, origin, session, history
<1>30. ASSUME DeleteLands PROVE TypeOK'
  <2>1. DatabaseGone
    BY <1>30 DEF DeleteLands
  <2> QED
    BY <2>1, GoneTyped, <1>30 DEF TypeOK, DeleteLands, origin, session, history
<1>31. ASSUME Tick PROVE TypeOK'
  BY <1>31 DEF Tick, db, origin, session, worker, history, TypeOK, GateUnderFloor, RowsIndexed,
     Gates, Kinds, Sections, Restores, Stores, Stamps
<1> QED
  BY <1>1, <1>2, <1>3, <1>4, <1>5, <1>6, <1>7, <1>8, <1>9, <1>10, <1>11, <1>12, <1>13, <1>14,
     <1>15, <1>16, <1>17, <1>18, <1>19, <1>20, <1>21, <1>22, <1>23, <1>24, <1>25, <1>26, <1>27,
     <1>28, <1>29, <1>30, <1>31
  DEF Next, SignIn, SignOut, Section, Trouble, Cleanup, Replica, vars, db, origin, session,
      worker, history

\* The tombstone stays above the gate: it goes out before commitDeny's transaction takes the
\* gate up to it, and a new gate (establishSessionStamp) starts at it.
LEMMA FloorStep ==
  ASSUME TypeOK, GateUnderFloor, [Next]_vars
  PROVE  GateUnderFloor'
<1> USE BrowserGateAssumption, NothingAssumption
<1>1. ASSUME UNCHANGED <<gate, tomb, outAt>> PROVE GateUnderFloor'
  BY <1>1 DEF GateUnderFloor, TypeOK, Gates, Kinds, Sections, Restores, Stores, Stamps
<1>2. ASSUME NEW t \in Tab, RestoreRead(t) \/ RestoreKeys(t) \/ RestoreAdopt(t) \/ AskDeny(t)
             \/ Mark(t) \/ Unmark(t) \/ EraseDone(t) \/ CommitFails(t) \/ WipeFails(t)
             \/ Crash(t) \/ ErasePending(t) \/ EraseLocalCopy(t) \/ Open(t) \/ Serve(t)
             \/ Deliver(t) \/ Drop(t) \/ PreparePage(t) \/ CommitPage(t) \/ WritePending(t)
             \/ Purge(t)
      PROVE  GateUnderFloor'
  BY <1>1, <1>2 DEF RestoreRead, db, origin, worker, history, RestoreKeys, RestoreAdopt,
     AskDeny, Mark, NoFail, session, Unmark, EraseDone, CommitFails, WipeFails, Crash,
     ErasePending, EraseLocalCopy, Open, Serve, Deliver, Drop, PreparePage, CommitPage,
     WritePending, Purge
<1>3. ASSUME NEW t \in Tab, NEW intent \in intents, EraseIntent(t, intent)
      PROVE  GateUnderFloor'
  BY <1>1, <1>3 DEF EraseIntent, origin, session, history
<1>4. ASSUME Tick PROVE GateUnderFloor'
  BY <1>1, <1>4 DEF Tick, db, origin, session, worker, history
<1>5. ASSUME NEW t \in Tab, NEW p \in Account, NEW at \in 1..MaxTime, Establish(t, p, at)
      PROVE  GateUnderFloor'
  BY <1>5 DEF Establish, DatabaseOpens, FloorReadable, FloorAt, Active, FloorEpoch, Adopt,
     Expired, worker, Behind, MaxOf, Tombstone, GateUnderFloor, TypeOK, Gates, Kinds, Sections,
     Restores, Stores, Stamps
<1>6. ASSUME NEW t \in Tab, StartDeny(t) PROVE GateUnderFloor'
  BY <1>6 DEF StartDeny, DatabaseOpens, FloorReadable, Active, Tombstone, NoFail, Fail, db,
     worker, Behind, FloorEpoch, MaxOf, FloorAt, GateUnderFloor, TypeOK, Gates, Kinds,
     Sections, Restores, Stores, Stamps
<1>7. ASSUME NEW t \in Tab, Expire(t) PROVE GateUnderFloor'
  BY <1>7 DEF Expire, DatabaseOpens, FloorReadable, Active, Expired, db, worker, Behind,
     Tombstone, FloorEpoch, MaxOf, FloorAt, GateUnderFloor, TypeOK, Gates, Kinds, Sections,
     Restores, Stores, Stamps
<1>8. ASSUME NEW t \in Tab, CommitDeny(t) PROVE GateUnderFloor'
  <2>1. CASE gate' = gate
    BY <1>8, <2>1 DEF CommitDeny, GateUnderFloor, origin
  <2>2. CASE gate' # gate
    <3>1. gate \in Gates /\ gate' = [gate EXCEPT !.who = Nobody, !.deadline = 0,
                                                !.epoch = tomb.epoch, !.deniedAt = tomb.at]
      BY <1>8, <2>2 DEF CommitDeny, TypeOK, Active
    <3>2. gate'.epoch = tomb.epoch /\ gate'.deniedAt = tomb.at
      BY <3>1, DeniedTyped
    <3> QED
      BY <1>8, <3>2 DEF CommitDeny, GateUnderFloor, TypeOK, origin
  <2> QED
    BY <2>1, <2>2
<1>9. ASSUME NEW t \in Tab, Wipe(t) PROVE GateUnderFloor'
  BY <1>9 DEF Wipe, Holds, DatabaseOpens, DatabaseGone, Report, Release, origin, session,
     Stamps, GateUnderFloor, TypeOK, Gates, Kinds, Sections, Restores, Stores
<1>10. ASSUME NEW t \in Tab, Clear(t) PROVE GateUnderFloor'
  BY <1>10 DEF Clear, Holds, DatabaseOpens, DatabaseGone, GoTo, NoFail, Fail, Release, db,
     origin, session, history, GateUnderFloor, TypeOK, Gates, Kinds, Sections, Restores,
     Stores, Stamps
<1>11. ASSUME NEW t \in Tab, Recover(t) PROVE GateUnderFloor'
  BY <1>11 DEF Recover, DatabaseOpens, Behind, FloorReadable, Active, Expired, db, worker,
     Tombstone, FloorEpoch, MaxOf, FloorAt, GateUnderFloor, TypeOK, Gates, Kinds, Sections,
     Restores, Stores, Stamps
<1>12. ASSUME DeleteLands PROVE GateUnderFloor'
  BY <1>12 DEF DeleteLands, DatabaseGone, origin, session, history, GateUnderFloor, TypeOK,
     Gates, Kinds, Sections, Restores, Stores, Stamps
<1> QED
  BY <1>1, <1>2, <1>3, <1>4, <1>5, <1>6, <1>7, <1>8, <1>9, <1>10, <1>11, <1>12
  DEF Next, SignIn, SignOut, Section, Trouble, Cleanup, Replica, vars, db, origin, session,
      worker, history

\* A page is committed only through a store of the partition's generation, so that rows are
\* where the index, from which a wipe works, says.
LEMMA RowsIndexedStep ==
  ASSUME TypeOK, RowsIndexed, [Next]_vars
  PROVE  RowsIndexed'
<1> USE BrowserGateAssumption, NothingAssumption
<1>1. ASSUME UNCHANGED <<index, rows, handle, page>> PROVE RowsIndexed'
  BY <1>1 DEF RowsIndexed, TypeOK, Gates, Kinds, Sections, Restores, Stores, Stamps
<1>2. ASSUME NEW t \in Tab, NEW p \in Account, NEW at \in 1..MaxTime, Establish(t, p, at)
      PROVE  RowsIndexed'
  BY <1>1, <1>2 DEF Establish, worker
<1>3. ASSUME NEW t \in Tab, RestoreRead(t) \/ RestoreKeys(t) \/ RestoreAdopt(t) \/ AskDeny(t)
             \/ StartDeny(t) \/ Expire(t) \/ CommitDeny(t) \/ Mark(t) \/ Unmark(t)
             \/ EraseDone(t) \/ CommitFails(t) \/ WipeFails(t) \/ Recover(t) \/ ErasePending(t)
             \/ EraseLocalCopy(t) \/ Serve(t) \/ Deliver(t) \/ Drop(t) \/ WritePending(t)
      PROVE  RowsIndexed'
  BY <1>1, <1>3 DEF RestoreRead, db, origin, worker, history, RestoreKeys, RestoreAdopt,
     AskDeny, StartDeny, NoFail, Expire, CommitDeny, session, Mark, Unmark, EraseDone,
     CommitFails, WipeFails, Recover, ErasePending, EraseLocalCopy, Serve, Deliver, Drop,
     WritePending
<1>4. ASSUME Tick PROVE RowsIndexed'
  BY <1>1, <1>4 DEF Tick, db, origin, session, worker, history
<1>5. ASSUME NEW t \in Tab, Wipe(t) PROVE RowsIndexed'
  BY <1>5 DEF Wipe, Holds, DatabaseOpens, DatabaseGone, Report, Release, origin, session,
     Stamps, RowsIndexed, TypeOK, Gates, Kinds, Sections, Restores, Stores
<1>6. ASSUME NEW t \in Tab, Clear(t) PROVE RowsIndexed'
  BY <1>6 DEF Clear, Holds, DatabaseOpens, DatabaseGone, GoTo, NoFail, Fail, Release, db,
     origin, session, history, RowsIndexed, TypeOK, Gates, Kinds, Sections, Restores, Stores,
     Stamps
<1>7. ASSUME NEW t \in Tab, NEW intent \in intents, EraseIntent(t, intent) PROVE RowsIndexed'
  <2>1. CASE intent[1] = "partition"
    <3>1. Outdate(intent[2]) /\ rows' = rows \ {intent[2]} /\ index' = index \ {intent[2]}
      BY <1>7, <2>1 DEF EraseIntent
    <3>2. \A u \in Tab : handle'[u] # NoStamp /\ handle'[u].fresh => handle'[u].inc \in index'
      BY <3>1 DEF Outdate, RowsIndexed, TypeOK, Stores
    <3>3. \A u \in Tab : page'[u] => handle'[u] # NoStamp /\ handle'[u].fresh
      BY <3>1 DEF Outdate, Moved, RowsIndexed, TypeOK, Stores
    <3> QED
      BY <3>1, <3>2, <3>3 DEF RowsIndexed
  <2>2. CASE intent[1] # "partition"
    BY <1>7, <2>2 DEF EraseIntent, RowsIndexed
  <2> QED
    BY <2>1, <2>2
<1>8. ASSUME NEW t \in Tab, Crash(t) PROVE RowsIndexed'
  BY <1>8 DEF Crash, Fail, Release, db, origin, history, RowsIndexed, TypeOK, Gates, Kinds,
     Sections, Restores, Stores, Stamps
<1>9. ASSUME NEW t \in Tab, Open(t) PROVE RowsIndexed'
  BY <1>9 DEF Open, StampOf, CanDeliver, Guarded, origin, session, history, DatabaseOpens,
     Active, Kinds, RowsIndexed, TypeOK, Gates, Sections, Restores, Stores, Stamps
<1>10. ASSUME NEW t \in Tab, PreparePage(t) PROVE RowsIndexed'
  BY <1>10 DEF PreparePage, Live, Unasked, db, origin, session, history, Guarded,
     DatabaseOpens, Active, StampOf, Kinds, RowsIndexed, TypeOK, Gates, Sections, Restores,
     Stores, Stamps
<1>11. ASSUME NEW t \in Tab, CommitPage(t) PROVE RowsIndexed'
  BY <1>11 DEF CommitPage, Guarded, Moved, origin, session, history, DatabaseOpens, Active,
     StampOf, Kinds, RowsIndexed, TypeOK, Gates, Sections, Restores, Stores, Stamps
<1>12. ASSUME NEW t \in Tab, Purge(t) PROVE RowsIndexed'
  <2>1. \A u \in Tab : handle'[u] # NoStamp /\ handle'[u].fresh => handle'[u].inc \in index'
    BY <1>12 DEF Purge, Outdate, RowsIndexed, TypeOK, Stores
  <2>2. \A u \in Tab : page'[u] => handle'[u] # NoStamp /\ handle'[u].fresh
    BY <1>12 DEF Purge, Outdate, Moved, RowsIndexed, TypeOK, Stores
  <2> QED
    BY <2>1, <2>2, <1>12 DEF Purge, RowsIndexed
<1>13. ASSUME DeleteLands PROVE RowsIndexed'
  BY <1>13 DEF DeleteLands, DatabaseGone, origin, session, history, RowsIndexed, TypeOK, Gates,
     Kinds, Sections, Restores, Stores, Stamps
<1> QED
  BY <1>1, <1>2, <1>3, <1>4, <1>5, <1>6, <1>7, <1>8, <1>9, <1>10, <1>11, <1>12, <1>13
  DEF Next, SignIn, SignOut, Section, Trouble, Cleanup, Replica, vars, db, origin, session,
      worker, history

\* A denial under way finds what its steps assume: the gate lock excludes any other.
LEMMA UnderWayStep ==
  ASSUME TypeOK, GateUnderFloor, UnderWay, [Next]_vars
  PROVE  UnderWay'
<1> USE BrowserGateAssumption, NothingAssumption
<1>1. ASSUME UNCHANGED <<gate, rows, pend, tomb, lock>> PROVE UnderWay'
  BY <1>1 DEF UnderWay, TypeOK, GateUnderFloor, Active, Behind, Gates, Kinds, Sections,
     Restores, Stores, Stamps
<1>2. ASSUME NEW t \in Tab, RestoreRead(t) \/ RestoreKeys(t) \/ RestoreAdopt(t) \/ AskDeny(t)
             \/ Open(t) \/ Serve(t) \/ Deliver(t) \/ Drop(t) \/ PreparePage(t)
      PROVE  UnderWay'
  BY <1>1, <1>2 DEF RestoreRead, db, origin, worker, history, RestoreKeys, RestoreAdopt,
     AskDeny, Open, session, Serve, Deliver, Drop, PreparePage
<1>3. ASSUME Tick PROVE UnderWay'
  BY <1>1, <1>3 DEF Tick, db, origin, session, worker, history
<1>4. ASSUME NEW t \in Tab, NEW p \in Account, NEW at \in 1..MaxTime, Establish(t, p, at)
      PROVE  UnderWay'
  BY <1>4 DEF Establish, DatabaseOpens, FloorReadable, FloorAt, Active, FloorEpoch, Adopt,
     Expired, worker, Behind, MaxOf, Tombstone, UnderWay, TypeOK, GateUnderFloor, Gates, Kinds,
     Sections, Restores, Stores, Stamps
<1>5. ASSUME NEW t \in Tab, StartDeny(t) PROVE UnderWay'
  BY <1>5 DEF StartDeny, DatabaseOpens, FloorReadable, Active, Tombstone, NoFail, Fail, db,
     worker, Behind, FloorEpoch, MaxOf, FloorAt, UnderWay, TypeOK, GateUnderFloor, Gates,
     Kinds, Sections, Restores, Stores, Stamps
<1>6. ASSUME NEW t \in Tab, Expire(t) PROVE UnderWay'
  BY <1>6 DEF Expire, DatabaseOpens, FloorReadable, Active, Expired, db, worker, Behind,
     Tombstone, FloorEpoch, MaxOf, FloorAt, UnderWay, TypeOK, GateUnderFloor, Gates, Kinds,
     Sections, Restores, Stores, Stamps
<1>7. ASSUME NEW t \in Tab, CommitDeny(t) PROVE UnderWay'
  <2>1. gate = NoGate <=> gate' = NoGate
    <3>1. gate' = gate \/ (gate \in Gates /\ gate' = [gate EXCEPT !.who = Nobody, !.deadline = 0,
                                          !.epoch = tomb.epoch, !.deniedAt = tomb.at])
      BY <1>7 DEF CommitDeny, TypeOK, Active
    <3> QED
      BY <3>1, DeniedTyped DEF TypeOK
  <2>2. lock' # Free => lock'.step = "purge"
    BY <1>7 DEF CommitDeny, AfterCommit, GoTo, Release, Holds, TypeOK, Sections
  <2> QED
    BY <2>1, <2>2, <1>7 DEF UnderWay, CommitDeny
<1>8. ASSUME NEW t \in Tab, Wipe(t) PROVE UnderWay'
  BY <1>8 DEF Wipe, Holds, DatabaseOpens, DatabaseGone, Report, Release, origin, session,
     Stamps, UnderWay, TypeOK, GateUnderFloor, Active, Behind, Gates, Kinds, Sections,
     Restores, Stores
<1>9. ASSUME NEW t \in Tab, Mark(t) PROVE UnderWay'
  BY <1>9 DEF Mark, Holds, NoFail, Report, Fail, Release, db, session, worker, Stamps,
     UnderWay, TypeOK, GateUnderFloor, Active, Behind, Gates, Kinds, Sections, Restores, Stores
<1>10. ASSUME NEW t \in Tab, Clear(t) PROVE UnderWay'
  BY <1>10 DEF Clear, Holds, DatabaseOpens, DatabaseGone, GoTo, NoFail, Fail, Release, db,
     origin, session, history, UnderWay, TypeOK, GateUnderFloor, Active, Behind, Gates, Kinds,
     Sections, Restores, Stores, Stamps
<1>11. ASSUME NEW t \in Tab, Unmark(t) PROVE UnderWay'
  BY <1>11 DEF Unmark, Holds, NoFail, Fail, Release, db, session, worker, history, UnderWay,
     TypeOK, GateUnderFloor, Active, Behind, Gates, Kinds, Sections, Restores, Stores, Stamps
<1>12. ASSUME NEW t \in Tab, NEW intent \in intents, EraseIntent(t, intent) PROVE UnderWay'
  BY <1>12 DEF EraseIntent, Holds, DatabaseOpens, Outdate, origin, session, history, Moved,
     UnderWay, TypeOK, GateUnderFloor, Active, Behind, Gates, Kinds, Sections, Restores,
     Stores, Stamps
<1>13. ASSUME NEW t \in Tab, EraseDone(t) PROVE UnderWay'
  BY <1>13 DEF EraseDone, Holds, NoFail, Fail, GoTo, Release, db, origin, session, worker,
     history, UnderWay, TypeOK, GateUnderFloor, Active, Behind, Gates, Kinds, Sections,
     Restores, Stores, Stamps
<1>14. ASSUME NEW t \in Tab, CommitFails(t) PROVE UnderWay'
  BY <1>14 DEF CommitFails, Holds, Fail, GoTo, db, origin, session, worker, history, UnderWay,
     TypeOK, GateUnderFloor, Active, Behind, Gates, Kinds, Sections, Restores, Stores, Stamps
<1>15. ASSUME NEW t \in Tab, WipeFails(t) PROVE UnderWay'
  BY <1>15 DEF WipeFails, Holds, DatabaseOpens, Fail, GoTo, Release, db, origin, session,
     worker, history, UnderWay, TypeOK, GateUnderFloor, Active, Behind, Gates, Kinds, Sections,
     Restores, Stores, Stamps
<1>16. ASSUME NEW t \in Tab, Crash(t) PROVE UnderWay'
  BY <1>16 DEF Crash, Fail, Release, db, origin, history, UnderWay, TypeOK, GateUnderFloor,
     Active, Behind, Gates, Kinds, Sections, Restores, Stores, Stamps
<1>17. ASSUME NEW t \in Tab, Recover(t) PROVE UnderWay'
  BY <1>17 DEF Recover, DatabaseOpens, Behind, FloorReadable, Active, Expired, db, worker,
     Tombstone, FloorEpoch, MaxOf, FloorAt, UnderWay, TypeOK, GateUnderFloor, Gates, Kinds,
     Sections, Restores, Stores, Stamps
<1>18. ASSUME NEW t \in Tab, ErasePending(t) PROVE UnderWay'
  BY <1>18 DEF ErasePending, DatabaseOpens, db, origin, session, worker, history, UnderWay,
     TypeOK, GateUnderFloor, Active, Behind, Gates, Kinds, Sections, Restores, Stores, Stamps
<1>19. ASSUME NEW t \in Tab, EraseLocalCopy(t) PROVE UnderWay'
  BY <1>19 DEF EraseLocalCopy, DatabaseOpens, Active, Behind, db, origin, session, worker,
     history, UnderWay, TypeOK, GateUnderFloor, Gates, Kinds, Sections, Restores, Stores,
     Stamps
<1>20. ASSUME NEW t \in Tab, CommitPage(t) PROVE UnderWay'
  BY <1>20 DEF CommitPage, Guarded, Moved, origin, session, history, DatabaseOpens, Active,
     StampOf, Kinds, UnderWay, TypeOK, GateUnderFloor, Behind, Gates, Sections, Restores,
     Stores, Stamps
<1>21. ASSUME NEW t \in Tab, WritePending(t) PROVE UnderWay'
  BY <1>21 DEF WritePending, Guarded, origin, session, worker, history, DatabaseOpens, Active,
     StampOf, Kinds, UnderWay, TypeOK, GateUnderFloor, Behind, Gates, Sections, Restores,
     Stores, Stamps
<1>22. ASSUME NEW t \in Tab, Purge(t) PROVE UnderWay'
  BY <1>22 DEF Purge, DatabaseOpens, Active, Outdate, origin, session, history, Moved,
     UnderWay, TypeOK, GateUnderFloor, Behind, Gates, Kinds, Sections, Restores, Stores, Stamps
<1>23. ASSUME DeleteLands PROVE UnderWay'
  BY <1>23 DEF DeleteLands, DatabaseGone, origin, session, history, UnderWay, TypeOK,
     GateUnderFloor, Active, Behind, Gates, Kinds, Sections, Restores, Stores, Stamps
<1> QED
  BY <1>1, <1>2, <1>3, <1>4, <1>5, <1>6, <1>7, <1>8, <1>9, <1>10, <1>11, <1>12, <1>13, <1>14,
     <1>15, <1>16, <1>17, <1>18, <1>19, <1>20, <1>21, <1>22, <1>23
  DEF Next, SignIn, SignOut, Section, Trouble, Cleanup, Replica, vars, db, origin, session,
      worker, history

\* Data that is no longer the active account's remains owed to some recovery, whichever of the
\* steps of a denial fails or is cut short.
LEMMA CondemnedStep ==
  ASSUME TypeOK, GateUnderFloor, RowsIndexed, UnderWay, DataCondemned, [Next]_vars
  PROVE  DataCondemned'
<1> USE BrowserGateAssumption, NothingAssumption
<1>1. ASSUME UNCHANGED <<gate, index, rows, pend, intents, tomb, marker>> PROVE DataCondemned'
  BY <1>1 DEF DataCondemned, TypeOK, GateUnderFloor, RowsIndexed, UnderWay, Owned, Condemned,
     Gates, Kinds, Sections, Restores, Stores, Stamps, Active, Behind
<1>2. ASSUME NEW t \in Tab, RestoreRead(t) \/ RestoreKeys(t) \/ RestoreAdopt(t) \/ AskDeny(t)
             \/ EraseDone(t) \/ CommitFails(t) \/ WipeFails(t) \/ Crash(t) \/ ErasePending(t)
             \/ EraseLocalCopy(t) \/ Serve(t) \/ Deliver(t) \/ Drop(t) \/ PreparePage(t)
      PROVE  DataCondemned'
  BY <1>1, <1>2 DEF RestoreRead, db, origin, worker, history, RestoreKeys, RestoreAdopt,
     AskDeny, EraseDone, NoFail, session, CommitFails, WipeFails, Crash, ErasePending,
     EraseLocalCopy, Serve, Deliver, Drop, PreparePage
<1>3. ASSUME Tick PROVE DataCondemned'
  BY <1>1, <1>3 DEF Tick, db, origin, session, worker, history
<1>4. ASSUME NEW t \in Tab, NEW p \in Account, NEW at \in 1..MaxTime, Establish(t, p, at)
      PROVE  DataCondemned'
  BY <1>4 DEF Establish, DatabaseOpens, FloorReadable, FloorAt, Active, FloorEpoch, Adopt,
     Expired, worker, Behind, MaxOf, Tombstone, DataCondemned, TypeOK, GateUnderFloor,
     RowsIndexed, UnderWay, Owned, Condemned, Gates, Kinds, Sections, Restores, Stores, Stamps
<1>5. ASSUME NEW t \in Tab, StartDeny(t) PROVE DataCondemned'
  <2>1. CASE tomb' = tomb
    BY <1>5, <2>1 DEF StartDeny, DataCondemned, Owned, Condemned, Active, Behind, db
  <2>2. CASE tomb' # tomb
    <3>1. Tombstone(t, "deny") /\ gate # NoGate /\ gate' = gate
      BY <1>5, <2>2 DEF StartDeny, Active, db
    <3>2. tomb'.epoch > 0 /\ gate.epoch < tomb'.epoch
      BY <3>1 DEF Tombstone, FloorEpoch, MaxOf, TypeOK, Gates
    <3> QED
      BY <3>1, <3>2 DEF DataCondemned, Condemned, Behind
  <2> QED
    BY <2>1, <2>2
<1>6. ASSUME NEW t \in Tab, Expire(t) PROVE DataCondemned'
  <2>1. Tombstone(t, "deny") /\ gate # NoGate /\ gate' = gate
    BY <1>6 DEF Expire, Expired, Active, db
  <2>2. tomb'.epoch > 0 /\ gate.epoch < tomb'.epoch
    BY <2>1 DEF Tombstone, FloorEpoch, MaxOf, TypeOK, Gates
  <2> QED
    BY <2>1, <2>2 DEF DataCondemned, Condemned, Behind
<1>7. ASSUME NEW t \in Tab, CommitDeny(t) PROVE DataCondemned'
  BY <1>7 DEF CommitDeny, Holds, DatabaseOpens, Active, Report, AfterCommit, origin, session,
     worker, Stamps, GoTo, Release, DataCondemned, TypeOK, GateUnderFloor, RowsIndexed,
     UnderWay, Owned, Condemned, Gates, Kinds, Sections, Restores, Stores, Behind
<1>8. ASSUME NEW t \in Tab, Wipe(t) PROVE DataCondemned'
  BY <1>8 DEF Wipe, Holds, DatabaseOpens, DatabaseGone, Report, Release, origin, session,
     Stamps, DataCondemned, TypeOK, GateUnderFloor, RowsIndexed, UnderWay, Owned, Condemned,
     Gates, Kinds, Sections, Restores, Stores, Active, Behind
<1>9. ASSUME NEW t \in Tab, Mark(t) PROVE DataCondemned'
  <2>1. UNCHANGED <<gate, index, rows, pend, intents, tomb>> /\ (marker => marker')
    BY <1>9 DEF Mark, db
  <2> QED
    BY <2>1 DEF DataCondemned, Owned, Condemned, Active, Behind
<1>10. ASSUME NEW t \in Tab, Clear(t) PROVE DataCondemned'
  BY <1>10 DEF Clear, Holds, DatabaseOpens, DatabaseGone, GoTo, NoFail, Fail, Release, db,
     origin, session, history, DataCondemned, TypeOK, GateUnderFloor, RowsIndexed, UnderWay,
     Owned, Condemned, Gates, Kinds, Sections, Restores, Stores, Stamps, Active, Behind
<1>11. ASSUME NEW t \in Tab, Unmark(t) PROVE DataCondemned'
  BY <1>11 DEF Unmark, Holds, NoFail, Fail, Release, db, session, worker, history,
     DataCondemned, TypeOK, GateUnderFloor, RowsIndexed, UnderWay, Owned, Condemned, Gates,
     Kinds, Sections, Restores, Stores, Stamps, Active, Behind
<1>12. ASSUME NEW t \in Tab, NEW intent \in intents, EraseIntent(t, intent)
       PROVE  DataCondemned'
  <2>1. UNCHANGED <<gate, tomb, marker>>
    BY <1>12 DEF EraseIntent, origin
  <2>2. \A i \in rows' \cup pend' : Owned(i) => Owned(i)'
    BY <1>12, <2>1 DEF EraseIntent, Owned, Active, Behind, RowsIndexed, TypeOK, Kinds
  <2>3. \A i \in rows' \cup pend' : Condemned(i) => Condemned(i)'
    <3> SUFFICES ASSUME NEW i \in rows' \cup pend', Condemned(i) PROVE Condemned(i)'
      OBVIOUS
    <3>1. CASE Behind \/ (marker /\ tomb.epoch > 0)
      BY <3>1, <2>1 DEF Condemned, Behind
    <3>2. CASE ~(Behind \/ (marker /\ tomb.epoch > 0))
      BY <3>2, <1>12 DEF Condemned, EraseIntent, TypeOK, Kinds
    <3> QED
      BY <3>1, <3>2
  <2> QED
    BY <2>2, <2>3, <1>12 DEF DataCondemned, EraseIntent
<1>13. ASSUME NEW t \in Tab, Recover(t) PROVE DataCondemned'
  BY <1>13 DEF Recover, DatabaseOpens, Behind, FloorReadable, Active, Expired, db, worker,
     Tombstone, FloorEpoch, MaxOf, FloorAt, DataCondemned, TypeOK, GateUnderFloor, RowsIndexed,
     UnderWay, Owned, Condemned, Gates, Kinds, Sections, Restores, Stores, Stamps
<1>14. ASSUME NEW t \in Tab, Open(t) PROVE DataCondemned'
  BY <1>14 DEF Open, StampOf, CanDeliver, Guarded, origin, session, history, DatabaseOpens,
     Active, Kinds, DataCondemned, TypeOK, GateUnderFloor, RowsIndexed, UnderWay, Owned,
     Condemned, Gates, Sections, Restores, Stores, Stamps, Behind
<1>15. ASSUME NEW t \in Tab, CommitPage(t) PROVE DataCondemned'
  BY <1>15 DEF CommitPage, Guarded, Moved, origin, session, history, DatabaseOpens, Active,
     StampOf, Kinds, DataCondemned, TypeOK, GateUnderFloor, RowsIndexed, UnderWay, Owned,
     Condemned, Gates, Sections, Restores, Stores, Stamps, Behind
<1>16. ASSUME NEW t \in Tab, WritePending(t) PROVE DataCondemned'
  BY <1>16 DEF WritePending, Guarded, origin, session, worker, history, DatabaseOpens, Active,
     StampOf, Kinds, DataCondemned, TypeOK, GateUnderFloor, RowsIndexed, UnderWay, Owned,
     Condemned, Gates, Sections, Restores, Stores, Stamps, Behind
<1>17. ASSUME NEW t \in Tab, Purge(t) PROVE DataCondemned'
  BY <1>17 DEF Purge, DatabaseOpens, Active, Outdate, origin, session, history, Moved,
     DataCondemned, TypeOK, GateUnderFloor, RowsIndexed, UnderWay, Owned, Condemned, Gates,
     Kinds, Sections, Restores, Stores, Stamps, Behind
<1>18. ASSUME DeleteLands PROVE DataCondemned'
  BY <1>18 DEF DeleteLands, DatabaseGone, origin, session, history, DataCondemned, TypeOK,
     GateUnderFloor, RowsIndexed, UnderWay, Owned, Condemned, Gates, Kinds, Sections, Restores,
     Stores, Stamps, Active, Behind
<1> QED
  BY <1>1, <1>2, <1>3, <1>4, <1>5, <1>6, <1>7, <1>8, <1>9, <1>10, <1>11, <1>12, <1>13, <1>14,
     <1>15, <1>16, <1>17, <1>18
  DEF Next, SignIn, SignOut, Section, Trouble, Cleanup, Replica, vars, db, origin, session,
      worker, history

\* No step signs in an account on a consent older than its denial.
LEMMA FreshStep ==
  ASSUME TypeOK, GateUnderFloor, SignInIsFresh, [Next]_vars
  PROVE  SignInIsFresh'
<1> USE BrowserGateAssumption, NothingAssumption
<1>1. ASSUME UNCHANGED <<gate, tomb, outAt>> PROVE SignInIsFresh'
  BY <1>1 DEF SignInIsFresh, TypeOK, GateUnderFloor, Active, Behind, Gates, Kinds, Sections,
     Restores, Stores, Stamps
<1>2. ASSUME NEW t \in Tab, RestoreRead(t) \/ RestoreKeys(t) \/ RestoreAdopt(t) \/ AskDeny(t)
             \/ Mark(t) \/ Unmark(t) \/ EraseDone(t) \/ CommitFails(t) \/ WipeFails(t)
             \/ Crash(t) \/ ErasePending(t) \/ EraseLocalCopy(t) \/ Open(t) \/ Serve(t)
             \/ Deliver(t) \/ Drop(t) \/ PreparePage(t) \/ CommitPage(t) \/ WritePending(t)
             \/ Purge(t)
      PROVE  SignInIsFresh'
  BY <1>1, <1>2 DEF RestoreRead, db, origin, worker, history, RestoreKeys, RestoreAdopt,
     AskDeny, Mark, NoFail, session, Unmark, EraseDone, CommitFails, WipeFails, Crash,
     ErasePending, EraseLocalCopy, Open, Serve, Deliver, Drop, PreparePage, CommitPage,
     WritePending, Purge
<1>3. ASSUME NEW t \in Tab, NEW intent \in intents, EraseIntent(t, intent) PROVE SignInIsFresh'
  BY <1>1, <1>3 DEF EraseIntent, origin, session, history
<1>4. ASSUME Tick PROVE SignInIsFresh'
  BY <1>1, <1>4 DEF Tick, db, origin, session, worker, history
<1>5. ASSUME NEW t \in Tab, NEW p \in Account, NEW at \in 1..MaxTime, Establish(t, p, at)
      PROVE  SignInIsFresh'
  BY <1>5 DEF Establish, DatabaseOpens, FloorReadable, FloorAt, Active, FloorEpoch, Adopt,
     Expired, worker, Behind, MaxOf, Tombstone, SignInIsFresh, TypeOK, GateUnderFloor, Gates,
     Kinds, Sections, Restores, Stores, Stamps
<1>6. ASSUME NEW t \in Tab, StartDeny(t) PROVE SignInIsFresh'
  BY <1>6 DEF StartDeny, DatabaseOpens, FloorReadable, Active, Tombstone, NoFail, Fail, db,
     worker, Behind, FloorEpoch, MaxOf, FloorAt, SignInIsFresh, TypeOK, GateUnderFloor, Gates,
     Kinds, Sections, Restores, Stores, Stamps
<1>7. ASSUME NEW t \in Tab, Expire(t) PROVE SignInIsFresh'
  BY <1>7 DEF Expire, DatabaseOpens, FloorReadable, Active, Expired, db, worker, Behind,
     Tombstone, FloorEpoch, MaxOf, FloorAt, SignInIsFresh, TypeOK, GateUnderFloor, Gates,
     Kinds, Sections, Restores, Stores, Stamps
<1>8. ASSUME NEW t \in Tab, CommitDeny(t) PROVE SignInIsFresh'
  BY <1>8 DEF CommitDeny, Holds, DatabaseOpens, Active, Report, AfterCommit, origin, session,
     worker, Stamps, GoTo, Release, SignInIsFresh, TypeOK, GateUnderFloor, Behind, Gates,
     Kinds, Sections, Restores, Stores
<1>9. ASSUME NEW t \in Tab, Wipe(t) PROVE SignInIsFresh'
  BY <1>9 DEF Wipe, Holds, DatabaseOpens, DatabaseGone, Report, Release, origin, session,
     Stamps, SignInIsFresh, TypeOK, GateUnderFloor, Active, Behind, Gates, Kinds, Sections,
     Restores, Stores
<1>10. ASSUME NEW t \in Tab, Clear(t) PROVE SignInIsFresh'
  BY <1>10 DEF Clear, Holds, DatabaseOpens, DatabaseGone, GoTo, NoFail, Fail, Release, db,
     origin, session, history, SignInIsFresh, TypeOK, GateUnderFloor, Active, Behind, Gates,
     Kinds, Sections, Restores, Stores, Stamps
<1>11. ASSUME NEW t \in Tab, Recover(t) PROVE SignInIsFresh'
  BY <1>11 DEF Recover, DatabaseOpens, Behind, FloorReadable, Active, Expired, db, worker,
     Tombstone, FloorEpoch, MaxOf, FloorAt, SignInIsFresh, TypeOK, GateUnderFloor, Gates,
     Kinds, Sections, Restores, Stores, Stamps
<1>12. ASSUME DeleteLands PROVE SignInIsFresh'
  BY <1>12 DEF DeleteLands, DatabaseGone, origin, session, history, SignInIsFresh, TypeOK,
     GateUnderFloor, Active, Behind, Gates, Kinds, Sections, Restores, Stores, Stamps
<1> QED
  BY <1>1, <1>2, <1>3, <1>4, <1>5, <1>6, <1>7, <1>8, <1>9, <1>10, <1>11, <1>12
  DEF Next, SignIn, SignOut, Section, Trouble, Cleanup, Replica, vars, db, origin, session,
      worker, history

\* A session is reported as ended only when the tombstone is above it.
LEMMA EndedStep ==
  ASSUME TypeOK, GateUnderFloor, EndedBelow, [Next]_vars
  PROVE  EndedBelow'
<1> USE BrowserGateAssumption, NothingAssumption
<1>1. ASSUME UNCHANGED <<tomb, ended>> PROVE EndedBelow'
  BY <1>1 DEF EndedBelow, TypeOK, GateUnderFloor, Gates, Kinds, Sections, Restores, Stores,
     Stamps
<1>2. ASSUME NEW t \in Tab, RestoreRead(t) \/ RestoreKeys(t) \/ RestoreAdopt(t) \/ AskDeny(t)
             \/ Clear(t) \/ Unmark(t) \/ EraseDone(t) \/ CommitFails(t) \/ WipeFails(t)
             \/ Crash(t) \/ ErasePending(t) \/ EraseLocalCopy(t) \/ Open(t) \/ Serve(t)
             \/ Deliver(t) \/ Drop(t) \/ PreparePage(t) \/ CommitPage(t) \/ WritePending(t)
             \/ Purge(t)
      PROVE  EndedBelow'
  BY <1>1, <1>2 DEF RestoreRead, db, origin, worker, history, RestoreKeys, RestoreAdopt,
     AskDeny, Clear, NoFail, session, Unmark, EraseDone, CommitFails, WipeFails, Crash,
     ErasePending, EraseLocalCopy, Open, Serve, Deliver, Drop, PreparePage, CommitPage,
     WritePending, Purge
<1>3. ASSUME NEW t \in Tab, NEW intent \in intents, EraseIntent(t, intent) PROVE EndedBelow'
  BY <1>1, <1>3 DEF EraseIntent, origin, session, history
<1>4. ASSUME DeleteLands \/ Tick PROVE EndedBelow'
  BY <1>1, <1>4 DEF DeleteLands, origin, session, history, Tick, db, worker
<1>5. ASSUME NEW t \in Tab, NEW p \in Account, NEW at \in 1..MaxTime, Establish(t, p, at)
      PROVE  EndedBelow'
  BY <1>5 DEF Establish, DatabaseOpens, FloorReadable, FloorAt, Active, FloorEpoch, Adopt,
     Expired, worker, Behind, MaxOf, Tombstone, EndedBelow, TypeOK, GateUnderFloor, Gates,
     Kinds, Sections, Restores, Stores, Stamps
<1>6. ASSUME NEW t \in Tab, StartDeny(t) PROVE EndedBelow'
  BY <1>6 DEF StartDeny, DatabaseOpens, FloorReadable, Active, Tombstone, NoFail, Fail, db,
     worker, Behind, FloorEpoch, MaxOf, FloorAt, EndedBelow, TypeOK, GateUnderFloor, Gates,
     Kinds, Sections, Restores, Stores, Stamps
<1>7. ASSUME NEW t \in Tab, Expire(t) PROVE EndedBelow'
  BY <1>7 DEF Expire, DatabaseOpens, FloorReadable, Active, Expired, db, worker, Behind,
     Tombstone, FloorEpoch, MaxOf, FloorAt, EndedBelow, TypeOK, GateUnderFloor, Gates, Kinds,
     Sections, Restores, Stores, Stamps
<1>8. ASSUME NEW t \in Tab, CommitDeny(t) PROVE EndedBelow'
  BY <1>8 DEF CommitDeny, Holds, DatabaseOpens, Active, Report, AfterCommit, origin, session,
     worker, Stamps, GoTo, Release, EndedBelow, TypeOK, GateUnderFloor, Gates, Kinds, Sections,
     Restores, Stores
<1>9. ASSUME NEW t \in Tab, Wipe(t) PROVE EndedBelow'
  BY <1>9 DEF Wipe, Holds, DatabaseOpens, DatabaseGone, Report, Release, origin, session,
     Stamps, EndedBelow, TypeOK, GateUnderFloor, Gates, Kinds, Sections, Restores, Stores
<1>10. ASSUME NEW t \in Tab, Mark(t) PROVE EndedBelow'
  BY <1>10 DEF Mark, Holds, NoFail, Report, Fail, Release, db, session, worker, Stamps,
     EndedBelow, TypeOK, GateUnderFloor, Gates, Kinds, Sections, Restores, Stores
<1>11. ASSUME NEW t \in Tab, Recover(t) PROVE EndedBelow'
  BY <1>11 DEF Recover, DatabaseOpens, Behind, FloorReadable, Active, Expired, db, worker,
     Tombstone, FloorEpoch, MaxOf, FloorAt, EndedBelow, TypeOK, GateUnderFloor, Gates, Kinds,
     Sections, Restores, Stores, Stamps
<1> QED
  BY <1>1, <1>2, <1>3, <1>4, <1>5, <1>6, <1>7, <1>8, <1>9, <1>10, <1>11
  DEF Next, SignIn, SignOut, Section, Trouble, Cleanup, Replica, vars, db, origin, session,
      worker, history

\* The invariant holds of an origin that was never used.
LEMMA InvInit == Init => Inv
<1> SUFFICES ASSUME Init PROVE Inv
  OBVIOUS
<1> USE BrowserGateAssumption, NothingAssumption DEF Init
<1>1. TypeOK
  <2>1. tomb \in [epoch : 0..MaxEpoch, at : 0..MaxTime + MaxEpoch]
    OBVIOUS
  <2>2. page \in [Tab -> BOOLEAN]
    OBVIOUS
  <2>3. gate \in Gates \cup {NoGate} /\ lock \in Sections \cup {Free}
    OBVIOUS
  <2>4. queued \in Tab \cup {Nobody} /\ now \in 1..MaxTime
    OBVIOUS
  <2>5. marker \in BOOLEAN
    BY Zenon
  <2>6. /\ view \in [Tab -> Gates \cup {NoStamp}] /\ leaving \in [Tab -> Account \cup {Nobody}]
        /\ restoring \in [Tab -> Restores \cup {NoStamp}]
        /\ handle \in [Tab -> Stores \cup {NoStamp}]
        /\ reply \in [Tab -> Stamps \cup {NoStamp}]
    OBVIOUS
  <2> QED
    BY <2>1, <2>2, <2>3, <2>4, <2>5, <2>6 DEF TypeOK
<1>2. GateUnderFloor /\ RowsIndexed /\ UnderWay
  BY DEF GateUnderFloor, RowsIndexed, UnderWay
<1>3. DataCondemned /\ SignInIsFresh /\ EndedBelow
  BY DEF DataCondemned, SignInIsFresh, EndedBelow, Active
<1> QED
  BY <1>1, <1>2, <1>3 DEF Inv

\* Every step keeps it.
LEMMA InvStep == Inv /\ [Next]_vars => Inv'
  BY TypeOKStep, FloorStep, RowsIndexedStep, UnderWayStep, CondemnedStep, FreshStep, EndedStep
  DEF Inv

\* It holds always.
LEMMA Invariant == Spec => []Inv
  BY InvInit, InvStep, PTL DEF Spec

\* The records, the stores of the tabs, the lock's sections and the replies keep their types.
THEOREM TypeCorrect == Spec => []TypeOK
<1>1. Inv => TypeOK
  BY DEF Inv
<1> QED
  BY <1>1, Invariant, PTL

\* However the steps of a denial fail, are dropped or are cut short, in whichever tab: data of
\* an account that was denied stays owed to an intent, the tombstone or the origin's marker,
\* one of which the next recover acts on.
THEOREM DeniedDataGoes == Spec => []DeniedDataDoomed
<1>1. Inv => DeniedDataDoomed
  BY DEF Inv, DataCondemned, Condemned, DeniedDataDoomed, Doomed
<1> QED
  BY <1>1, Invariant, PTL

\* An account that was signed out is active again only by a consent given after it
\* (establishSessionStamp checks denyFloor), whatever tabs, crashes and half-done denials do.
THEOREM SignInNeedsNewerConsent == Spec => []SignInIsFresh
<1>1. Inv => SignInIsFresh
  BY DEF Inv
<1> QED
  BY <1>1, Invariant, PTL

\* Once the end of a session has been reported, no reply of it that was still on its way is
\* handed to the app: #deliver asks checkDelivery, which looks at the tombstone, in that step.
THEOREM EndedSessionsStaySilent == Spec => NothingAfterSignOut
<1>1. Inv /\ [Next]_vars => \A t \in Tab : Deliver(t) => reply[t] \notin ended
  <2> SUFFICES ASSUME Inv, NEW t \in Tab, Deliver(t), reply[t] \in ended PROVE FALSE
    OBVIOUS
  <2> QED
    BY BrowserGateAssumption DEF Inv, EndedBelow, Deliver, CanDeliver, TypeOK, Stamps
<1> QED
  BY <1>1, Invariant, PTL DEF Spec, NothingAfterSignOut

=============================================================================
