---------------------------- MODULE FileLockProofs ----------------------------
(***************************************************************************)
(* Proofs about courier's lock files, for any processes, calls, attempts   *)
(* and faults.  The types are kept whatever happens; that a command keeps  *)
(* the lock is proved for fewer faults than there are guards, since with   *)
(* as many it is not so.                                                   *)
(***************************************************************************)
EXTENDS FileLock, FiniteSets, FiniteSetTheorems, TLAPS

Claiming == {"guard", "holder", "check", "unlink"}
Breaking == Claiming \cup {"clear", "remove"}
Inside(p) == pc[p] \in {"check", "unlink"}

\* What a call knows, at the steps where it knows it.
Calls ==
  \A p \in Live :
    /\ p \in up <=> pc[p] # "gone"
    /\ self[p] # NoRecord => Owner(self[p]) = p
    /\ pc[p] \notin {"idle", "gone"} => self[p] # NoRecord /\ attempt[p] > 0
    /\ stale[p] # NoRecord <=> pc[p] \in Breaking
    /\ pc[p] \in Claiming => slot[p] \in Slot

\* Only locks of the dead are broken, and only their guards are claimed.
Deaths ==
  /\ \A p \in Live : stale[p] # NoRecord => Dead(stale[p])
  /\ \A r \in Record : \A k \in Slot : guard[r][k] # NoRecord => Dead(r)

\* The guards a breaker remembers are those up to its own; who breaks nothing has none.
Remembers ==
  /\ \A p \in Live : pc[p] \notin Breaking => slot[p] = 0
  /\ \A p \in Live : \A k \in Slot : clear[p][k] # NoRecord =>
       k <= slot[p] /\ (pc[p] \in {"guard", "holder"} => k < slot[p])

Basis == TypeOK /\ Calls /\ Deaths

\* The guards of the lock that no breaker holds: those of the dead, and failed claims.
HeldBy(p, k) == stale[p] = lock /\ Inside(p) /\ slot[p] = k
Left ==
  {k \in Slot : guard[lock][k] # NoRecord /\ \A p \in Live : ~HeldBy(p, k)}

DeadLock == lock # NoRecord /\ Dead(lock)

\* While the dead lock is there, nobody removes its guards; who is at one has passed over
\* those before it, and holds it once it is inside.
Passed(p) ==
  /\ pc[p] \in Claiming
  /\ \A k \in Slot : k < slot[p] => guard[lock][k] # NoRecord /\ Dead(guard[lock][k])
  /\ Inside(p) => guard[lock][slot[p]] = self[p]
GuardsStay == DeadLock => \A p \in Live : stale[p] = lock => Passed(p)

\* Each guard that is left was left by a fault.
FewLeft == DeadLock => Cardinality(Left) <= faults

UnlinksDead == \A p \in Live : pc[p] = "unlink" => lock = stale[p]

Inv == Basis /\ Remembers /\ HolderKeepsLock /\ GuardsStay /\ FewLeft /\ UnlinksDead

-----------------------------------------------------------------------------
\* No record is none.
LEMMA NoneRecorded == NoRecord \notin Record
BY DEF NoRecord, Record

\* What a step of p may use of the types.
LEMMA CallKnows ==
  ASSUME Basis, NEW p \in Live
  PROVE  /\ NoRecord \notin Record
         /\ self[p] # NoRecord => self[p] \in Record /\ Owner(self[p]) = p
         /\ pc[p] \notin {"idle", "gone"} =>
              /\ p \in up /\ self[p] # NoRecord
              /\ attempt[p] \in 1 .. MaxAttempts
              /\ attempt[p] # 1 => attempt[p] - 1 \in 1 .. MaxAttempts
         /\ pc[p] \in Breaking => stale[p] \in Record
         /\ pc[p] \in Claiming => slot[p] \in Slot /\ slot[p] + 1 \in 0 .. MaxGuards + 1
         /\ MaxGuards \in Nat /\ 1 \in Slot /\ 0 \in 0 .. MaxGuards
         /\ 0 \in 0 .. MaxGuards + 1 /\ 1 \in 0 .. MaxGuards + 1
<1> QED
  BY NoneRecorded, ConstantsAssumption DEF Basis, TypeOK, Calls, Slot

\* Outside breakDead a call looks at no dead record.
LEMMA BreaksNothing ==
  ASSUME Basis, NEW p \in Live, pc[p] \notin Breaking
  PROVE  stale[p] = NoRecord
BY DEF Basis, Calls

ControlTypes ==
  /\ pc \in [Live -> {"idle", "read", "reread", "create", "undo", "holds", "release",
                      "guard", "holder", "check", "unlink", "clear", "remove", "gone"}]
  /\ up \subseteq Live
  /\ faults \in 0 .. MaxFaults
  /\ self \in [Live -> Record \cup {NoRecord}]
  /\ attempt \in [Live -> 0 .. MaxAttempts]

BreakTypes ==
  /\ stale \in [Live -> Record \cup {NoRecord}]
  /\ slot \in [Live -> 0 .. MaxGuards + 1]
  /\ retries \in [Live -> 0 .. MaxGuards]
  /\ clear \in [Live -> [Slot -> Record \cup {NoRecord}]]

\* A call that ends or starts its next attempt keeps the types.
LEMMA EndTyped ==
  ASSUME Basis, NEW p \in Live, End(p) \/ (Again(p) /\ pc[p] \notin {"idle", "gone"}),
         up' = up, faults' \in 0 .. MaxFaults
  PROVE  ControlTypes' /\ BreakTypes'
<1> USE DEF Basis, TypeOK
<1>1. CASE End(p)
  <2>1. ControlTypes'
    BY <1>1, ConstantsAssumption DEF End, To, ControlTypes
  <2>2. BreakTypes'
    BY <1>1, ConstantsAssumption DEF End, None, BreakTypes
  <2> QED
    BY <2>1, <2>2
<1>2. CASE Again(p) /\ pc[p] \notin {"idle", "gone"} /\ ~End(p)
  <2>1. /\ attempt[p] - 1 \in 0 .. MaxAttempts
        /\ attempt' = [attempt EXCEPT ![p] = attempt[p] - 1]
        /\ To(p, "read") /\ self' = self
        /\ stale' = [stale EXCEPT ![p] = NoRecord]
        /\ slot' = [slot EXCEPT ![p] = 0]
        /\ retries' = [retries EXCEPT ![p] = 0]
        /\ clear' = [clear EXCEPT ![p] = None]
    BY <1>2, CallKnows DEF Again
  <2>2. ControlTypes'
    BY <2>1 DEF To, ControlTypes
  <2>3. BreakTypes'
    BY <2>1, CallKnows DEF None, BreakTypes
  <2> QED
    BY <2>2, <2>3
<1> QED
  BY <1>1, <1>2

\* The lock and the guards hold records.
LEMMA FilesTyped ==
  ASSUME Basis, [Next]_vars
  PROVE  /\ lock' \in Record \cup {NoRecord}
         /\ guard' \in [Record -> [Slot -> Record \cup {NoRecord}]]
<1> USE DEF Basis, TypeOK
<1> DEFINE Goal == /\ lock' \in Record \cup {NoRecord}
                   /\ guard' \in [Record -> [Slot -> Record \cup {NoRecord}]]
<1>1. ASSUME UNCHANGED <<lock, guard>> PROVE Goal
  BY <1>1
<1>2. ASSUME NEW p \in Live, Call(p) \/ ReadMissing(p) \/ RereadMissing(p) \/ ReadHeld(p)
             \/ Release(p) \/ GuardTaken(p) \/ GuardVanished(p) \/ GuardRefuses(p)
             \/ PassGuard(p) \/ CheckLock(p) \/ ReadGuard(p) \/ Broken(p) \/ Exit(p)
             \/ Crash(p)
      PROVE  Goal
  BY <1>1, <1>2 DEF Call, files, ReadMissing, RereadMissing, Again, ReadHeld, Release,
     GuardTaken, GuardVanished, GuardRefuses, PassGuard, CheckLock, ReadGuard, Broken, Exit,
     Stop, Crash
<1>3. ASSUME NEW p \in Live, Create(p) PROVE Goal
  BY <1>3 DEF Create, break
<1>4. ASSUME NEW p \in Live, CreateFails(p) PROVE Goal
  BY <1>4 DEF CreateFails, break
<1>5. ASSUME NEW p \in Live, Undo(p) PROVE Goal
  BY <1>5, CallKnows DEF Undo
<1>6. ASSUME NEW p \in Live, RemoveLock(p) PROVE Goal
  BY <1>6, CallKnows DEF RemoveLock
<1>7. ASSUME NEW p \in Live, ClaimGuard(p) PROVE Goal
  BY <1>7 DEF ClaimGuard, call
<1>8. ASSUME NEW p \in Live, ClaimFails(p) PROVE Goal
  BY <1>8, CallKnows DEF ClaimFails
<1>9. ASSUME NEW p \in Live, Unlink(p) PROVE Goal
  BY <1>9 DEF Unlink, break
<1>10. ASSUME NEW p \in Live, RemoveGuard(p) PROVE Goal
  BY <1>10 DEF RemoveGuard, call
<1> QED
  BY <1>1, <1>2, <1>3, <1>4, <1>5, <1>6, <1>7, <1>8, <1>9, <1>10
  DEF Next, Acquire, Give, Fault, vars, files

\* Every step leads to a step, by a process that runs.
LEMMA ControlTyped ==
  ASSUME Basis, [Next]_vars
  PROVE  ControlTypes'
<1> USE DEF Basis, TypeOK

<1>1. ASSUME UNCHANGED <<pc, up, faults, self, attempt>> PROVE ControlTypes'
  BY <1>1 DEF ControlTypes
<1>2. ASSUME NEW p \in Live, Call(p) PROVE ControlTypes'
  BY <1>2, ConstantsAssumption DEF ControlTypes, Call, To, Record, Proc
<1>3. ASSUME NEW p \in Live, ReadMissing(p) PROVE ControlTypes'
  BY <1>3, ConstantsAssumption DEF ControlTypes, ReadMissing, To, call
<1>4. ASSUME NEW p \in Live, RereadMissing(p) PROVE ControlTypes'
  BY <1>4, EndTyped DEF RereadMissing, ControlTypes
<1>5. ASSUME NEW p \in Live, ReadHeld(p) PROVE ControlTypes'
  <2>1. CASE End(p) \/ Again(p)
    BY <1>5, <2>1, EndTyped DEF ReadHeld, ControlTypes
  <2>2. CASE ~End(p) /\ ~Again(p)
    BY <1>5, <2>2 DEF ReadHeld, To, call, StartBreak, ControlTypes
  <2> QED
    BY <2>1, <2>2
<1>6. ASSUME NEW p \in Live, Create(p) PROVE ControlTypes'
  BY <1>6 DEF ControlTypes, Create, To, call
<1>7. ASSUME NEW p \in Live, CreateFails(p) PROVE ControlTypes'
  BY <1>7, ConstantsAssumption DEF ControlTypes, CreateFails, To, call
<1>8. ASSUME NEW p \in Live, Undo(p) PROVE ControlTypes'
  BY <1>8, ConstantsAssumption DEF ControlTypes, Undo, End, To
<1>9. ASSUME NEW p \in Live, Release(p) PROVE ControlTypes'
  <2>1. CASE End(p) \/ Again(p)
    BY <1>9, <2>1, EndTyped DEF Release, ControlTypes
  <2>2. CASE ~End(p) /\ ~Again(p)
    BY <1>9, <2>2 DEF Release, To, call, ControlTypes
  <2> QED
    BY <2>1, <2>2
<1>10. ASSUME NEW p \in Live, RemoveLock(p) PROVE ControlTypes'
  BY <1>10, ConstantsAssumption DEF ControlTypes, RemoveLock, End, To
<1>11. ASSUME NEW p \in Live, ClaimGuard(p) PROVE ControlTypes'
  BY <1>11, ConstantsAssumption DEF ControlTypes, ClaimGuard, To, call
<1>12. ASSUME NEW p \in Live, GuardTaken(p) PROVE ControlTypes'
  BY <1>12, ConstantsAssumption DEF ControlTypes, GuardTaken, To, call
<1>13. ASSUME NEW p \in Live, ClaimFails(p) PROVE ControlTypes'
  BY <1>13, ConstantsAssumption DEF ControlTypes, ClaimFails, End, To
<1>14. ASSUME NEW p \in Live, GuardVanished(p) PROVE ControlTypes'
  <2>1. CASE End(p) \/ Again(p)
    BY <1>14, <2>1, EndTyped DEF GuardVanished, ControlTypes
  <2>2. CASE ~End(p) /\ ~Again(p)
    BY <1>14, <2>2 DEF GuardVanished, To, call, ControlTypes
  <2> QED
    BY <2>1, <2>2
<1>15. ASSUME NEW p \in Live, GuardRefuses(p) PROVE ControlTypes'
  BY <1>15, ConstantsAssumption DEF ControlTypes, GuardRefuses, End, To
<1>16. ASSUME NEW p \in Live, PassGuard(p) PROVE ControlTypes'
  BY <1>16, ConstantsAssumption DEF ControlTypes, PassGuard, To, call
<1>17. ASSUME NEW p \in Live, CheckLock(p) PROVE ControlTypes'
  BY <1>17, ConstantsAssumption DEF ControlTypes, CheckLock, To, call
<1>18. ASSUME NEW p \in Live, Unlink(p) PROVE ControlTypes'
  BY <1>18, ConstantsAssumption DEF ControlTypes, Unlink, To, call
<1>19. ASSUME NEW p \in Live, ReadGuard(p) PROVE ControlTypes'
  BY <1>19 DEF ControlTypes, ReadGuard, To, call
<1>20. ASSUME NEW p \in Live, RemoveGuard(p) PROVE ControlTypes'
  BY <1>20 DEF ControlTypes, RemoveGuard, To, call
<1>21. ASSUME NEW p \in Live, Broken(p) PROVE ControlTypes'
  BY <1>21, EndTyped DEF Broken, ControlTypes
<1>22. ASSUME NEW p \in Live, Exit(p) PROVE ControlTypes'
  BY <1>22, ConstantsAssumption DEF ControlTypes, Exit, Stop, To
<1>23. ASSUME NEW p \in Live, Crash(p) PROVE ControlTypes'
  BY <1>23, ConstantsAssumption DEF ControlTypes, Crash, Stop, To
<1> QED
  BY <1>1, <1>2, <1>3, <1>4, <1>5, <1>6, <1>7, <1>8, <1>9, <1>10, <1>11, <1>12, <1>13, <1>14,
     <1>15, <1>16, <1>17, <1>18, <1>19, <1>20, <1>21, <1>22, <1>23
  DEF Next, Acquire, Give, Fault, vars, call

\* What breakDead remembers are records and guards of them.
LEMMA BreakTyped ==
  ASSUME Basis, [Next]_vars
  PROVE  BreakTypes'
<1> USE DEF Basis, TypeOK

<1>1. ASSUME UNCHANGED <<stale, slot, retries, clear>> PROVE BreakTypes'
  BY <1>1 DEF BreakTypes
<1>2. ASSUME NEW p \in Live, Call(p) \/ ReadMissing(p) \/ Create(p) \/ CreateFails(p)
             \/ GuardTaken(p) \/ CheckLock(p) \/ Unlink(p)
      PROVE  BreakTypes'
  BY <1>1, <1>2 DEF Call, break, ReadMissing, Create, CreateFails, GuardTaken, CheckLock,
     Unlink
<1>3. ASSUME NEW p \in Live, RereadMissing(p) PROVE BreakTypes'
  BY <1>3, EndTyped DEF RereadMissing, ControlTypes
<1>4. ASSUME NEW p \in Live, ReadHeld(p) PROVE BreakTypes'
  <2>1. CASE End(p) \/ Again(p)
    BY <1>4, <2>1, EndTyped DEF ReadHeld, ControlTypes
  <2>2. CASE ~End(p) /\ ~Again(p)
    BY <1>4, <2>2, CallKnows DEF ReadHeld, StartBreak, BreakTypes
  <2> QED
    BY <2>1, <2>2
<1>5. ASSUME NEW p \in Live, Undo(p) PROVE BreakTypes'
  BY <1>5, CallKnows DEF BreakTypes, Undo, End, None
<1>6. ASSUME NEW p \in Live, Release(p) PROVE BreakTypes'
  <2>1. CASE End(p) \/ Again(p)
    BY <1>6, <2>1, EndTyped, CallKnows DEF Release, ControlTypes
  <2>2. CASE ~End(p) /\ ~Again(p)
    BY <1>6, <2>2, CallKnows DEF Release, break, BreakTypes
  <2> QED
    BY <2>1, <2>2
<1>7. ASSUME NEW p \in Live, RemoveLock(p) PROVE BreakTypes'
  BY <1>7, CallKnows DEF BreakTypes, RemoveLock, End, None
<1>8. ASSUME NEW p \in Live, ClaimGuard(p) PROVE BreakTypes'
  BY <1>8, CallKnows DEF BreakTypes, ClaimGuard
<1>9. ASSUME NEW p \in Live, ClaimFails(p) PROVE BreakTypes'
  BY <1>9, CallKnows DEF BreakTypes, ClaimFails, End, None
<1>10. ASSUME NEW p \in Live, GuardVanished(p) PROVE BreakTypes'
  <2>1. CASE End(p)
    BY <1>10, <2>1, EndTyped, CallKnows DEF GuardVanished, ControlTypes
  <2>2. CASE ~End(p)
    <3>1. retries[p] + 1 \in 0 .. MaxGuards /\ retries' = [retries EXCEPT ![p] = retries[p] + 1]
      BY <1>10, <2>2, CallKnows DEF GuardVanished
    <3>2. retries' \in [Live -> 0 .. MaxGuards]
      BY <3>1
    <3> QED
      BY <1>10, <2>2, <3>2 DEF GuardVanished, BreakTypes
  <2> QED
    BY <2>1, <2>2
<1>11. ASSUME NEW p \in Live, GuardRefuses(p) PROVE BreakTypes'
  BY <1>11, CallKnows DEF BreakTypes, GuardRefuses, End, None
<1>12. ASSUME NEW p \in Live, PassGuard(p) PROVE BreakTypes'
  <2>1. guard[stale[p]][slot[p]] \in Record \cup {NoRecord} /\ slot[p] + 1 \in 0 .. MaxGuards + 1
    BY <1>12, CallKnows DEF PassGuard, Breaking, Claiming
  <2>2. clear' \in [Live -> [Slot -> Record \cup {NoRecord}]]
    BY <1>12, <2>1 DEF PassGuard
  <2> QED
    BY <1>12, <2>1, <2>2 DEF PassGuard, BreakTypes
<1>13. ASSUME NEW p \in Live, ReadGuard(p) PROVE BreakTypes'
  <2>1. clear' = clear \/ \E k : clear' = [clear EXCEPT ![p][k] = NoRecord]
    BY <1>13 DEF ReadGuard
  <2>2. clear' \in [Live -> [Slot -> Record \cup {NoRecord}]]
    <3>1. CASE clear' = clear
      BY <3>1
    <3>2. ASSUME NEW k, clear' = [clear EXCEPT ![p][k] = NoRecord]
          PROVE  clear' \in [Live -> [Slot -> Record \cup {NoRecord}]]
      BY <3>2
    <3> QED
      BY <2>1, <3>1, <3>2
  <2> QED
    BY <1>13, <2>2 DEF ReadGuard, BreakTypes
<1>14. ASSUME NEW p \in Live, RemoveGuard(p) PROVE BreakTypes'
  BY <1>14 DEF BreakTypes, RemoveGuard
<1>15. ASSUME NEW p \in Live, Broken(p) PROVE BreakTypes'
  BY <1>15, EndTyped DEF Broken, ControlTypes
<1>16. ASSUME NEW p \in Live, Exit(p) PROVE BreakTypes'
  BY <1>16, CallKnows DEF BreakTypes, Exit, Stop, None
<1>17. ASSUME NEW p \in Live, Crash(p) PROVE BreakTypes'
  BY <1>17, CallKnows DEF BreakTypes, Crash, Stop, None
<1> QED
  BY <1>1, <1>2, <1>3, <1>4, <1>5, <1>6, <1>7, <1>8, <1>9, <1>10, <1>11, <1>12, <1>13, <1>14,
     <1>15, <1>16, <1>17
  DEF Next, Acquire, Give, Fault, vars, break

\* A call that ends or starts its next attempt forgets the guards.
LEMMA EndForgets ==
  ASSUME Basis, Remembers, NEW p \in Live, End(p) \/ Again(p)
  PROVE  Remembers'
<1> USE DEF Basis, TypeOK
<1>1. /\ \E s \in {"idle", "read"} : pc' = [pc EXCEPT ![p] = s]
      /\ slot' = [slot EXCEPT ![p] = 0]
      /\ clear' = [clear EXCEPT ![p] = None]
  BY DEF End, Again, To
<1>2. \A q \in Live : \/ pc'[q] = pc[q] /\ slot'[q] = slot[q] /\ clear'[q] = clear[q]
                      \/ pc'[q] \in {"idle", "read"} /\ slot'[q] = 0 /\ clear'[q] = None
  BY <1>1
<1> QED
  BY <1>2 DEF Remembers, None

\* What a call knows is kept by every step.
LEMMA CallsStep ==
  ASSUME Basis, [Next]_vars
  PROVE  Calls'
<1> USE DEF Basis, TypeOK
<1>1. ASSUME UNCHANGED <<pc, up, self, attempt, stale, slot>> PROVE Calls'
  BY <1>1 DEF Calls, Claiming
<1>2. ASSUME NEW p \in Live, Call(p) PROVE Calls'
  BY <1>2, ConstantsAssumption, CallKnows
  DEF Call, To, break, Record, Proc, Calls, Owner, Breaking, Claiming
<1>3. ASSUME NEW p \in Live, ReadMissing(p) PROVE Calls'
  BY <1>3, ConstantsAssumption, CallKnows
  DEF ReadMissing, To, call, break, Calls, Owner, Breaking, Claiming
<1>4. ASSUME NEW p \in Live, RereadMissing(p) PROVE Calls'
  BY <1>4, ConstantsAssumption, CallKnows
  DEF RereadMissing, Again, End, To, Calls, Owner, Breaking, Claiming
<1>5. ASSUME NEW p \in Live, ReadHeld(p) PROVE Calls'
  BY <1>5, ConstantsAssumption, CallKnows
  DEF ReadHeld, StartBreak, End, files, Owner, To, call, Calls, Breaking, Claiming
<1>6. ASSUME NEW p \in Live, Create(p) PROVE Calls'
  BY <1>6, CallKnows DEF Create, To, call, break, Calls, Breaking, Claiming
<1>7. ASSUME NEW p \in Live, CreateFails(p) PROVE Calls'
  BY <1>7, CallKnows DEF CreateFails, To, call, break, Calls, Breaking, Claiming
<1>8. ASSUME NEW p \in Live, Undo(p) PROVE Calls'
  BY <1>8, CallKnows DEF Undo, End, To, Calls, Breaking, Claiming
<1>9. ASSUME NEW p \in Live, Release(p) PROVE Calls'
  BY <1>9 DEF Release, To, call, break, End, files, NoRecord, Calls, Breaking, Claiming
<1>10. ASSUME NEW p \in Live, RemoveLock(p) PROVE Calls'
  BY <1>10 DEF RemoveLock, NoRecord, End, To, Calls, Breaking, Claiming
<1>11. ASSUME NEW p \in Live, ClaimGuard(p) PROVE Calls'
  BY <1>11 DEF ClaimGuard, NoRecord, To, call, Calls, Breaking, Claiming
<1>12. ASSUME NEW p \in Live, GuardTaken(p) PROVE Calls'
  BY <1>12 DEF GuardTaken, NoRecord, To, files, call, break, Calls, Breaking, Claiming
<1>13. ASSUME NEW p \in Live, ClaimFails(p) PROVE Calls'
  BY <1>13 DEF ClaimFails, End, To, Calls, Breaking, Claiming
<1>14. ASSUME NEW p \in Live, GuardVanished(p) PROVE Calls'
  BY <1>14, ConstantsAssumption DEF GuardVanished, To, call, End, Calls, Breaking, Claiming
<1>15. ASSUME NEW p \in Live, GuardRefuses(p) PROVE Calls'
  BY <1>15, ConstantsAssumption DEF GuardRefuses, End, To, Calls, Breaking, Claiming
<1>16. ASSUME NEW p \in Live, PassGuard(p) PROVE Calls'
  BY <1>16, ConstantsAssumption DEF PassGuard, To, call, Calls, Breaking, Claiming, Slot
<1>17. ASSUME NEW p \in Live, CheckLock(p) PROVE Calls'
  BY <1>17, ConstantsAssumption DEF CheckLock, To, call, break, Calls, Breaking, Claiming, Slot
<1>18. ASSUME NEW p \in Live, Unlink(p) PROVE Calls'
  BY <1>18 DEF Unlink, To, call, break, Calls, Breaking, Claiming, Slot
<1>19. ASSUME NEW p \in Live, ReadGuard(p) PROVE Calls'
  BY <1>19 DEF ReadGuard, To, call, Slot, Calls, Breaking, Claiming
<1>20. ASSUME NEW p \in Live, RemoveGuard(p) PROVE Calls'
  BY <1>20 DEF RemoveGuard, To, call, Calls, Breaking, Claiming
<1>21. ASSUME NEW p \in Live, Broken(p) PROVE Calls'
  BY <1>21 DEF Broken, Again, End, To, Calls, Breaking, Claiming
<1>22. ASSUME NEW p \in Live, Exit(p) PROVE Calls'
  BY <1>22 DEF Exit, Stop, To, Calls, Breaking, Claiming
<1>23. ASSUME NEW p \in Live, Crash(p) PROVE Calls'
  BY <1>23 DEF Crash, Stop, To, Calls, Breaking, Claiming
<1> QED
  BY <1>1, <1>2, <1>3, <1>4, <1>5, <1>6, <1>7, <1>8, <1>9, <1>10, <1>11, <1>12, <1>13, <1>14,
     <1>15, <1>16, <1>17, <1>18, <1>19, <1>20, <1>21, <1>22, <1>23
  DEF Next, Acquire, Give, Fault, vars, call, break

\* A record is looked at only when it is the lock and its process is dead.
LEMMA StaleChanges ==
  ASSUME Basis, [Next]_vars
  PROVE  \A q \in Live :
           \/ stale'[q] = stale[q]
           \/ stale'[q] = NoRecord
           \/ /\ stale'[q] = lock /\ lock # NoRecord /\ Dead(lock) /\ lock' = lock
              /\ pc'[q] = "guard" /\ slot'[q] = 1
<1> USE DEF Basis, TypeOK
<1> DEFINE Goal == \A q \in Live :
                     \/ stale'[q] = stale[q]
                     \/ stale'[q] = NoRecord
                     \/ /\ stale'[q] = lock /\ lock # NoRecord /\ Dead(lock) /\ lock' = lock
                        /\ pc'[q] = "guard" /\ slot'[q] = 1
<1>1. ASSUME UNCHANGED stale PROVE Goal
  BY <1>1
<1>2. ASSUME NEW p \in Live, Call(p) \/ ReadMissing(p) \/ Create(p) \/ CreateFails(p)
             \/ ClaimGuard(p) \/ GuardTaken(p) \/ PassGuard(p) \/ CheckLock(p) \/ Unlink(p)
             \/ ReadGuard(p) \/ RemoveGuard(p)
      PROVE  Goal
  BY <1>1, <1>2 DEF Call, break, ReadMissing, Create, CreateFails, ClaimGuard, GuardTaken,
     PassGuard, CheckLock, Unlink, ReadGuard, RemoveGuard
<1>3. ASSUME NEW p \in Live, RereadMissing(p) PROVE Goal
  BY <1>3 DEF RereadMissing, Again, End
<1>4. ASSUME NEW p \in Live, ReadHeld(p) PROVE Goal
  BY <1>4 DEF ReadHeld, StartBreak, End, files, To
<1>5. ASSUME NEW p \in Live, Undo(p) PROVE Goal
  BY <1>5 DEF Undo, End, To
<1>6. ASSUME NEW p \in Live, Release(p) PROVE Goal
  BY <1>6 DEF Release, To, break, End, files
<1>7. ASSUME NEW p \in Live, RemoveLock(p) PROVE Goal
  BY <1>7 DEF RemoveLock, End, To
<1>8. ASSUME NEW p \in Live, ClaimFails(p) PROVE Goal
  BY <1>8 DEF ClaimFails, End
<1>9. ASSUME NEW p \in Live, GuardVanished(p) PROVE Goal
  BY <1>9 DEF GuardVanished, End
<1>10. ASSUME NEW p \in Live, GuardRefuses(p) PROVE Goal
  BY <1>10 DEF GuardRefuses, End
<1>11. ASSUME NEW p \in Live, Broken(p) PROVE Goal
  BY <1>11 DEF Broken, Again, End
<1>12. ASSUME NEW p \in Live, Exit(p) PROVE Goal
  BY <1>12 DEF Exit, Stop
<1>13. ASSUME NEW p \in Live, Crash(p) PROVE Goal
  BY <1>13 DEF Crash, Stop
<1> QED
  BY <1>1, <1>2, <1>3, <1>4, <1>5, <1>6, <1>7, <1>8, <1>9, <1>10, <1>11, <1>12, <1>13
  DEF Next, Acquire, Give, Fault, vars, break

\* A guard is removed by a breaker that clears, and created where none is.
LEMMA GuardChanges ==
  ASSUME Basis, [Next]_vars
  PROVE  \A r \in Record : \A k \in Slot :
           \/ guard'[r][k] = guard[r][k]
           \/ guard'[r][k] = NoRecord /\ \E p \in Live : stale[p] = r /\ pc[p] = "remove"
           \/ \E p \in Live : /\ stale[p] = r /\ slot[p] = k /\ pc[p] = "guard"
                              /\ guard[r][k] = NoRecord /\ guard'[r][k] = self[p]
                              /\ \/ /\ pc'[p] = "check"
                                    /\ stale' = stale /\ slot' = slot /\ self' = self
                                 \/ ClaimFails(p)
<1> USE DEF Basis, TypeOK
<1> DEFINE Goal == \A r \in Record : \A k \in Slot :
                     \/ guard'[r][k] = guard[r][k]
                     \/ guard'[r][k] = NoRecord /\ \E p \in Live : stale[p] = r /\ pc[p] = "remove"
                     \/ \E p \in Live : /\ stale[p] = r /\ slot[p] = k /\ pc[p] = "guard"
                                        /\ guard[r][k] = NoRecord /\ guard'[r][k] = self[p]
                                        /\ \/ /\ pc'[p] = "check"
                                              /\ stale' = stale /\ slot' = slot /\ self' = self
                                           \/ ClaimFails(p)
<1>1. ASSUME UNCHANGED guard PROVE Goal
  BY <1>1
<1>2. ASSUME NEW p \in Live, Call(p) \/ ReadMissing(p) \/ RereadMissing(p) \/ ReadHeld(p)
             \/ Create(p) \/ CreateFails(p) \/ Undo(p) \/ Release(p) \/ RemoveLock(p)
             \/ GuardTaken(p) \/ GuardVanished(p) \/ GuardRefuses(p) \/ PassGuard(p)
             \/ CheckLock(p) \/ Unlink(p) \/ ReadGuard(p) \/ Broken(p) \/ Exit(p) \/ Crash(p)
      PROVE  Goal
  BY <1>1, <1>2 DEF Call, files, ReadMissing, RereadMissing, Again, ReadHeld, Create,
     CreateFails, Undo, Release, RemoveLock, GuardTaken, GuardVanished, GuardRefuses,
     PassGuard, CheckLock, Unlink, ReadGuard, Broken, Exit, Stop, Crash
<1>3. ASSUME NEW p \in Live, ClaimGuard(p) PROVE Goal
  BY <1>3 DEF ClaimGuard, To, call
<1>4. ASSUME NEW p \in Live, ClaimFails(p) PROVE Goal
  <2>1. /\ pc[p] = "guard" /\ guard[stale[p]][slot[p]] = NoRecord
        /\ guard' = [guard EXCEPT ![stale[p]][slot[p]] = self[p]]
    BY <1>4 DEF ClaimFails
  <2>2. stale[p] \in Record /\ slot[p] \in Slot
    BY <2>1, CallKnows DEF Breaking, Claiming
  <2>3. ASSUME NEW r \in Record, NEW k \in Slot
        PROVE  \/ guard'[r][k] = guard[r][k]
               \/ /\ stale[p] = r /\ slot[p] = k /\ guard[r][k] = NoRecord
                  /\ guard'[r][k] = self[p]
    BY <2>1, <2>2
  <2> QED
    BY <1>4, <2>1, <2>3
<1>5. ASSUME NEW p \in Live, RemoveGuard(p) PROVE Goal
  BY <1>5 DEF RemoveGuard, To
<1> QED
  BY <1>1, <1>2, <1>3, <1>4, <1>5 DEF Next, Acquire, Give, Fault, vars, files

\* What a breaker remembers are the guards it passed, and its own.
LEMMA RemembersStep ==
  ASSUME Basis, Remembers, [Next]_vars
  PROVE  Remembers'
<1> USE DEF Basis, TypeOK
<1>1. ASSUME UNCHANGED <<clear, slot, pc>> PROVE Remembers'
  BY <1>1 DEF Remembers, Claiming
<1>2. ASSUME NEW p \in Live, Call(p) PROVE Remembers'
  <2>1. pc' = [pc EXCEPT ![p] = "read"] /\ pc[p] = "idle" /\ slot' = slot /\ clear' = clear
    BY <1>2 DEF Call, To, break
  <2>2. \A q \in Live : pc'[q] = pc[q] \/ (pc[q] = "idle" /\ pc'[q] = "read")
    BY <2>1
  <2> QED
    BY <2>1, <2>2 DEF Remembers, Breaking, Claiming
<1>3. ASSUME NEW p \in Live, ReadMissing(p) PROVE Remembers'
  BY <1>3 DEF ReadMissing, To, break, Remembers, Breaking, Claiming
<1>4. ASSUME NEW p \in Live, RereadMissing(p) PROVE Remembers'
  BY <1>4, EndForgets DEF RereadMissing
<1>5. ASSUME NEW p \in Live, ReadHeld(p) PROVE Remembers'
  <2>1. CASE End(p) \/ Again(p)
    BY <2>1, EndForgets
  <2>2. CASE ~End(p)
    <3>1. \A q \in Live : q # p => pc'[q] = pc[q] /\ slot'[q] = slot[q] /\ clear'[q] = clear[q]
      BY <1>5, <2>2 DEF ReadHeld, StartBreak, To
    <3>2. /\ pc[p] \in {"read", "reread"} /\ pc'[p] = "guard"
          /\ slot'[p] = 1 /\ clear'[p] = clear[p]
      BY <1>5, <2>2 DEF ReadHeld, StartBreak, To
    <3>3. \A q \in Live : pc'[q] \notin Breaking => slot'[q] = 0
      BY <3>1, <3>2 DEF Remembers, Breaking, Claiming
    <3>4. ASSUME NEW k \in Slot, clear'[p][k] # NoRecord
          PROVE  k <= slot'[p] /\ (pc'[p] \in {"guard", "holder"} => k < slot'[p])
      <4>1. k \in Nat /\ k > 0
        BY ConstantsAssumption DEF Slot
      <4>2. clear[p][k] # NoRecord =>
              k <= slot[p] /\ (pc[p] \in {"guard", "holder"} => k < slot[p])
        BY DEF Remembers
      <4>3. slot[p] = 0
        BY <3>2 DEF Remembers, Breaking, Claiming
      <4> QED
        BY <3>2, <3>4, <4>1, <4>2, <4>3
    <3> QED
      BY <3>1, <3>3, <3>4 DEF Remembers
  <2> QED
    BY <2>1, <2>2
<1>6. ASSUME NEW p \in Live, Create(p) PROVE Remembers'
  <2>1. \A q \in Live : q # p => pc'[q] = pc[q] /\ slot'[q] = slot[q] /\ clear'[q] = clear[q]
    BY <1>6 DEF Create, To, break
  <2>2. /\ pc[p] = "create" /\ pc'[p] \in {"holds", "reread"}
        /\ slot'[p] = slot[p] /\ clear'[p] = clear[p]
    BY <1>6 DEF Create, To, break
  <2>3. \A q \in Live : pc'[q] \notin Breaking => slot'[q] = 0
    BY <2>1, <2>2 DEF Remembers, Breaking, Claiming
  <2>4. ASSUME NEW k \in Slot, clear'[p][k] # NoRecord
        PROVE  k <= slot'[p] /\ (pc'[p] \in {"guard", "holder"} => k < slot'[p])
    <3>1. k \in Nat /\ k > 0
      BY ConstantsAssumption DEF Slot
    <3>2. clear[p][k] # NoRecord =>
            k <= slot[p] /\ (pc[p] \in {"guard", "holder"} => k < slot[p])
      BY DEF Remembers
    <3> QED
      BY <2>2, <2>4, <3>1, <3>2 DEF Remembers
  <2> QED
    BY <2>1, <2>3, <2>4 DEF Remembers
<1>7. ASSUME NEW p \in Live, CreateFails(p) PROVE Remembers'
  BY <1>7 DEF CreateFails, To, break, Remembers, Breaking, Claiming
<1>8. ASSUME NEW p \in Live, Undo(p) PROVE Remembers'
  BY <1>8 DEF Undo, End, To, None, Remembers, Breaking, Claiming
<1>9. ASSUME NEW p \in Live, Release(p) PROVE Remembers'
  <2>1. CASE End(p) \/ Again(p)
    BY <2>1, EndForgets
  <2>2. CASE ~End(p)
    <3>1. \A q \in Live : q # p => pc'[q] = pc[q] /\ slot'[q] = slot[q] /\ clear'[q] = clear[q]
      BY <1>9, <2>2 DEF Release, To, break
    <3>2. pc[p] = "holds" /\ pc'[p] = "release" /\ slot'[p] = slot[p] /\ clear'[p] = clear[p]
      BY <1>9, <2>2 DEF Release, To, break
    <3>3. \A q \in Live : pc'[q] \notin Breaking => slot'[q] = 0
      BY <3>1, <3>2 DEF Remembers, Breaking, Claiming
    <3>4. ASSUME NEW k \in Slot, clear'[p][k] # NoRecord
          PROVE  k <= slot'[p] /\ (pc'[p] \in {"guard", "holder"} => k < slot'[p])
      <4>1. k \in Nat /\ k > 0
        BY ConstantsAssumption DEF Slot
      <4>2. clear[p][k] # NoRecord =>
              k <= slot[p] /\ (pc[p] \in {"guard", "holder"} => k < slot[p])
        BY DEF Remembers
      <4> QED
        BY <3>2, <3>4, <4>1, <4>2 DEF Remembers
    <3> QED
      BY <3>1, <3>3, <3>4 DEF Remembers
  <2> QED
    BY <2>1, <2>2
<1>10. ASSUME NEW p \in Live, RemoveLock(p) PROVE Remembers'
  BY <1>10 DEF RemoveLock, End, To, None, Remembers
<1>11. ASSUME NEW p \in Live, ClaimGuard(p) PROVE Remembers'
  BY <1>11 DEF ClaimGuard, To, Remembers, Breaking, Claiming
<1>12. ASSUME NEW p \in Live, GuardTaken(p) PROVE Remembers'
  BY <1>12 DEF GuardTaken, To, break, Remembers, Breaking, Claiming
<1>13. ASSUME NEW p \in Live, ClaimFails(p) PROVE Remembers'
  BY <1>13 DEF ClaimFails, End, To, None, Remembers, Breaking, Claiming
<1>14. ASSUME NEW p \in Live, GuardVanished(p) PROVE Remembers'
  <2>1. CASE End(p) \/ Again(p)
    BY <2>1, EndForgets
  <2>2. CASE ~End(p)
    <3>1. \A q \in Live : q # p => pc'[q] = pc[q] /\ slot'[q] = slot[q] /\ clear'[q] = clear[q]
      BY <1>14, <2>2 DEF GuardVanished, To
    <3>2. pc[p] = "holder" /\ pc'[p] = "guard" /\ slot'[p] = slot[p] /\ clear'[p] = clear[p]
      BY <1>14, <2>2 DEF GuardVanished, To
    <3>3. \A q \in Live : pc'[q] \notin Breaking => slot'[q] = 0
      BY <3>1, <3>2 DEF Remembers, Breaking, Claiming
    <3>4. ASSUME NEW k \in Slot, clear'[p][k] # NoRecord
          PROVE  k <= slot'[p] /\ (pc'[p] \in {"guard", "holder"} => k < slot'[p])
      <4>1. k \in Nat /\ k > 0
        BY ConstantsAssumption DEF Slot
      <4>2. clear[p][k] # NoRecord =>
              k <= slot[p] /\ (pc[p] \in {"guard", "holder"} => k < slot[p])
        BY DEF Remembers
      <4> QED
        BY <3>2, <3>4, <4>1, <4>2 DEF Remembers
    <3> QED
      BY <3>1, <3>3, <3>4 DEF Remembers
  <2> QED
    BY <2>1, <2>2
<1>15. ASSUME NEW p \in Live, GuardRefuses(p) PROVE Remembers'
  BY <1>15 DEF GuardRefuses, End, To, None, Remembers
<1>16. ASSUME NEW p \in Live, PassGuard(p) PROVE Remembers'
  <2>1. \A q \in Live : q # p => pc'[q] = pc[q] /\ slot'[q] = slot[q] /\ clear'[q] = clear[q]
    BY <1>16 DEF PassGuard, To
  <2>2. /\ pc[p] = "holder" /\ pc'[p] \in {"guard", "clear"}
        /\ slot'[p] = slot[p] + 1 /\ slot[p] \in Nat
        /\ \A k \in Slot : k # slot[p] => clear'[p][k] = clear[p][k]
    BY <1>16 DEF PassGuard, To
  <2>3. \A q \in Live : pc'[q] \notin Breaking => slot'[q] = 0
    BY <2>1, <2>2 DEF Remembers, Breaking, Claiming
  <2>4. ASSUME NEW k \in Slot, clear'[p][k] # NoRecord
        PROVE  k <= slot'[p] /\ (pc'[p] \in {"guard", "holder"} => k < slot'[p])
    <3>1. k \in Nat /\ k > 0
      BY ConstantsAssumption DEF Slot
    <3>2. clear[p][k] # NoRecord =>
            k <= slot[p] /\ (pc[p] \in {"guard", "holder"} => k < slot[p])
      BY DEF Remembers
    <3> QED
      BY <2>2, <2>4, <3>1, <3>2 DEF Remembers
  <2> QED
    BY <2>1, <2>3, <2>4 DEF Remembers
<1>17. ASSUME NEW p \in Live, CheckLock(p) PROVE Remembers'
  BY <1>17 DEF CheckLock, To, break, Remembers, Breaking, Claiming
<1>18. ASSUME NEW p \in Live, Unlink(p) PROVE Remembers'
  BY <1>18 DEF Unlink, To, break, Remembers, Breaking, Claiming
<1>19. ASSUME NEW p \in Live, ReadGuard(p) PROVE Remembers'
  <2>1. /\ slot' = slot /\ pc[p] = "clear"
        /\ \/ clear' = clear /\ pc' = [pc EXCEPT ![p] = "remove"]
           \/ clear' = [clear EXCEPT ![p][FirstToClear(p)] = NoRecord] /\ pc' = pc
    BY <1>19 DEF ReadGuard, To
  <2>2. ASSUME NEW q \in Live, NEW k \in Slot
        PROVE  clear'[q][k] = clear[q][k] \/ clear'[q][k] = NoRecord
    <3>1. CASE clear' = clear
      BY <3>1
    <3>2. ASSUME NEW j, clear' = [clear EXCEPT ![p][j] = NoRecord]
          PROVE  clear'[q][k] = clear[q][k] \/ clear'[q][k] = NoRecord
      BY <3>2
    <3> QED
      BY <2>1, <3>1, <3>2
  <2>3. \A q \in Live : pc'[q] = pc[q] \/ (pc[q] = "clear" /\ pc'[q] = "remove")
    <3>1. CASE pc' = pc
      BY <3>1
    <3>2. CASE pc' = [pc EXCEPT ![p] = "remove"]
      BY <2>1, <3>2
    <3> QED
      BY <2>1, <3>1, <3>2
  <2> QED
    BY <2>1, <2>2, <2>3 DEF Remembers, Breaking
<1>20. ASSUME NEW p \in Live, RemoveGuard(p) PROVE Remembers'
  BY <1>20 DEF RemoveGuard, To, Remembers, Breaking
<1>21. ASSUME NEW p \in Live, Broken(p) PROVE Remembers'
  BY <1>21, EndForgets DEF Broken
<1>22. ASSUME NEW p \in Live, Exit(p) PROVE Remembers'
  BY <1>22 DEF Exit, Stop, To, None, Remembers, Breaking
<1>23. ASSUME NEW p \in Live, Crash(p) PROVE Remembers'
  BY <1>23 DEF Crash, Stop, To, None, Remembers, Breaking
<1> QED
  BY <1>1, <1>2, <1>3, <1>4, <1>5, <1>6, <1>7, <1>8, <1>9, <1>10, <1>11, <1>12, <1>13, <1>14,
     <1>15, <1>16, <1>17, <1>18, <1>19, <1>20, <1>21, <1>22, <1>23
  DEF Next, Acquire, Give, Fault, vars, break

-----------------------------------------------------------------------------
\* What the steps change, for the facts that several of them keep.

\* A process that is gone does not run again.
LEMMA UpShrinks ==
  ASSUME Basis, [Next]_vars
  PROVE  up' \subseteq up
<1> USE DEF Basis, TypeOK
<1> DEFINE Goal == up' \subseteq up
<1>1. ASSUME UNCHANGED up PROVE Goal
  BY <1>1
<1>2. ASSUME NEW p \in Live, Call(p) \/ ReadMissing(p) \/ RereadMissing(p) \/ ReadHeld(p)
             \/ Create(p) \/ CreateFails(p) \/ Undo(p) \/ Release(p) \/ RemoveLock(p)
             \/ ClaimGuard(p) \/ GuardTaken(p) \/ ClaimFails(p) \/ GuardVanished(p)
             \/ GuardRefuses(p) \/ PassGuard(p) \/ CheckLock(p) \/ Unlink(p) \/ ReadGuard(p)
             \/ RemoveGuard(p) \/ Broken(p)
      PROVE  Goal
  BY <1>1, <1>2 DEF Call, ReadMissing, RereadMissing, Again, ReadHeld, Create, CreateFails,
     Undo, Release, RemoveLock, ClaimGuard, GuardTaken, ClaimFails, GuardVanished,
     GuardRefuses, PassGuard, CheckLock, Unlink, ReadGuard, RemoveGuard, Broken
<1>3. ASSUME NEW p \in Live, Exit(p) PROVE Goal
  BY <1>3 DEF Exit, Stop
<1>4. ASSUME NEW p \in Live, Crash(p) PROVE Goal
  BY <1>4 DEF Crash, Stop
<1> QED
  BY <1>1, <1>2, <1>3, <1>4 DEF Next, Acquire, Give, Fault, vars

\* Faults are counted one by one.
LEMMA FaultsGrow ==
  ASSUME Basis, [Next]_vars
  PROVE  faults' = faults \/ faults' = faults + 1
<1> USE DEF Basis, TypeOK
<1> DEFINE Goal == faults' = faults \/ faults' = faults + 1
<1>1. ASSUME UNCHANGED faults PROVE Goal
  BY <1>1
<1>2. ASSUME NEW p \in Live, Call(p) \/ ReadMissing(p) \/ RereadMissing(p) \/ ReadHeld(p)
             \/ Create(p) \/ Undo(p) \/ Release(p) \/ RemoveLock(p) \/ ClaimGuard(p)
             \/ GuardTaken(p) \/ GuardVanished(p) \/ GuardRefuses(p) \/ PassGuard(p)
             \/ CheckLock(p) \/ Unlink(p) \/ ReadGuard(p) \/ RemoveGuard(p) \/ Broken(p)
             \/ Exit(p)
      PROVE  Goal
  BY <1>1, <1>2 DEF Call, ReadMissing, RereadMissing, Again, ReadHeld, Create, Undo, Release,
     RemoveLock, ClaimGuard, GuardTaken, GuardVanished, GuardRefuses, PassGuard, CheckLock,
     Unlink, ReadGuard, RemoveGuard, Broken, Exit, Stop
<1>3. ASSUME NEW p \in Live, CreateFails(p) PROVE Goal
  BY <1>3 DEF CreateFails, To
<1>4. ASSUME NEW p \in Live, ClaimFails(p) PROVE Goal
  BY <1>4 DEF ClaimFails, To
<1>5. ASSUME NEW p \in Live, Crash(p) PROVE Goal
  BY <1>5 DEF Crash, Stop
<1> QED
  BY <1>1, <1>2, <1>3, <1>4, <1>5 DEF Next, Acquire, Give, Fault, vars

\* The lock is created only where none is, by a call that runs.
LEMMA LockChanges ==
  ASSUME Basis, [Next]_vars
  PROVE  \/ lock' = lock
         \/ lock' = NoRecord
         \/ /\ lock = NoRecord
            /\ \E p \in Live : lock' = self[p] /\ self[p] # NoRecord /\ p \in up'
<1> USE DEF Basis, TypeOK
<1> DEFINE Goal == \/ lock' = lock
                   \/ lock' = NoRecord
                   \/ /\ lock = NoRecord
                      /\ \E p \in Live : lock' = self[p] /\ self[p] # NoRecord /\ p \in up'
<1>1. ASSUME UNCHANGED lock PROVE Goal
  BY <1>1
<1>2. ASSUME NEW p \in Live, Call(p) \/ ReadMissing(p) \/ RereadMissing(p) \/ ReadHeld(p)
             \/ Release(p) \/ ClaimGuard(p) \/ GuardTaken(p) \/ ClaimFails(p)
             \/ GuardVanished(p) \/ GuardRefuses(p) \/ PassGuard(p) \/ CheckLock(p)
             \/ ReadGuard(p) \/ RemoveGuard(p) \/ Broken(p) \/ Exit(p) \/ Crash(p)
      PROVE  Goal
  BY <1>1, <1>2 DEF Call, files, ReadMissing, RereadMissing, Again, ReadHeld, Release,
     ClaimGuard, GuardTaken, ClaimFails, GuardVanished, GuardRefuses, PassGuard, CheckLock,
     ReadGuard, RemoveGuard, Broken, Exit, Stop, Crash
<1>3. ASSUME NEW p \in Live, Create(p) PROVE Goal
  BY <1>3, CallKnows DEF Create
<1>4. ASSUME NEW p \in Live, CreateFails(p) PROVE Goal
  BY <1>4, CallKnows DEF CreateFails
<1>5. ASSUME NEW p \in Live, Undo(p) PROVE Goal
  BY <1>5, CallKnows DEF Undo
<1>6. ASSUME NEW p \in Live, RemoveLock(p) PROVE Goal
  BY <1>6, CallKnows DEF RemoveLock
<1>7. ASSUME NEW p \in Live, Unlink(p) PROVE Goal
  BY <1>7, CallKnows DEF Unlink
<1> QED
  BY <1>1, <1>2, <1>3, <1>4, <1>5, <1>6, <1>7 DEF Next, Acquire, Give, Fault, vars, files

\* The steps of a breaker with its record.
LEMMA BreakerSteps ==
  ASSUME Basis, [Next]_vars
  PROVE  \A q \in Live : stale[q] # NoRecord /\ stale'[q] = stale[q] =>
           \/ pc'[q] = pc[q] /\ slot'[q] = slot[q] /\ self'[q] = self[q]
           \/ /\ pc[q] = "guard" /\ pc'[q] = "holder" /\ slot'[q] = slot[q]
           \/ /\ pc[q] = "guard" /\ pc'[q] = "check" /\ slot'[q] = slot[q]
              /\ self'[q] = self[q]
              /\ guard'[stale[q]][slot[q]] = self[q]
           \/ /\ pc[q] = "holder" /\ pc'[q] = "guard" /\ slot'[q] = slot[q]
           \/ /\ pc[q] = "holder" /\ slot'[q] = slot[q] + 1
              /\ pc'[q] = IF slot[q] = MaxGuards THEN "clear" ELSE "guard"
              /\ guard[stale[q]][slot[q]] # NoRecord /\ Dead(guard[stale[q]][slot[q]])
           \/ /\ pc[q] = "check" /\ pc'[q] = "unlink" /\ slot'[q] = slot[q]
              /\ self'[q] = self[q]
              /\ lock = stale[q] /\ lock' = lock
           \/ pc[q] = "check" /\ lock # stale[q]
           \/ pc[q] = "unlink" /\ lock' = NoRecord
           \/ pc[q] \in {"clear", "remove"}
<1> USE DEF Basis, TypeOK
<1> DEFINE Goal == \A q \in Live : stale[q] # NoRecord /\ stale'[q] = stale[q] =>
                     \/ pc'[q] = pc[q] /\ slot'[q] = slot[q] /\ self'[q] = self[q]
                     \/ /\ pc[q] = "guard" /\ pc'[q] = "holder" /\ slot'[q] = slot[q]
                     \/ /\ pc[q] = "guard" /\ pc'[q] = "check" /\ slot'[q] = slot[q]
                        /\ self'[q] = self[q]
                        /\ guard'[stale[q]][slot[q]] = self[q]
                     \/ /\ pc[q] = "holder" /\ pc'[q] = "guard" /\ slot'[q] = slot[q]
                     \/ /\ pc[q] = "holder" /\ slot'[q] = slot[q] + 1
                        /\ pc'[q] = IF slot[q] = MaxGuards THEN "clear" ELSE "guard"
                        /\ guard[stale[q]][slot[q]] # NoRecord /\ Dead(guard[stale[q]][slot[q]])
                     \/ /\ pc[q] = "check" /\ pc'[q] = "unlink" /\ slot'[q] = slot[q]
                        /\ self'[q] = self[q]
                        /\ lock = stale[q] /\ lock' = lock
                     \/ pc[q] = "check" /\ lock # stale[q]
                     \/ pc[q] = "unlink" /\ lock' = NoRecord
                     \/ pc[q] \in {"clear", "remove"}
<1>1. ASSUME UNCHANGED <<pc, slot, self, stale>> PROVE Goal
  BY <1>1
<1>2. ASSUME NEW p \in Live, Call(p) PROVE Goal
  BY <1>2, BreaksNothing DEF Breaking, Claiming, Call, To, break
<1>3. ASSUME NEW p \in Live, ReadMissing(p) PROVE Goal
  BY <1>3, BreaksNothing DEF Breaking, Claiming, ReadMissing, To, call, break
<1>4. ASSUME NEW p \in Live, RereadMissing(p) PROVE Goal
  <2>1. /\ pc' = [pc EXCEPT ![p] = pc'[p]]
        /\ self' = [self EXCEPT ![p] = self'[p]]
        /\ slot' = [slot EXCEPT ![p] = 0]
    BY <1>4 DEF RereadMissing, Again, End, To
  <2>2. stale[p] = NoRecord
    BY <1>4, BreaksNothing DEF RereadMissing, Breaking, Claiming
  <2> QED
    BY <2>1, <2>2
<1>5. ASSUME NEW p \in Live, ReadHeld(p) PROVE Goal
  <2>1. \A q \in Live : q # p => pc'[q] = pc[q] /\ self'[q] = self[q] /\ slot'[q] = slot[q]
    BY <1>5 DEF ReadHeld, StartBreak, End, To, call
  <2>2. stale[p] = NoRecord
    BY <1>5, BreaksNothing DEF ReadHeld, Breaking, Claiming
  <2> QED
    BY <2>1, <2>2
<1>6. ASSUME NEW p \in Live, Create(p) PROVE Goal
  BY <1>6, BreaksNothing DEF Breaking, Claiming, Create, To, call, break
<1>7. ASSUME NEW p \in Live, CreateFails(p) PROVE Goal
  BY <1>7, BreaksNothing DEF Breaking, Claiming, CreateFails, To, call, break
<1>8. ASSUME NEW p \in Live, Undo(p) PROVE Goal
  BY <1>8, BreaksNothing DEF Breaking, Claiming, Undo, End, To
<1>9. ASSUME NEW p \in Live, Release(p) PROVE Goal
  BY <1>9, BreaksNothing DEF Breaking, Claiming, Release, To, call, break, End
<1>10. ASSUME NEW p \in Live, RemoveLock(p) PROVE Goal
  BY <1>10, BreaksNothing DEF Breaking, Claiming, RemoveLock, End, To
<1>11. ASSUME NEW p \in Live, ClaimGuard(p) PROVE Goal
  BY <1>11, CallKnows, BreaksNothing DEF Breaking, Claiming, ClaimGuard, To, call
<1>12. ASSUME NEW p \in Live, GuardTaken(p) PROVE Goal
  BY <1>12, CallKnows, BreaksNothing DEF Breaking, Claiming, GuardTaken, To, call, break
<1>13. ASSUME NEW p \in Live, ClaimFails(p) PROVE Goal
  BY <1>13, CallKnows, BreaksNothing DEF ClaimFails, End, To
<1>14. ASSUME NEW p \in Live, GuardVanished(p) PROVE Goal
  BY <1>14, CallKnows, BreaksNothing DEF GuardVanished, To, call, End
<1>15. ASSUME NEW p \in Live, GuardRefuses(p) PROVE Goal
  BY <1>15, BreaksNothing DEF GuardRefuses, End, To
<1>16. ASSUME NEW p \in Live, PassGuard(p) PROVE Goal
  BY <1>16, BreaksNothing DEF PassGuard, To, call
<1>17. ASSUME NEW p \in Live, CheckLock(p) PROVE Goal
  BY <1>17, BreaksNothing DEF CheckLock, To, files, call, break
<1>18. ASSUME NEW p \in Live, Unlink(p) PROVE Goal
  BY <1>18, BreaksNothing DEF Unlink, To, call, break
<1>19. ASSUME NEW p \in Live, ReadGuard(p) PROVE Goal
  BY <1>19, BreaksNothing DEF ReadGuard, To, files, call
<1>20. ASSUME NEW p \in Live, RemoveGuard(p) PROVE Goal
  BY <1>20, BreaksNothing DEF RemoveGuard, To, call
<1>21. ASSUME NEW p \in Live, Broken(p) PROVE Goal
  <2>1. /\ pc' = [pc EXCEPT ![p] = pc'[p]]
        /\ self' = [self EXCEPT ![p] = self'[p]]
        /\ slot' = [slot EXCEPT ![p] = 0]
    BY <1>21 DEF Broken, Again, End, To
  <2> QED
    BY <1>21, <2>1 DEF Broken
<1>22. ASSUME NEW p \in Live, Exit(p) PROVE Goal
  BY <1>22, BreaksNothing DEF Exit, Stop, To
<1>23. ASSUME NEW p \in Live, Crash(p) PROVE Goal
  BY <1>23, BreaksNothing DEF Crash, Stop, To
<1> QED
  BY <1>1, <1>2, <1>3, <1>4, <1>5, <1>6, <1>7, <1>8, <1>9, <1>10, <1>11, <1>12, <1>13, <1>14,
     <1>15, <1>16, <1>17, <1>18, <1>19, <1>20, <1>21, <1>22, <1>23
  DEF Next, Acquire, Give, Fault, vars, call, break

\* Whoever is inside stays there until it removed the lock, or dies.
LEMMA InsideStays ==
  ASSUME Basis, [Next]_vars
  PROVE  \A q \in Live : Inside(q) /\ stale[q] = lock =>
           \/ pc'[q] \in {"check", "unlink"} /\ stale'[q] = stale[q] /\ slot'[q] = slot[q]
           \/ lock' = NoRecord
           \/ Crash(q)
<1> USE DEF Basis, TypeOK
<1> DEFINE Goal == \A q \in Live : Inside(q) /\ stale[q] = lock =>
                     \/ pc'[q] \in {"check", "unlink"} /\ stale'[q] = stale[q] /\ slot'[q] = slot[q]
                     \/ lock' = NoRecord
                     \/ Crash(q)
<1>1. ASSUME UNCHANGED <<pc, slot, stale>> PROVE Goal
  BY <1>1 DEF Inside
<1>2. ASSUME NEW p \in Live, Call(p) PROVE Goal
  BY <1>2 DEF Call, To, break, Inside
<1>3. ASSUME NEW p \in Live, ReadMissing(p) PROVE Goal
  BY <1>3 DEF ReadMissing, To, break, Inside
<1>4. ASSUME NEW p \in Live, RereadMissing(p) PROVE Goal
  BY <1>4 DEF RereadMissing, Again, files, To, Inside
<1>5. ASSUME NEW p \in Live, ReadHeld(p) PROVE Goal
  BY <1>5 DEF ReadHeld, StartBreak, End, files, To, Inside
<1>6. ASSUME NEW p \in Live, Create(p) PROVE Goal
  BY <1>6 DEF Create, To, break, Inside
<1>7. ASSUME NEW p \in Live, CreateFails(p) PROVE Goal
  BY <1>7 DEF CreateFails, To, break, Inside
<1>8. ASSUME NEW p \in Live, Undo(p) PROVE Goal
  BY <1>8 DEF Undo, End, To, Inside
<1>9. ASSUME NEW p \in Live, Release(p) PROVE Goal
  BY <1>9 DEF Release, To, break, End, Inside
<1>10. ASSUME NEW p \in Live, RemoveLock(p) PROVE Goal
  BY <1>10 DEF RemoveLock, End, To, Inside
<1>11. ASSUME NEW p \in Live, ClaimGuard(p) PROVE Goal
  BY <1>11 DEF ClaimGuard, To, Inside
<1>12. ASSUME NEW p \in Live, GuardTaken(p) PROVE Goal
  BY <1>12 DEF GuardTaken, To, break, Inside
<1>13. ASSUME NEW p \in Live, ClaimFails(p) PROVE Goal
  BY <1>13 DEF ClaimFails, End, To, Inside
<1>14. ASSUME NEW p \in Live, GuardVanished(p) PROVE Goal
  BY <1>14 DEF GuardVanished, To, End, Inside
<1>15. ASSUME NEW p \in Live, GuardRefuses(p) PROVE Goal
  BY <1>15 DEF GuardRefuses, End, To, Inside
<1>16. ASSUME NEW p \in Live, PassGuard(p) PROVE Goal
  BY <1>16 DEF PassGuard, To, Inside
<1>17. ASSUME NEW p \in Live, CheckLock(p) PROVE Goal
  BY <1>17 DEF CheckLock, To, break, Inside
<1>18. ASSUME NEW p \in Live, Unlink(p) PROVE Goal
  BY <1>18 DEF Unlink, To, break, Inside
<1>19. ASSUME NEW p \in Live, ReadGuard(p) PROVE Goal
  BY <1>19 DEF ReadGuard, To, Inside
<1>20. ASSUME NEW p \in Live, RemoveGuard(p) PROVE Goal
  BY <1>20 DEF RemoveGuard, To, Inside
<1>21. ASSUME NEW p \in Live, Broken(p) PROVE Goal
  BY <1>21 DEF Broken, Again, End, To, Inside
<1>22. ASSUME NEW p \in Live, Exit(p) PROVE Goal
  BY <1>22 DEF Exit, Stop, To, Inside
<1>23. ASSUME NEW p \in Live, Crash(p) PROVE Goal
  BY <1>23 DEF Crash, Stop, To, Inside
<1> QED
  BY <1>1, <1>2, <1>3, <1>4, <1>5, <1>6, <1>7, <1>8, <1>9, <1>10, <1>11, <1>12, <1>13, <1>14,
     <1>15, <1>16, <1>17, <1>18, <1>19, <1>20, <1>21, <1>22, <1>23
  DEF Next, Acquire, Give, Fault, vars, break

\* Who removes a lock: a breaker, a call that undoes its creation, or the holder.
LEMMA LockRemoved ==
  ASSUME Basis, [Next]_vars
  PROVE  \/ lock' = lock
         \/ lock = NoRecord
         \/ \E p \in Live : pc[p] = "unlink" /\ pc'[p] = "clear"
         \/ \E p \in Live : /\ pc[p] \in {"undo", "release"} /\ pc'[p] = "idle"
                            /\ pc[p] = "undo" => lock = self[p]
<1> USE DEF Basis, TypeOK
<1> DEFINE Goal == \/ lock' = lock
                   \/ lock = NoRecord
                   \/ \E p \in Live : pc[p] = "unlink" /\ pc'[p] = "clear"
                   \/ \E p \in Live : /\ pc[p] \in {"undo", "release"} /\ pc'[p] = "idle"
                                      /\ pc[p] = "undo" => lock = self[p]
<1>1. ASSUME UNCHANGED lock PROVE Goal
  BY <1>1
<1>2. ASSUME NEW p \in Live, Call(p) \/ ReadMissing(p) \/ RereadMissing(p) \/ ReadHeld(p)
             \/ Release(p) \/ ClaimGuard(p) \/ GuardTaken(p) \/ ClaimFails(p)
             \/ GuardVanished(p) \/ GuardRefuses(p) \/ PassGuard(p) \/ CheckLock(p)
             \/ ReadGuard(p) \/ RemoveGuard(p) \/ Broken(p) \/ Exit(p) \/ Crash(p)
      PROVE  Goal
  BY <1>1, <1>2 DEF Call, files, ReadMissing, RereadMissing, Again, ReadHeld, Release,
     ClaimGuard, GuardTaken, ClaimFails, GuardVanished, GuardRefuses, PassGuard, CheckLock,
     ReadGuard, RemoveGuard, Broken, Exit, Stop, Crash
<1>3. ASSUME NEW p \in Live, Create(p) PROVE Goal
  BY <1>3 DEF Create, To
<1>4. ASSUME NEW p \in Live, CreateFails(p) PROVE Goal
  BY <1>4 DEF CreateFails, To
<1>5. ASSUME NEW p \in Live, Undo(p) PROVE Goal
  BY <1>5 DEF Undo, End, To
<1>6. ASSUME NEW p \in Live, RemoveLock(p) PROVE Goal
  BY <1>6 DEF RemoveLock, End, To
<1>7. ASSUME NEW p \in Live, Unlink(p) PROVE Goal
  BY <1>7 DEF Unlink, To
<1> QED
  BY <1>1, <1>2, <1>3, <1>4, <1>5, <1>6, <1>7 DEF Next, Acquire, Give, Fault, vars, files

\* A call holds the lock that it created.
LEMMA HoldingSteps ==
  ASSUME Basis, [Next]_vars
  PROVE  \A q \in Live : Holding(q)' =>
           \/ Holding(q) /\ self'[q] = self[q]
           \/ lock' = self'[q] /\ lock' # lock
<1> USE DEF Basis, TypeOK
<1> DEFINE Goal == \A q \in Live : Holding(q)' =>
                     \/ Holding(q) /\ self'[q] = self[q]
                     \/ lock' = self'[q] /\ lock' # lock
<1>1. ASSUME UNCHANGED <<pc, self>> PROVE Goal
  BY <1>1 DEF Holding
<1>2. ASSUME NEW p \in Live, Call(p) PROVE Goal
  BY <1>2 DEF Call, To, Holding
<1>3. ASSUME NEW p \in Live, ReadMissing(p) PROVE Goal
  BY <1>3 DEF ReadMissing, To, call, Holding
<1>4. ASSUME NEW p \in Live, RereadMissing(p) PROVE Goal
  BY <1>4 DEF RereadMissing, Again, End, To, Holding
<1>5. ASSUME NEW p \in Live, ReadHeld(p) PROVE Goal
  BY <1>5 DEF ReadHeld, StartBreak, End, To, call, Holding
<1>6. ASSUME NEW p \in Live, Create(p) PROVE Goal
  BY <1>6, CallKnows DEF Create, To, call, Holding
<1>7. ASSUME NEW p \in Live, CreateFails(p) PROVE Goal
  BY <1>7, CallKnows DEF CreateFails, To, call, Holding
<1>8. ASSUME NEW p \in Live, Undo(p) PROVE Goal
  BY <1>8, CallKnows DEF Undo, End, To, Holding
<1>9. ASSUME NEW p \in Live, Release(p) PROVE Goal
  BY <1>9, CallKnows DEF Release, To, call, End, Holding
<1>10. ASSUME NEW p \in Live, RemoveLock(p) PROVE Goal
  BY <1>10 DEF RemoveLock, End, To, Holding
<1>11. ASSUME NEW p \in Live, ClaimGuard(p) PROVE Goal
  BY <1>11 DEF ClaimGuard, To, call, Holding
<1>12. ASSUME NEW p \in Live, GuardTaken(p) PROVE Goal
  BY <1>12 DEF GuardTaken, To, call, Holding
<1>13. ASSUME NEW p \in Live, ClaimFails(p) PROVE Goal
  BY <1>13 DEF ClaimFails, End, To, Holding
<1>14. ASSUME NEW p \in Live, GuardVanished(p) PROVE Goal
  BY <1>14 DEF GuardVanished, To, call, End, Holding
<1>15. ASSUME NEW p \in Live, GuardRefuses(p) PROVE Goal
  BY <1>15 DEF GuardRefuses, End, To, Holding
<1>16. ASSUME NEW p \in Live, PassGuard(p) PROVE Goal
  BY <1>16 DEF PassGuard, To, call, Holding
<1>17. ASSUME NEW p \in Live, CheckLock(p) PROVE Goal
  BY <1>17 DEF CheckLock, To, call, Holding
<1>18. ASSUME NEW p \in Live, Unlink(p) PROVE Goal
  BY <1>18 DEF Unlink, To, call, Holding
<1>19. ASSUME NEW p \in Live, ReadGuard(p) PROVE Goal
  BY <1>19 DEF ReadGuard, To, call, Holding
<1>20. ASSUME NEW p \in Live, RemoveGuard(p) PROVE Goal
  BY <1>20 DEF RemoveGuard, To, call, Holding
<1>21. ASSUME NEW p \in Live, Broken(p) PROVE Goal
  BY <1>21 DEF Broken, Again, End, To, Holding
<1>22. ASSUME NEW p \in Live, Exit(p) PROVE Goal
  BY <1>22 DEF Exit, Stop, To, Holding
<1>23. ASSUME NEW p \in Live, Crash(p) PROVE Goal
  BY <1>23 DEF Crash, Stop, To, Holding
<1> QED
  BY <1>1, <1>2, <1>3, <1>4, <1>5, <1>6, <1>7, <1>8, <1>9, <1>10, <1>11, <1>12, <1>13, <1>14,
     <1>15, <1>16, <1>17, <1>18, <1>19, <1>20, <1>21, <1>22, <1>23
  DEF Next, Acquire, Give, Fault, vars, call

\* A breaker goes on to remove the lock when it finds it unchanged under its guard.
LEMMA UnlinkSteps ==
  ASSUME Basis, [Next]_vars
  PROVE  \A q \in Live : pc'[q] = "unlink" =>
           \/ pc[q] = "unlink" /\ stale'[q] = stale[q]
           \/ stale'[q] = lock /\ lock' = lock
<1> USE DEF Basis, TypeOK
<1> DEFINE Goal == \A q \in Live : pc'[q] = "unlink" =>
                     \/ pc[q] = "unlink" /\ stale'[q] = stale[q]
                     \/ stale'[q] = lock /\ lock' = lock
<1>1. ASSUME UNCHANGED <<pc, stale>> PROVE Goal
  BY <1>1
<1>2. ASSUME NEW p \in Live, Call(p) PROVE Goal
  BY <1>2 DEF Call, To, break
<1>3. ASSUME NEW p \in Live, ReadMissing(p) PROVE Goal
  BY <1>3 DEF ReadMissing, To, break
<1>4. ASSUME NEW p \in Live, RereadMissing(p) PROVE Goal
  BY <1>4 DEF RereadMissing, Again, End, To
<1>5. ASSUME NEW p \in Live, ReadHeld(p) PROVE Goal
  BY <1>5 DEF ReadHeld, StartBreak, End, To
<1>6. ASSUME NEW p \in Live, Create(p) PROVE Goal
  BY <1>6 DEF Create, To, break
<1>7. ASSUME NEW p \in Live, CreateFails(p) PROVE Goal
  BY <1>7 DEF CreateFails, To, break
<1>8. ASSUME NEW p \in Live, Undo(p) PROVE Goal
  BY <1>8 DEF Undo, End, To
<1>9. ASSUME NEW p \in Live, Release(p) PROVE Goal
  BY <1>9 DEF Release, To, break, End
<1>10. ASSUME NEW p \in Live, RemoveLock(p) PROVE Goal
  BY <1>10 DEF RemoveLock, End, To
<1>11. ASSUME NEW p \in Live, ClaimGuard(p) PROVE Goal
  BY <1>11 DEF ClaimGuard, To
<1>12. ASSUME NEW p \in Live, GuardTaken(p) PROVE Goal
  BY <1>12 DEF GuardTaken, To, break
<1>13. ASSUME NEW p \in Live, ClaimFails(p) PROVE Goal
  BY <1>13 DEF ClaimFails, End, To
<1>14. ASSUME NEW p \in Live, GuardVanished(p) PROVE Goal
  BY <1>14 DEF GuardVanished, To, End
<1>15. ASSUME NEW p \in Live, GuardRefuses(p) PROVE Goal
  BY <1>15 DEF GuardRefuses, End, To
<1>16. ASSUME NEW p \in Live, PassGuard(p) PROVE Goal
  BY <1>16 DEF PassGuard, To
<1>17. ASSUME NEW p \in Live, CheckLock(p) PROVE Goal
  BY <1>17 DEF CheckLock, To, files, break
<1>18. ASSUME NEW p \in Live, Unlink(p) PROVE Goal
  BY <1>18 DEF Unlink, To, break
<1>19. ASSUME NEW p \in Live, ReadGuard(p) PROVE Goal
  BY <1>19 DEF ReadGuard, To, files
<1>20. ASSUME NEW p \in Live, RemoveGuard(p) PROVE Goal
  BY <1>20 DEF RemoveGuard, To
<1>21. ASSUME NEW p \in Live, Broken(p) PROVE Goal
  BY <1>21 DEF Broken, Again, End, To
<1>22. ASSUME NEW p \in Live, Exit(p) PROVE Goal
  BY <1>22 DEF Exit, Stop, To
<1>23. ASSUME NEW p \in Live, Crash(p) PROVE Goal
  BY <1>23 DEF Crash, Stop, To
<1> QED
  BY <1>1, <1>2, <1>3, <1>4, <1>5, <1>6, <1>7, <1>8, <1>9, <1>10, <1>11, <1>12, <1>13, <1>14,
     <1>15, <1>16, <1>17, <1>18, <1>19, <1>20, <1>21, <1>22, <1>23
  DEF Next, Acquire, Give, Fault, vars, break

-----------------------------------------------------------------------------
\* The dead stay dead, and only locks of the dead have guards.
LEMMA DeathsStep ==
  ASSUME Basis, [Next]_vars
  PROVE  Deaths'
<1> USE DEF Basis, TypeOK
<1>1. up' \subseteq up
  BY UpShrinks
<1>2. ASSUME NEW p \in Live, stale'[p] # NoRecord PROVE Owner(stale'[p]) \notin up'
  BY <1>1, <1>2, StaleChanges DEF Deaths, Dead
<1>3. ASSUME NEW r \in Record, NEW k \in Slot, guard'[r][k] # NoRecord PROVE Dead(r)'
  <2>1. guard[r][k] # NoRecord \/ \E p \in Live : stale[p] = r
    BY <1>3, GuardChanges
  <2>2. r # NoRecord
    BY NoneRecorded
  <2> QED
    BY <1>1, <2>1, <2>2 DEF Deaths, Dead
<1> QED
  BY <1>2, <1>3 DEF Deaths, Dead

\* Every step keeps the types and what the calls know.
LEMMA BasisStep ==
  ASSUME Basis, Remembers, [Next]_vars
  PROVE  Basis' /\ Remembers'
<1>1. Calls' /\ Deaths' /\ Remembers'
  BY CallsStep, DeathsStep, RemembersStep
<1>2. \A p \in Live : stale'[p] # NoRecord => Owner(stale'[p]) # p
  BY <1>1 DEF Calls, Deaths, Dead, Breaking, Claiming
<1>3. \A p \in Live : \A k \in Pending(p)' :
        k <= slot'[p] /\ (pc'[p] \in {"guard", "holder"} => k < slot'[p])
  BY <1>1 DEF Remembers, Pending
<1>4. TypeOK'
  BY <1>2, <1>3, FilesTyped, ControlTyped, BreakTyped DEF TypeOK, ControlTypes, BreakTypes
<1> QED
  BY <1>1, <1>4 DEF Basis

\* They hold at the start, with any guards left by earlier processes.
LEMMA BasisInit ==
  ASSUME Init
  PROVE  Basis /\ Remembers
<1> USE DEF Init, ConstantsAssumption
<1>1. PICK n \in 0 .. Gone :
        /\ guard = [r \in Record |-> [k \in Slot |->
                      IF r = Earlier /\ k <= n THEN <<k, 0>> ELSE NoRecord]]
        /\ faults = n
  BY DEF Init
<1>2. Earlier \in Record /\ \A k \in Slot : k <= n => <<k, 0>> \in Record
  BY <1>1, ConstantsAssumption DEF Earlier, Record, Proc, Slot
<1>3. guard \in [Record -> [Slot -> Record \cup {NoRecord}]]
  BY <1>1, <1>2
<1>4. faults \in 0 .. MaxFaults
  BY <1>1, ConstantsAssumption
<1>5. TypeOK
  BY <1>2, <1>3, <1>4, ConstantsAssumption DEF TypeOK, Pending, None
<1>6. Calls
  BY DEF Calls, Breaking, Claiming
<1>7. Dead(Earlier)
  BY ConstantsAssumption DEF Dead, Owner, Earlier
<1>8. Deaths
  BY <1>1, <1>7 DEF Deaths
<1>9. Remembers
  BY DEF Remembers, None
<1> QED
  BY <1>5, <1>6, <1>8, <1>9 DEF Basis

-----------------------------------------------------------------------------
\* Two breakers cannot be inside for the same dead lock.
LEMMA InsideOnce ==
  ASSUME Basis, GuardsStay, DeadLock, NEW p \in Live, NEW q \in Live,
         Inside(p), Inside(q), stale[p] = lock, stale[q] = lock
  PROVE  p = q
<1>1. /\ Passed(p) /\ Passed(q) /\ slot[p] \in Slot /\ slot[q] \in Slot
      /\ p \in up /\ q \in up /\ Owner(self[p]) = p /\ Owner(self[q]) = q
  BY CallKnows DEF GuardsStay, Inside, Claiming
<1>2. /\ guard[lock][slot[p]] = self[p] /\ guard[lock][slot[q]] = self[q]
  BY <1>1 DEF Passed
<1>3. ~(slot[p] < slot[q]) /\ ~(slot[q] < slot[p])
  BY <1>1, <1>2 DEF Passed, Dead
<1>4. slot[p] = slot[q]
  BY <1>1, <1>3 DEF Slot
<1> QED
  BY <1>1, <1>2, <1>4

\* With fewer faults than guards, nobody finds all of them left by the dead.
LEMMA SomeGuardFree ==
  ASSUME MaxFaults < MaxGuards, Basis, GuardsStay, FewLeft, DeadLock, NEW p \in Live,
         stale[p] = lock, pc[p] = "holder",
         guard[lock][slot[p]] # NoRecord, Dead(guard[lock][slot[p]])
  PROVE  slot[p] < MaxGuards
<1> SUFFICES ASSUME slot[p] = MaxGuards PROVE FALSE
  BY CallKnows DEF Claiming, Slot
<1>1. Passed(p)
  BY DEF GuardsStay
<1>2. \A k \in Slot : guard[lock][k] # NoRecord /\ Dead(guard[lock][k])
  BY <1>1, ConstantsAssumption DEF Passed, Slot
<1>3. \A k \in Slot : \A q \in Live : ~HeldBy(q, k)
  <2> SUFFICES ASSUME NEW k \in Slot, NEW q \in Live, HeldBy(q, k) PROVE FALSE
    OBVIOUS
  <2>1. guard[lock][k] = self[q] /\ Owner(self[q]) = q /\ q \in up
    BY CallKnows DEF HeldBy, GuardsStay, Passed, Inside
  <2> QED
    BY <1>2, <2>1 DEF Dead
<1>4. Left = Slot
  BY <1>2, <1>3 DEF Left
<1>5. Cardinality(Slot) = MaxGuards
  BY FS_Interval, ConstantsAssumption DEF Slot
<1> QED
  BY <1>4, <1>5, ConstantsAssumption DEF FewLeft, Basis, TypeOK

-----------------------------------------------------------------------------
\* A lock that is held is removed by its holder only: no breaker has a living one.
LEMMA HolderStep ==
  ASSUME Basis, HolderKeepsLock, UnlinksDead, [Next]_vars
  PROVE  HolderKeepsLock'
<1> SUFFICES ASSUME NEW q \in Live, Holding(q)', Holding(q), self'[q] = self[q]
             PROVE  lock' = self'[q]
  BY HoldingSteps DEF HolderKeepsLock
<1>1. lock = self[q] /\ self[q] # NoRecord /\ Owner(self[q]) = q /\ q \in up
  BY CallKnows DEF HolderKeepsLock, Holding
<1>2. ASSUME NEW p \in Live, pc[p] = "unlink" PROVE FALSE
  <2>1. lock = stale[p] /\ stale[p] # NoRecord /\ Dead(stale[p])
    BY <1>2 DEF UnlinksDead, Basis, Calls, Deaths, Breaking, Claiming
  <2> QED
    BY <1>1, <2>1 DEF Dead
<1>3. ASSUME NEW p \in Live, pc[p] \in {"undo", "release"}, pc'[p] = "idle",
             pc[p] = "undo" => lock = self[p]
      PROVE  FALSE
  <2>1. lock = self[p] /\ Owner(self[p]) = p
    BY <1>3, CallKnows DEF HolderKeepsLock, Holding
  <2> QED
    BY <1>1, <1>3, <2>1 DEF Holding
<1> QED
  BY <1>1, <1>2, <1>3, LockRemoved

\* Between the check under the guard and the removal, the dead lock stays.
LEMMA UnlinksStep ==
  ASSUME Basis, HolderKeepsLock, GuardsStay, UnlinksDead, [Next]_vars
  PROVE  UnlinksDead'
<1> SUFFICES ASSUME NEW q \in Live, pc'[q] = "unlink", pc[q] = "unlink", stale'[q] = stale[q]
             PROVE  lock' = stale'[q]
  BY UnlinkSteps DEF UnlinksDead
<1>1. lock = stale[q] /\ lock # NoRecord /\ Dead(lock) /\ DeadLock
  BY DEF UnlinksDead, Basis, Calls, Deaths, Breaking, Claiming, DeadLock
<1>2. ASSUME NEW p \in Live, pc[p] = "unlink", pc'[p] = "clear" PROVE FALSE
  <2>1. lock = stale[p]
    BY <1>2 DEF UnlinksDead
  <2>2. p = q
    BY <1>1, <1>2, <2>1, InsideOnce DEF Inside
  <2> QED
    BY <1>2, <2>2
<1>3. ASSUME NEW p \in Live, pc[p] \in {"undo", "release"}, pc[p] = "undo" => lock = self[p]
      PROVE  FALSE
  <2>1. lock = self[p] /\ Owner(self[p]) = p /\ p \in up
    BY <1>3, CallKnows DEF HolderKeepsLock, Holding
  <2> QED
    BY <1>1, <2>1 DEF Dead
<1> QED
  BY <1>1, <1>2, <1>3, LockRemoved

-----------------------------------------------------------------------------
\* A lock that is dead after a step is the one that was there before, dead or not.
LEMMA DeadLockWas ==
  ASSUME Basis, [Next]_vars, DeadLock'
  PROVE  lock' = lock /\ lock \in Record
<1>1. \A p \in Live : self[p] # NoRecord => Owner(self[p]) = p
  BY DEF Basis, Calls
<1> QED
  BY <1>1, LockChanges DEF DeadLock, Dead, Basis, TypeOK

\* When the owner of the lock dies, nobody has seen it dead and no guard of it exists.
LEMMA NewlyDead ==
  ASSUME Basis, [Next]_vars, DeadLock', ~DeadLock
  PROVE  /\ \A p \in Live : stale'[p] # lock
         /\ \A k \in Slot : guard'[lock][k] = NoRecord
<1>1. lock' = lock /\ lock \in Record /\ lock # NoRecord /\ ~Dead(lock)
  BY DeadLockWas, NoneRecorded DEF DeadLock
<1>2. \A p \in Live : stale[p] # lock
  BY <1>1 DEF Basis, Deaths
<1>3. \A k \in Slot : guard[lock][k] = NoRecord
  BY <1>1 DEF Basis, Deaths
<1>4. \A p \in Live : stale'[p] # lock
  BY <1>1, <1>2, StaleChanges
<1>5. \A k \in Slot : guard'[lock][k] = NoRecord
  BY <1>1, <1>2, <1>3, GuardChanges
<1> QED
  BY <1>4, <1>5

\* While the lock stays dead, its guards stay.
LEMMA GuardsLast ==
  ASSUME Basis, GuardsStay, [Next]_vars, DeadLock, lock' = lock,
         NEW k \in Slot, guard[lock][k] # NoRecord
  PROVE  guard'[lock][k] = guard[lock][k]
<1>1. \A p \in Live : stale[p] = lock => pc[p] # "remove"
  BY DEF GuardsStay, Passed, Claiming
<1> QED
  BY <1>1, GuardChanges DEF DeadLock, Basis, TypeOK

\* As long as the lock is the dead record, its guards are passed over, claimed and held, but
\* not removed.
LEMMA GuardsStayStep ==
  ASSUME MaxFaults < MaxGuards, Basis, GuardsStay, FewLeft, [Next]_vars
  PROVE  GuardsStay'
<1> SUFFICES ASSUME DeadLock', NEW q \in Live, stale'[q] = lock' PROVE Passed(q)'
  BY DEF GuardsStay
<1>1. lock' = lock /\ lock \in Record /\ up' \subseteq up
  BY DeadLockWas, UpShrinks
<1>2. DeadLock
  BY <1>1, NewlyDead
<1>3. CASE stale[q] # lock
  <2>1. pc'[q] = "guard" /\ slot'[q] = 1
    BY <1>1, <1>2, <1>3, StaleChanges DEF DeadLock
  <2>2. \A k \in Slot : ~(k < 1)
    BY DEF Slot
  <2> QED
    BY <2>1, <2>2 DEF Passed, Claiming, Inside
<1>4. CASE stale[q] = lock
  <2>1. Passed(q) /\ lock # NoRecord /\ slot[q] \in Slot /\ slot[q] \in Nat
    BY <1>2, <1>4, CallKnows DEF GuardsStay, DeadLock, Passed, Slot
  <2>2. /\ \A k \in Slot : guard[lock][k] # NoRecord /\ Dead(guard[lock][k]) =>
             guard'[lock][k] # NoRecord /\ Owner(guard'[lock][k]) \notin up'
        /\ \A k \in Slot : guard[lock][k] # NoRecord => guard'[lock][k] = guard[lock][k]
    BY <1>1, <1>2, GuardsLast DEF Dead
  <2>3. pc[q] = "holder" /\ guard[lock][slot[q]] # NoRecord /\ Dead(guard[lock][slot[q]])
          => slot[q] < MaxGuards
    BY <1>2, <1>4, SomeGuardFree
  <2>4. \/ pc'[q] = pc[q] /\ slot'[q] = slot[q] /\ self'[q] = self[q]
        \/ pc'[q] \in {"guard", "holder"} /\ slot'[q] = slot[q]
        \/ /\ pc'[q] = "check" /\ slot'[q] = slot[q] /\ self'[q] = self[q]
           /\ guard'[lock][slot[q]] = self[q]
        \/ /\ pc'[q] = "guard" /\ slot'[q] = slot[q] + 1
           /\ guard[lock][slot[q]] # NoRecord /\ Dead(guard[lock][slot[q]])
        \/ /\ pc[q] = "check" /\ pc'[q] = "unlink" /\ slot'[q] = slot[q] /\ self'[q] = self[q]
    BY <1>1, <1>4, <2>1, <2>3, BreakerSteps DEF Passed, Claiming
  <2>5. pc'[q] \in Claiming
    BY <2>1, <2>4 DEF Claiming, Passed
  <2>6. ASSUME NEW k \in Slot, k < slot'[q]
        PROVE  guard'[lock][k] # NoRecord /\ Owner(guard'[lock][k]) \notin up'
    <3>1. k < slot[q] \/ (k = slot[q] /\ guard[lock][k] # NoRecord /\ Dead(guard[lock][k]))
      BY <2>1, <2>4, <2>6 DEF Slot
    <3> QED
      BY <2>1, <2>2, <3>1 DEF Passed
  <2>7. pc'[q] \in {"check", "unlink"} => guard'[lock][slot'[q]] = self'[q]
    <3>1. Inside(q) => guard[lock][slot[q]] = self[q] /\ self[q] # NoRecord
      BY <2>1, CallKnows DEF Passed, Inside
    <3> QED
      BY <2>1, <2>2, <2>4, <3>1 DEF Inside
  <2> QED
    BY <1>1, <2>5, <2>6, <2>7 DEF Passed, Dead, Inside
<1> QED
  BY <1>3, <1>4

-----------------------------------------------------------------------------
\* The guards that are left can be counted.
LEMMA LeftFinite ==
  IsFiniteSet(Left) /\ Cardinality(Left) \in Nat /\ Left \subseteq Slot
<1>1. IsFiniteSet(Slot)
  BY FS_Interval, ConstantsAssumption DEF Slot
<1>2. Left \subseteq Slot
  BY DEF Left
<1> QED
  BY <1>1, <1>2, FS_Subset, FS_CardinalityType

\* A step leaves no more guards, or one more and is a fault.
LEMMA LeftGrows ==
  ASSUME Basis, GuardsStay, [Next]_vars, DeadLock, lock' = lock
  PROVE  \/ Left' \subseteq Left
         \/ faults' = faults + 1 /\ \E x \in Slot : Left' \subseteq Left \cup {x}
<1>1. ASSUME NEW p \in Live, Crash(p)
      PROVE  \/ Left' \subseteq Left
             \/ faults' = faults + 1 /\ \E x \in Slot : Left' \subseteq Left \cup {x}
  <2>1. /\ faults' = faults + 1 /\ guard' = guard
        /\ pc' = [pc EXCEPT ![p] = "gone"]
        /\ stale' = [stale EXCEPT ![p] = NoRecord]
        /\ slot' = [slot EXCEPT ![p] = 0]
    BY <1>1 DEF Crash, Stop, To, files
  <2>2. \A q \in Live : q # p =>
          \A k \in Slot : HeldBy(q, k)' <=> HeldBy(q, k)
    BY <2>1 DEF HeldBy, Inside, Basis, TypeOK
  <2>3. ASSUME NEW k \in Left', k \notin Left PROVE k = slot[p] /\ k \in Slot
    <3>1. k \in Slot /\ guard[lock][k] # NoRecord /\ \A q \in Live : ~HeldBy(q, k)'
      BY <2>1, <2>3 DEF Left
    <3>2. PICK q \in Live : HeldBy(q, k)
      BY <2>3, <3>1 DEF Left
    <3>3. q = p
      BY <2>2, <3>1, <3>2
    <3> QED
      BY <3>1, <3>2, <3>3 DEF HeldBy
  <2> QED
    BY <2>1, <2>3
<1>2. ASSUME NEW p \in Live, ClaimFails(p)
      PROVE  \/ Left' \subseteq Left
             \/ faults' = faults + 1 /\ \E x \in Slot : Left' \subseteq Left \cup {x}
  <2>1. /\ faults' = faults + 1 /\ pc[p] = "guard"
        /\ guard' = [guard EXCEPT ![stale[p]][slot[p]] = self[p]]
        /\ pc' = [pc EXCEPT ![p] = "idle"]
        /\ stale' = [stale EXCEPT ![p] = NoRecord]
        /\ slot' = [slot EXCEPT ![p] = 0]
    BY <1>2 DEF ClaimFails, End, To
  <2>2. \A q \in Live : \A k \in Slot : HeldBy(q, k) => HeldBy(q, k)'
    BY <2>1 DEF HeldBy, Inside, Basis, TypeOK
  <2>3. lock \in Record /\ stale[p] \in Record /\ slot[p] \in Slot
    BY <2>1, CallKnows DEF DeadLock, Basis, TypeOK, Breaking, Claiming
  <2>4. \A k \in Slot : k # slot[p] => guard'[lock][k] = guard[lock][k]
    BY <2>1, <2>3 DEF Basis, TypeOK
  <2>5. ASSUME NEW k \in Left', k # slot[p] PROVE k \in Left
    BY <2>2, <2>4, <2>5 DEF Left
  <2> QED
    BY <2>1, <2>3, <2>5
<1>3. ASSUME ~ \E p \in Live : Crash(p) \/ ClaimFails(p)
      PROVE  Left' \subseteq Left
  <2> SUFFICES ASSUME NEW k \in Left' PROVE k \in Left
    OBVIOUS
  <2>1. k \in Slot /\ guard'[lock][k] # NoRecord /\ \A q \in Live : ~HeldBy(q, k)'
    BY DEF Left
  <2>2. lock # NoRecord /\ lock \in Record
    BY DEF DeadLock, Basis, TypeOK
  <2>3. ASSUME NEW q \in Live, HeldBy(q, k) PROVE FALSE
    <3>1. pc'[q] \in {"check", "unlink"} /\ stale'[q] = stale[q] /\ slot'[q] = slot[q]
      BY <1>3, <2>2, <2>3, InsideStays DEF HeldBy
    <3> QED
      BY <2>1, <2>3, <3>1 DEF HeldBy, Inside
  <2>4. ASSUME guard[lock][k] = NoRecord PROVE FALSE
    <3>1. PICK p \in Live : /\ stale[p] = lock /\ slot[p] = k
                            /\ pc'[p] = "check" /\ stale' = stale /\ slot' = slot
      BY <1>3, <2>1, <2>2, <2>4, GuardChanges
    <3> QED
      BY <2>1, <3>1 DEF HeldBy, Inside
  <2> QED
    BY <2>1, <2>3, <2>4 DEF Left
<1> QED
  BY <1>1, <1>2, <1>3

\* The guards left of a dead lock are not more than the faults.
LEMMA FewLeftStep ==
  ASSUME Basis, GuardsStay, FewLeft, [Next]_vars
  PROVE  FewLeft'
<1> SUFFICES ASSUME DeadLock' PROVE Cardinality(Left') <= faults'
  BY DEF FewLeft
<1>1. lock' = lock /\ faults \in Nat /\ faults' \in Nat
  BY DeadLockWas, FaultsGrow DEF Basis, TypeOK
<1>2. CASE ~DeadLock
  <2>1. Left' = {}
    BY <1>1, <1>2, NewlyDead DEF Left
  <2> QED
    BY <1>1, <2>1, FS_EmptySet
<1>3. CASE DeadLock
  <2>1. Cardinality(Left) <= faults /\ Cardinality(Left) \in Nat /\ IsFiniteSet(Left)
    BY <1>3, LeftFinite DEF FewLeft
  <2>2. CASE Left' \subseteq Left
    <3>1. Cardinality(Left') <= Cardinality(Left) /\ Cardinality(Left') \in Nat
      BY <2>1, <2>2, FS_Subset, FS_CardinalityType
    <3>2. faults <= faults'
      BY <1>1, FaultsGrow
    <3> QED
      BY <1>1, <2>1, <3>1, <3>2
  <2>3. ASSUME faults' = faults + 1, NEW x \in Slot, Left' \subseteq Left \cup {x}
        PROVE  Cardinality(Left') <= faults'
    <3>1. /\ IsFiniteSet(Left \cup {x}) /\ Cardinality(Left \cup {x}) \in Nat
          /\ Cardinality(Left \cup {x}) <= Cardinality(Left) + 1
      <4>1. IsFiniteSet(Left \cup {x})
        BY <2>1, FS_AddElement
      <4>2. Cardinality(Left \cup {x}) =
              IF x \in Left THEN Cardinality(Left) ELSE Cardinality(Left) + 1
        BY <2>1, FS_AddElement
      <4> QED
        BY <2>1, <4>1, <4>2
    <3>2. Cardinality(Left') <= Cardinality(Left \cup {x}) /\ Cardinality(Left') \in Nat
      BY <2>3, <3>1, FS_Subset, FS_CardinalityType
    <3> QED
      BY <1>1, <2>1, <2>3, <3>1, <3>2
  <2> QED
    BY <1>1, <1>3, <2>2, <2>3, LeftGrows
<1> QED
  BY <1>2, <1>3

-----------------------------------------------------------------------------
\* Every step keeps the invariant, when there are fewer faults than guards.
LEMMA Inductive ==
  ASSUME MaxFaults < MaxGuards, Inv, [Next]_vars
  PROVE  Inv'
BY BasisStep, HolderStep, GuardsStayStep, FewLeftStep, UnlinksStep DEF Inv

\* It holds at the start.
LEMMA InvInit ==
  ASSUME Init
  PROVE  Inv
<1>1. Basis /\ Remembers
  BY BasisInit
<1>2. /\ \A p \in Live : pc[p] = "idle" /\ stale[p] = NoRecord
      /\ lock = Earlier /\ lock # NoRecord /\ lock \in Record
  BY <1>1, NoneRecorded, ConstantsAssumption DEF Init, Earlier, Record, Proc
<1>3. HolderKeepsLock /\ GuardsStay /\ UnlinksDead
  BY <1>2 DEF HolderKeepsLock, Holding, GuardsStay, UnlinksDead
<1>4. FewLeft
  <2>1. PICK n \in 0 .. Gone :
          /\ guard = [r \in Record |-> [k \in Slot |->
                        IF r = Earlier /\ k <= n THEN <<k, 0>> ELSE NoRecord]]
          /\ faults = n
    BY DEF Init
  <2>2. Left \subseteq 1 .. n
    BY <1>2, <2>1 DEF Left, Slot
  <2>3. IsFiniteSet(1 .. n) /\ Cardinality(1 .. n) = n
    BY FS_Interval, ConstantsAssumption
  <2> QED
    BY <2>1, <2>2, <2>3, FS_Subset DEF FewLeft
<1> QED
  BY <1>1, <1>3, <1>4 DEF Inv

\* The lock, its guards and what the calls remember keep their types, however many faults there
\* are; a breaker never looks at a record of its own process.
THEOREM TypeCorrect == Spec => []TypeOK
<1>1. Init => Basis /\ Remembers
  BY BasisInit
<1>2. Basis /\ Remembers /\ [Next]_vars => (Basis /\ Remembers)'
  BY BasisStep
<1>3. Basis => TypeOK
  BY DEF Basis
<1> QED
  BY <1>1, <1>2, <1>3, PTL DEF Spec

\* It holds always.
LEMMA AlwaysInv ==
  ASSUME MaxFaults < MaxGuards
  PROVE  Spec => []Inv
<1>1. Init => Inv
  BY InvInit
<1>2. Inv /\ [Next]_vars => Inv'
  BY Inductive
<1> QED
  BY <1>1, <1>2, PTL DEF Spec

\* With fewer faults than guards (MAX_BREAK_GUARDS): whoever acquired the lock finds its own
\* record in the file until it removes it, so that no breaker, releaser or undone creation
\* takes it away.
THEOREM HolderKeeps == MaxFaults < MaxGuards => (Spec => []HolderKeepsLock)
<1> SUFFICES ASSUME MaxFaults < MaxGuards PROVE Spec => []HolderKeepsLock
  OBVIOUS
<1>1. Inv => HolderKeepsLock
  BY DEF Inv
<1> QED
  BY <1>1, AlwaysInv, PTL

\* With fewer faults than guards, a break removes only the dead record that it observed, as
\* file-lock.ts says: the read under the guard and the unlink cannot be separated by another
\* break.
THEOREM BreakIsExact == MaxFaults < MaxGuards => (Spec => []BreakRemovesObserved)
<1> SUFFICES ASSUME MaxFaults < MaxGuards PROVE Spec => []BreakRemovesObserved
  OBVIOUS
<1>1. Inv => BreakRemovesObserved
  BY DEF Inv, UnlinksDead, BreakRemovesObserved
<1> QED
  BY <1>1, AlwaysInv, PTL

\* A call that gets in finds nobody inside.
LEMMA OneHolder ==
  ASSUME Inv, NEW p \in Live, NEW q \in Live, Holding(p), Holding(q)
  PROVE  p = q
BY CallKnows DEF Inv, HolderKeepsLock, Holding

\* A step gives the lock to one process, takes it from the one that has it, or changes nothing
\* for the holders.
LEMMA MutexStep ==
  ASSUME Inv, Inv', [Next]_vars
  PROVE  [Lock!Next]_({p \in Live : Holding(p)})
<1> DEFINE H == {p \in Live : Holding(p)}
<1>0. Basis /\ Basis' /\ HolderKeepsLock /\ HolderKeepsLock'
  BY DEF Inv
<1>a. \A p \in Live : self[p] # NoRecord => Owner(self[p]) = p
  BY <1>0 DEF Basis, Calls
<1>1. \A p, q \in Live : Holding(p)' /\ Holding(q)' => p = q
  BY <1>0 DEF Basis, Calls, HolderKeepsLock, Holding
<1>2. \A p, q \in Live : Holding(p) /\ Holding(q) => p = q
  BY OneHolder
<1>3. CASE \E q \in Live : Holding(q)' /\ ~Holding(q)
  <2>1. PICK q \in Live : Holding(q)' /\ ~Holding(q)
    BY <1>3
  <2>2. lock' = self'[q] /\ lock' # lock /\ self'[q] # NoRecord
    BY <1>0, <2>1, HoldingSteps DEF Basis, Calls, Holding
  <2>3. lock = NoRecord
    BY <1>0, <2>2, LockChanges
  <2>4. H = {}
    BY <1>0, <2>3 DEF HolderKeepsLock, Holding, Basis, Calls
  <2>5. H' = {q}
    BY <1>1, <2>1
  <2> QED
    BY <2>4, <2>5 DEF Lock!Next, Lock!Take
<1>4. CASE \A q \in Live : Holding(q)' => Holding(q)
  <2>1. CASE H' = H
    BY <2>1
  <2>2. CASE H' # H
    <3>1. PICK p \in Live : Holding(p) /\ ~Holding(p)'
      BY <1>4, <2>2
    <3>2. H = {p}
      BY <1>2, <3>1
    <3>3. H' = {}
      BY <1>2, <1>4, <3>1
    <3> QED
      BY <3>2, <3>3 DEF Lock!Next, Lock!Leave
  <2> QED
    BY <2>1, <2>2
<1> QED
  BY <1>3, <1>4

\* With fewer faults than guards the lock files implement the abstract lock: at most one living
\* command is inside, and the lock passes on through a state in which nobody is.
THEOREM FilesAreMutex == MaxFaults < MaxGuards => (Spec => ImplementsMutex)
<1> SUFFICES ASSUME MaxFaults < MaxGuards PROVE Spec => ImplementsMutex
  OBVIOUS
<1>1. Init => Lock!Init
  BY DEF Init, Lock!Init, Holding
<1>2. Inv /\ Inv' /\ [Next]_vars => [Lock!Next]_({p \in Live : Holding(p)})
  BY MutexStep
<1> QED
  BY <1>1, <1>2, AlwaysInv, PTL DEF Spec, ImplementsMutex, Lock!Spec
=============================================================================
