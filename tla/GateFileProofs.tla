--------------------------- MODULE GateFileProofs ---------------------------
(***************************************************************************)
(* Proofs about the account gate, for any processes, accounts, stores and  *)
(* bounds: the type invariant and every safety property that the runs      *)
(* check.                                                                  *)
(***************************************************************************)
EXTENDS GateFile, TLAPS

LEMMA SmallRecords ==
  /\ NoGate \in GateState
  /\ \A n \in Nat : FreshGate(n) \in GateState /\ WellFormed(FreshGate(n))
  /\ NoFloor \in FloorState
  /\ NoSession \in Session /\ NoReading \in Reading /\ NoReading.step = "none"
  /\ Free \in Section /\ WellFormed(Free.next)
  /\ WellFormed(NoGate)
BY ConstantsAssumption
   DEF NoGate, FreshGate, GateState, NoFloor, FloorState, NoSession, Session, NoReading, Reading,
       Free, Section, NoStamp, Stamp, AccountOr, WellFormed

LEMMA DeniedGateType ==
  ASSUME TypeOK, NEW defer \in BOOLEAN, gate.account # NoAccount
  PROVE  /\ DeniedGate(defer) \in GateState
         /\ WellFormed(DeniedGate(defer))
         /\ NextEpoch \in Nat /\ NextDeniedAt \in Int
<1>1. NextEpoch \in Nat /\ NextDeniedAt \in Int
  BY DEF TypeOK, NextEpoch, NextDeniedAt, Larger, GateState, FloorState
<1>2. CollectIntents(gate.account) \subseteq Store
  BY DEF CollectIntents
<1>3. DeniedGate(defer) \in GateState
  BY <1>1, <1>2, ConstantsAssumption DEF TypeOK, DeniedGate, GateState, AccountOr
<1>4. WellFormed(DeniedGate(defer))
  BY ConstantsAssumption DEF TypeOK, DeniedGate, WellFormed, GateState, AccountOr
<1> QED BY <1>1, <1>3, <1>4

LEMMA AdvancedGateType ==
  ASSUME TypeOK
  PROVE  /\ AdvancedGate \in GateState
         /\ gate.account = NoAccount /\ ~gate.deferred => WellFormed(AdvancedGate)
         /\ NextEpoch \in Nat /\ NextDeniedAt \in Int
<1>1. NextEpoch \in Nat /\ NextDeniedAt \in Int
  BY DEF TypeOK, NextEpoch, NextDeniedAt, Larger, GateState, FloorState
<1> QED BY <1>1 DEF TypeOK, AdvancedGate, GateState, WellFormed

LEMMA TypeOKStep == TypeOK /\ [Next]_vars => TypeOK'
<1> SUFFICES ASSUME TypeOK, [Next]_vars PROVE TypeOK'
  OBVIOUS
<1>0. UNCHANGED setup /\ MaxTime \in Nat
  BY ConstantsAssumption DEF Next, vars, TypeOK, MaxTime
<1> USE <1>0, ConstantsAssumption, SmallRecords
<1>1. CASE CreateGate
  BY <1>1 DEF TypeOK, CreateGate, WriteGate, ghosts
<1>2. ASSUME NEW p \in Proc, NEW a \in Account, NEW t \in 0..MaxTime, EstablishSessionStamp(p, a, t)
      PROVE  TypeOK'
  <2>1. gate' \in GateState
    <3>1. \/ gate' = [gate EXCEPT !.account = a, !.deferredFor = NoAccount]
          \/ gate' = gate
      BY <1>2 DEF EstablishSessionStamp, WriteGate
    <3>2. [gate EXCEPT !.account = a, !.deferredFor = NoAccount] \in GateState
      BY DEF TypeOK, GateState, AccountOr
    <3> QED BY <3>1, <3>2 DEF TypeOK
  <2>2. WellFormed(gate')
    BY <1>2 DEF TypeOK, EstablishSessionStamp, WriteGate, GateState, WellFormed, NothingToErase
  <2>3. [inc |-> gate.inc, epoch |-> gate.epoch] \in Stamp
    BY DEF TypeOK, GateState, Stamp
  <2>4. session' \in [Proc -> Session]
    BY <1>2, <2>3 DEF TypeOK, EstablishSessionStamp, Session, AccountOr
  <2>5. issued' \subseteq [stamp : Stamp, account : Account]
    BY <1>2, <2>3 DEF TypeOK, EstablishSessionStamp
  <2>6. consent' \in Int
    BY <1>2 DEF TypeOK, EstablishSessionStamp, Smaller
  <2>7. statSame' \subseteq Proc
    BY <1>2 DEF TypeOK, EstablishSessionStamp, WriteGate
  <2> QED BY <1>2, <2>1, <2>2, <2>4, <2>5, <2>6, <2>7 DEF TypeOK, EstablishSessionStamp
<1>3. ASSUME NEW p \in Proc, NEW i \in issued, RestoreSessionStamp(p, i)
      PROVE  TypeOK'
  BY <1>3 DEF TypeOK, RestoreSessionStamp, files, ghosts, Session, AccountOr
<1>4. ASSUME NEW p \in Proc, NEW a \in Account, DenyStale(p, a)
      PROVE  TypeOK'
  BY <1>4 DEF TypeOK, DenyStale, files, ghosts, Session
<1>5. ASSUME NEW p \in Proc, NEW a \in Account, NEW defer \in BOOLEAN, DenyGate(p, a, defer)
      PROVE  TypeOK'
  <2>1. DeniedGate(defer) \in GateState /\ WellFormed(DeniedGate(defer))
        /\ NextEpoch \in Nat /\ NextDeniedAt \in Int
    BY <1>5, DeniedGateType DEF DenyGate
  <2>2. revoked' \subseteq Stamp
    BY <1>5 DEF DenyGate, TypeOK
  <2>3. session' \in [Proc -> Session]
    BY <1>5 DEF DenyGate, TypeOK, Session
  <2>4. section' \in Section /\ WellFormed(section'.next)
    BY <1>5, <2>1 DEF DenyGate, Section
  <2>5. floor' \in FloorState
    BY <1>5, <2>1 DEF DenyGate, FloorState
  <2>6. data' \in [Store -> {"absent", "live", "denied"}]
    BY <1>5 DEF DenyGate, TypeOK
  <2> QED BY <1>5, <2>2, <2>3, <2>4, <2>5, <2>6 DEF DenyGate, TypeOK
<1>6. ASSUME NEW p \in Proc, AdvanceInactiveGate(p)
      PROVE  TypeOK'
  <2>1. AdvancedGate \in GateState /\ WellFormed(AdvancedGate)
        /\ NextEpoch \in Nat /\ NextDeniedAt \in Int
    BY <1>6, AdvancedGateType DEF AdvanceInactiveGate
  <2> QED BY <1>6, <2>1 DEF AdvanceInactiveGate, TypeOK, Section, FloorState, memory, ghosts
<1>7. ASSUME NEW p \in Proc, CommitGate(p)
      PROVE  TypeOK'
  BY <1>7 DEF TypeOK, CommitGate, WriteGate, Section
<1>8. ASSUME NEW p \in Proc, Interrupt(p)
      PROVE  TypeOK'
  BY <1>8 DEF TypeOK, Interrupt, memory, ghosts
<1>9. ASSUME NEW p \in Proc, ClearGateIntent(p)
      PROVE  TypeOK'
  BY <1>9 DEF TypeOK, ClearGateIntent, WriteGate, GateState, ghosts, WellFormed
<1>10. ASSUME NEW e \in 1..MaxEpoch, NEW a \in Account, ResumeDeferredGate(e, a)
       PROVE  TypeOK'
  BY <1>10 DEF TypeOK, ResumeDeferredGate, WriteGate, GateState, ghosts, WellFormed
<1>11. ASSUME NEW p \in Proc, NEW s \in Store, EraseFiles(p, s)
       PROVE  TypeOK'
  BY <1>11 DEF TypeOK, EraseFiles, Free, Section, memory, ghosts
<1>12. ASSUME NEW p \in Proc, NEW s \in Store, GuardedWrite(p, s)
       PROVE  TypeOK'
  BY <1>12 DEF TypeOK, GuardedWrite, memory, ghosts
<1>13. ASSUME NEW p \in Proc, NEW s \in Store, ReadBegin(p, s)
       PROVE  TypeOK'
  <2>1. [step |-> "snapshot", store |-> s, stamp |-> session[p].stamp] \in Reading
    BY DEF TypeOK, Session, Reading
  <2> QED BY <1>13, <2>1 DEF TypeOK, ReadBegin, files, ghosts
<1>14. ASSUME NEW p \in Proc, ReadRecheck(p) \/ ReadEnd(p)
       PROVE  TypeOK'
  <2>1. CASE ReadRecheck(p)
    BY <1>14, <2>1 DEF TypeOK, ReadRecheck, Reading, files, ghosts
  <2>2. CASE ReadEnd(p)
    BY <1>14, <2>2 DEF TypeOK, ReadEnd, files
  <2> QED BY <1>14, <2>1, <2>2
<1>15. CASE Environment
  BY <1>15 DEF TypeOK, Environment, SetClock, LoseGateFile, CopyGateFile, RestoreGateFile,
               LoseBothFiles, DeleteProfile, WriteGate, files, memory, ghosts
<1>16. CASE UNCHANGED vars
  BY <1>16 DEF TypeOK, vars, files, memory, ghosts
<1> QED
  BY <1>1, <1>2, <1>3, <1>4, <1>5, <1>6, <1>7, <1>8, <1>9, <1>10, <1>11, <1>12, <1>13, <1>14,
     <1>15, <1>16 DEF Next

\* Both files, the lock section and every session keep their types, and the gate file is
\* always one that parseState accepts.
THEOREM TypeCorrect == Spec => []TypeOK
<1>1. Init => TypeOK
  BY SmallRecords, ConstantsAssumption DEF Init, TypeOK
<1> QED BY <1>1, TypeOKStep, PTL DEF Spec

-----------------------------------------------------------------------------
\* Every gate that is, was copied, or is about to be written.
Gates == {gate, backup, section.next}

\* No gate is ahead of the floor, and no gate has an incarnation not yet drawn.
GatesUnderFloor ==
  /\ floor.deniedAt >= -1
  /\ \A g \in Gates : /\ g.inc <= incs
                      /\ g = NoGate \/ g.inc >= 1
                      /\ g.epoch <= floor.epoch
                      /\ g.deniedAt <= floor.deniedAt

\* A stamp that was handed out is at most the floor's epoch, a revoked one is strictly
\* below it, or else no gate of its incarnation is left.
StampsUnderFloor ==
  /\ \A i \in issued :
       /\ 1 <= i.stamp.inc /\ i.stamp.inc <= incs
       /\ i.stamp.epoch <= floor.epoch \/ \A g \in Gates : g.inc # i.stamp.inc
  /\ \A st \in revoked :
       /\ 1 <= st.inc /\ st.inc <= incs
       /\ st.epoch < floor.epoch \/ \A g \in Gates : g.inc # st.inc

\* The last durable deny is under the floor, and an active gate that has caught up with
\* the floor was activated by a proof newer than the floor.
ConsentAboveFloor ==
  /\ lastDeny <= floor.deniedAt
  /\ \A g \in Gates :
       g.account # NoAccount /\ ~BehindFloor(g, floor) => consent > floor.deniedAt

\* A section that is about to write the gate writes it at the epoch of the floor.
NextAtFloor == section.proc # NoProc /\ section.erasing = NoStore => section.next.epoch = floor.epoch

\* The gate has moved on from a stamp: it is gone, or of another incarnation or epoch.
MovedOn(st) == gate.inc # st.inc \/ gate.epoch # st.epoch

\* A reader whose gate file has not changed since it checked holds no denied stamp, and the
\* gate has moved on from the stamp of one that is checked and denied since, unless an older
\* file was put back.
ReadersNotDenied ==
  /\ NextAtFloor
  /\ denied \subseteq revoked
  /\ \A p \in statSame : reading[p].stamp \notin denied
  /\ \A p \in Proc : reading[p].step = "checked" /\ reading[p].stamp \in denied /\ p \notin putBack =>
       MovedOn(reading[p].stamp)

IInv == TypeOK /\ GatesUnderFloor /\ StampsUnderFloor /\ ConsentAboveFloor

\* The fields of the gates that a step writes, so that no later proof opens a record.
LEMMA WrittenGates ==
  ASSUME TypeOK
  PROVE  /\ \A defer \in BOOLEAN :
              /\ DeniedGate(defer).inc = gate.inc
              /\ DeniedGate(defer).epoch = NextEpoch
              /\ DeniedGate(defer).deniedAt = NextDeniedAt
              /\ DeniedGate(defer).account = NoAccount
              /\ DeniedGate(defer).intents = gate.intents \cup CollectIntents(gate.account)
         /\ AdvancedGate.inc = gate.inc
         /\ AdvancedGate.epoch = NextEpoch
         /\ AdvancedGate.deniedAt = NextDeniedAt
         /\ AdvancedGate.account = gate.account
         /\ AdvancedGate.intents = gate.intents
         /\ NextEpoch > gate.epoch /\ NextEpoch > floor.epoch /\ NextEpoch \in Nat
         /\ NextDeniedAt > gate.deniedAt /\ NextDeniedAt > floor.deniedAt
         /\ NextDeniedAt >= clock /\ NextDeniedAt \in Int
<1>1. NextEpoch > gate.epoch /\ NextEpoch > floor.epoch /\ NextEpoch \in Nat
  BY DEF TypeOK, NextEpoch, Larger, GateState, FloorState
<1>2. /\ NextDeniedAt > gate.deniedAt /\ NextDeniedAt > floor.deniedAt
      /\ NextDeniedAt >= clock /\ NextDeniedAt \in Int
  BY DEF TypeOK, NextDeniedAt, Larger, GateState, FloorState
<1> QED BY <1>1, <1>2 DEF TypeOK, DeniedGate, AdvancedGate, GateState

\* The gate that establishment, an erase or a resume writes has the incarnation, the
\* epoch and the denial time of the one it replaces.
SameStamp(g, h) == g.inc = h.inc /\ g.epoch = h.epoch /\ g.deniedAt = h.deniedAt

LEMMA RewrittenGates ==
  ASSUME TypeOK
  PROVE  /\ \A p \in Proc, a \in Account, t \in 0..MaxTime :
              EstablishSessionStamp(p, a, t) => SameStamp(gate', gate)
         /\ \A p \in Proc : ClearGateIntent(p) =>
              SameStamp(gate', gate) /\ gate'.account = gate.account
         /\ \A e \in 1..MaxEpoch, a \in Account : ResumeDeferredGate(e, a) =>
              SameStamp(gate', gate) /\ gate'.account = gate.account
<1>1. ASSUME NEW p \in Proc, NEW a \in Account, NEW t \in 0..MaxTime, EstablishSessionStamp(p, a, t)
      PROVE  SameStamp(gate', gate)
  <2>1. \/ gate' = [gate EXCEPT !.account = a, !.deferredFor = NoAccount]
        \/ gate' = gate
    BY <1>1 DEF EstablishSessionStamp, WriteGate
  <2> QED BY <2>1 DEF TypeOK, GateState, SameStamp
<1>2. ASSUME NEW p \in Proc, ClearGateIntent(p)
      PROVE  SameStamp(gate', gate) /\ gate'.account = gate.account
  BY <1>2 DEF ClearGateIntent, WriteGate, TypeOK, GateState, SameStamp
<1>3. ASSUME NEW e \in 1..MaxEpoch, NEW a \in Account, ResumeDeferredGate(e, a)
      PROVE  SameStamp(gate', gate) /\ gate'.account = gate.account
  BY <1>3 DEF ResumeDeferredGate, WriteGate, TypeOK, GateState, SameStamp
<1> QED BY <1>1, <1>2, <1>3

\* What an establishment changes, without its LET.
LEMMA Establishes ==
  ASSUME TypeOK, NEW p \in Proc, NEW a \in Account, NEW t \in 0..MaxTime,
         EstablishSessionStamp(p, a, t)
  PROVE  /\ gate # NoGate /\ ~BehindFloor(gate, floor) /\ gate.intents = {}
         /\ SameStamp(gate', gate)
         /\ gate'.account = a
         /\ UNCHANGED <<floor, section, data, incs, backup, revoked, denied, lastDeny>>
         /\ \A i \in issued' : i \in issued \/ (i.stamp.inc = gate.inc /\ i.stamp.epoch = gate.epoch)
         /\ consent' > gate.deniedAt
         /\ consent' \in Int
<1>1. gate'.account = a
  <2>1. \/ gate' = [gate EXCEPT !.account = a, !.deferredFor = NoAccount]
        \/ gate' = gate /\ gate.account = a
    BY DEF EstablishSessionStamp, WriteGate
  <2> QED BY <2>1 DEF TypeOK, GateState
<1>2. SameStamp(gate', gate)
  BY RewrittenGates
<1>3. gate # NoGate /\ ~BehindFloor(gate, floor) /\ gate.intents = {}
  BY DEF EstablishSessionStamp, Usable, NothingToErase
<1>4. \A i \in issued' : i \in issued \/ (i.stamp.inc = gate.inc /\ i.stamp.epoch = gate.epoch)
  <2> SUFFICES ASSUME NEW i \in issued', i \notin issued
               PROVE  i.stamp.inc = gate.inc /\ i.stamp.epoch = gate.epoch
    OBVIOUS
  <2>1. i = [stamp |-> [inc |-> gate.inc, epoch |-> gate.epoch], account |-> a]
    BY DEF EstablishSessionStamp
  <2> QED BY <2>1
<1>5. consent' > gate.deniedAt /\ consent' \in Int
  BY DEF EstablishSessionStamp, ConsentIsNewer, Smaller, TypeOK
<1>6. UNCHANGED <<floor, section, data, incs, backup, revoked, denied, lastDeny>>
  BY DEF EstablishSessionStamp
<1> QED BY <1>1, <1>2, <1>3, <1>4, <1>5, <1>6

LEMMA AbsentRecords ==
  /\ NoGate.inc = 0 /\ NoGate.epoch = 0 /\ NoGate.deniedAt = -1 /\ NoGate.account = NoAccount
  /\ NoGate.intents = {}
  /\ \A n \in Nat : /\ FreshGate(n).inc = n /\ FreshGate(n).epoch = 0
                    /\ FreshGate(n).deniedAt = -1 /\ FreshGate(n).account = NoAccount
                    /\ FreshGate(n).intents = {}
  /\ NoFloor.epoch = 0 /\ NoFloor.deniedAt = -1
  /\ Free.next = NoGate /\ Free.proc = NoProc /\ Free.erasing = NoStore
BY DEF NoGate, FreshGate, NoFloor, Free

LEMMA GateNumbers ==
  ASSUME TypeOK
  PROVE  /\ \A g \in Gates : g.inc \in Nat /\ g.epoch \in Nat /\ g.deniedAt \in Int
         /\ floor.epoch \in Nat /\ floor.deniedAt \in Int /\ incs \in Nat
         /\ consent \in Int /\ lastDeny \in Int /\ clock \in Nat
         /\ \A i \in issued : i.stamp.inc \in Nat /\ i.stamp.epoch \in Nat
         /\ \A st \in revoked : st.inc \in Nat /\ st.epoch \in Nat
BY DEF TypeOK, Gates, GateState, FloorState, Section, Stamp

LEMMA GatesUnderFloorStep ==
  ASSUME TypeOK, GatesUnderFloor, [Next]_vars
  PROVE  GatesUnderFloor'
<1> USE AbsentRecords, GateNumbers DEF Gates, GatesUnderFloor
<1>1. CASE CreateGate
  BY <1>1 DEF CreateGate, WriteGate, FreshGate, ghosts
<1>2. ASSUME NEW p \in Proc, NEW a \in Account, NEW t \in 0..MaxTime, EstablishSessionStamp(p, a, t)
      PROVE  GatesUnderFloor'
  BY <1>2, Establishes DEF SameStamp
<1>3. ASSUME NEW p \in Proc, NEW i \in issued, RestoreSessionStamp(p, i)
      PROVE  GatesUnderFloor'
  BY <1>3 DEF RestoreSessionStamp, files, ghosts
<1>4. ASSUME NEW p \in Proc, NEW a \in Account, DenyStale(p, a)
      PROVE  GatesUnderFloor'
  BY <1>4 DEF DenyStale, files, ghosts
<1>5. ASSUME NEW p \in Proc, NEW a \in Account, NEW defer \in BOOLEAN, DenyGate(p, a, defer)
      PROVE  GatesUnderFloor'
  BY <1>5, WrittenGates DEF DenyGate
<1>6. ASSUME NEW p \in Proc, AdvanceInactiveGate(p)
      PROVE  GatesUnderFloor'
  BY <1>6, WrittenGates DEF AdvanceInactiveGate, memory, ghosts
<1>7. ASSUME NEW p \in Proc, CommitGate(p)
      PROVE  GatesUnderFloor'
  BY <1>7 DEF CommitGate, WriteGate
<1>8. ASSUME NEW p \in Proc, Interrupt(p)
      PROVE  GatesUnderFloor'
  BY <1>8 DEF Interrupt, memory, ghosts
<1>9. ASSUME NEW p \in Proc, ClearGateIntent(p)
      PROVE  GatesUnderFloor'
  BY <1>9, RewrittenGates DEF ClearGateIntent, WriteGate, SameStamp, ghosts
<1>10. ASSUME NEW e \in 1..MaxEpoch, NEW a \in Account, ResumeDeferredGate(e, a)
      PROVE  GatesUnderFloor'
  BY <1>10, RewrittenGates DEF ResumeDeferredGate, WriteGate, SameStamp, ghosts
<1>11. ASSUME NEW p \in Proc, NEW s \in Store, EraseFiles(p, s)
      PROVE  GatesUnderFloor'
  BY <1>11 DEF EraseFiles, Free, memory, ghosts
<1>12. ASSUME NEW p \in Proc, NEW s \in Store, GuardedWrite(p, s)
      PROVE  GatesUnderFloor'
  BY <1>12 DEF GuardedWrite, memory, ghosts
<1>13. ASSUME NEW p \in Proc, NEW s \in Store, ReadBegin(p, s)
      PROVE  GatesUnderFloor'
  BY <1>13 DEF ReadBegin, files, ghosts
<1>14. ASSUME NEW p \in Proc, ReadRecheck(p) \/ ReadEnd(p)
      PROVE  GatesUnderFloor'
  BY <1>14 DEF ReadRecheck, ReadEnd, files, ghosts
<1>15. CASE SetClock
  BY <1>15 DEF SetClock, files, memory, ghosts
<1>16. CASE LoseGateFile
  BY <1>16 DEF LoseGateFile, WriteGate, ghosts
<1>17. CASE CopyGateFile
  BY <1>17 DEF CopyGateFile, files, memory, ghosts
<1>18. CASE RestoreGateFile
  BY <1>18 DEF RestoreGateFile, WriteGate, ghosts
<1>19. CASE LoseBothFiles
  BY <1>19 DEF LoseBothFiles, WriteGate
<1>20. CASE DeleteProfile
  BY <1>20 DEF DeleteProfile, WriteGate
<1>21. CASE UNCHANGED vars
  BY <1>21 DEF vars, files, memory, ghosts
<1> QED
  BY <1>1, <1>2, <1>3, <1>4, <1>5, <1>6, <1>7, <1>8, <1>9, <1>10, <1>11, <1>12, <1>13, <1>14, <1>15, <1>16, <1>17, <1>18, <1>19, <1>20, <1>21 DEF Next, Environment

LEMMA StampsUnderFloorStep ==
  ASSUME TypeOK, GatesUnderFloor, StampsUnderFloor, [Next]_vars
  PROVE  StampsUnderFloor'
<1> USE AbsentRecords, GateNumbers DEF Gates, GatesUnderFloor, StampsUnderFloor
<1>1. CASE CreateGate
  BY <1>1 DEF CreateGate, WriteGate, FreshGate, ghosts
<1>2. ASSUME NEW p \in Proc, NEW a \in Account, NEW t \in 0..MaxTime, EstablishSessionStamp(p, a, t)
      PROVE  StampsUnderFloor'
  BY <1>2, Establishes DEF SameStamp
<1>3. ASSUME NEW p \in Proc, NEW i \in issued, RestoreSessionStamp(p, i)
      PROVE  StampsUnderFloor'
  BY <1>3 DEF RestoreSessionStamp, files, ghosts
<1>4. ASSUME NEW p \in Proc, NEW a \in Account, DenyStale(p, a)
      PROVE  StampsUnderFloor'
  BY <1>4 DEF DenyStale, files, ghosts
<1>5. ASSUME NEW p \in Proc, NEW a \in Account, NEW defer \in BOOLEAN, DenyGate(p, a, defer)
      PROVE  StampsUnderFloor'
  BY <1>5, WrittenGates DEF DenyGate
<1>6. ASSUME NEW p \in Proc, AdvanceInactiveGate(p)
      PROVE  StampsUnderFloor'
  BY <1>6, WrittenGates DEF AdvanceInactiveGate, memory, ghosts
<1>7. ASSUME NEW p \in Proc, CommitGate(p)
      PROVE  StampsUnderFloor'
  BY <1>7 DEF CommitGate, WriteGate
<1>8. ASSUME NEW p \in Proc, Interrupt(p)
      PROVE  StampsUnderFloor'
  BY <1>8 DEF Interrupt, memory, ghosts
<1>9. ASSUME NEW p \in Proc, ClearGateIntent(p)
      PROVE  StampsUnderFloor'
  BY <1>9, RewrittenGates DEF ClearGateIntent, WriteGate, SameStamp, ghosts
<1>10. ASSUME NEW e \in 1..MaxEpoch, NEW a \in Account, ResumeDeferredGate(e, a)
      PROVE  StampsUnderFloor'
  BY <1>10, RewrittenGates DEF ResumeDeferredGate, WriteGate, SameStamp, ghosts
<1>11. ASSUME NEW p \in Proc, NEW s \in Store, EraseFiles(p, s)
      PROVE  StampsUnderFloor'
  BY <1>11 DEF EraseFiles, Free, memory, ghosts
<1>12. ASSUME NEW p \in Proc, NEW s \in Store, GuardedWrite(p, s)
      PROVE  StampsUnderFloor'
  BY <1>12 DEF GuardedWrite, memory, ghosts
<1>13. ASSUME NEW p \in Proc, NEW s \in Store, ReadBegin(p, s)
      PROVE  StampsUnderFloor'
  BY <1>13 DEF ReadBegin, files, ghosts
<1>14. ASSUME NEW p \in Proc, ReadRecheck(p) \/ ReadEnd(p)
      PROVE  StampsUnderFloor'
  BY <1>14 DEF ReadRecheck, ReadEnd, files, ghosts
<1>15. CASE SetClock
  BY <1>15 DEF SetClock, files, memory, ghosts
<1>16. CASE LoseGateFile
  BY <1>16 DEF LoseGateFile, WriteGate, ghosts
<1>17. CASE CopyGateFile
  BY <1>17 DEF CopyGateFile, files, memory, ghosts
<1>18. CASE RestoreGateFile
  BY <1>18 DEF RestoreGateFile, WriteGate, ghosts
<1>19. CASE LoseBothFiles
  BY <1>19 DEF LoseBothFiles, WriteGate
<1>20. CASE DeleteProfile
  BY <1>20 DEF DeleteProfile, WriteGate
<1>21. CASE UNCHANGED vars
  BY <1>21 DEF vars, files, memory, ghosts
<1> QED
  BY <1>1, <1>2, <1>3, <1>4, <1>5, <1>6, <1>7, <1>8, <1>9, <1>10, <1>11, <1>12, <1>13, <1>14, <1>15, <1>16, <1>17, <1>18, <1>19, <1>20, <1>21 DEF Next, Environment

LEMMA ConsentAboveFloorStep ==
  ASSUME TypeOK, GatesUnderFloor, ConsentAboveFloor, [Next]_vars
  PROVE  ConsentAboveFloor'
<1> USE AbsentRecords, GateNumbers DEF Gates, GatesUnderFloor, ConsentAboveFloor, BehindFloor
<1>1. CASE CreateGate
  BY <1>1 DEF CreateGate, WriteGate, FreshGate, ghosts
<1>2. ASSUME NEW p \in Proc, NEW a \in Account, NEW t \in 0..MaxTime, EstablishSessionStamp(p, a, t)
      PROVE  ConsentAboveFloor'
  BY <1>2, Establishes DEF SameStamp
<1>3. ASSUME NEW p \in Proc, NEW i \in issued, RestoreSessionStamp(p, i)
      PROVE  ConsentAboveFloor'
  BY <1>3 DEF RestoreSessionStamp, files, ghosts
<1>4. ASSUME NEW p \in Proc, NEW a \in Account, DenyStale(p, a)
      PROVE  ConsentAboveFloor'
  BY <1>4 DEF DenyStale, files, ghosts
<1>5. ASSUME NEW p \in Proc, NEW a \in Account, NEW defer \in BOOLEAN, DenyGate(p, a, defer)
      PROVE  ConsentAboveFloor'
  BY <1>5, WrittenGates DEF DenyGate
<1>6. ASSUME NEW p \in Proc, AdvanceInactiveGate(p)
      PROVE  ConsentAboveFloor'
  BY <1>6, WrittenGates DEF AdvanceInactiveGate, memory, ghosts
<1>7. ASSUME NEW p \in Proc, CommitGate(p)
      PROVE  ConsentAboveFloor'
  BY <1>7 DEF CommitGate, WriteGate
<1>8. ASSUME NEW p \in Proc, Interrupt(p)
      PROVE  ConsentAboveFloor'
  BY <1>8 DEF Interrupt, memory, ghosts
<1>9. ASSUME NEW p \in Proc, ClearGateIntent(p)
      PROVE  ConsentAboveFloor'
  BY <1>9, RewrittenGates DEF ClearGateIntent, WriteGate, SameStamp, ghosts
<1>10. ASSUME NEW e \in 1..MaxEpoch, NEW a \in Account, ResumeDeferredGate(e, a)
      PROVE  ConsentAboveFloor'
  BY <1>10, RewrittenGates DEF ResumeDeferredGate, WriteGate, SameStamp, ghosts
<1>11. ASSUME NEW p \in Proc, NEW s \in Store, EraseFiles(p, s)
      PROVE  ConsentAboveFloor'
  BY <1>11 DEF EraseFiles, Free, memory, ghosts
<1>12. ASSUME NEW p \in Proc, NEW s \in Store, GuardedWrite(p, s)
      PROVE  ConsentAboveFloor'
  BY <1>12 DEF GuardedWrite, memory, ghosts
<1>13. ASSUME NEW p \in Proc, NEW s \in Store, ReadBegin(p, s)
      PROVE  ConsentAboveFloor'
  BY <1>13 DEF ReadBegin, files, ghosts
<1>14. ASSUME NEW p \in Proc, ReadRecheck(p) \/ ReadEnd(p)
      PROVE  ConsentAboveFloor'
  BY <1>14 DEF ReadRecheck, ReadEnd, files, ghosts
<1>15. CASE SetClock
  BY <1>15 DEF SetClock, files, memory, ghosts
<1>16. CASE LoseGateFile
  BY <1>16 DEF LoseGateFile, WriteGate, ghosts
<1>17. CASE CopyGateFile
  BY <1>17 DEF CopyGateFile, files, memory, ghosts
<1>18. CASE RestoreGateFile
  BY <1>18 DEF RestoreGateFile, WriteGate, ghosts
<1>19. CASE LoseBothFiles
  BY <1>19 DEF LoseBothFiles, WriteGate
<1>20. CASE DeleteProfile
  BY <1>20 DEF DeleteProfile, WriteGate
<1>21. CASE UNCHANGED vars
  BY <1>21 DEF vars, files, memory, ghosts
<1> QED
  BY <1>1, <1>2, <1>3, <1>4, <1>5, <1>6, <1>7, <1>8, <1>9, <1>10, <1>11, <1>12, <1>13, <1>14, <1>15, <1>16, <1>17, <1>18, <1>19, <1>20, <1>21 DEF Next, Environment

LEMMA InitIInv == Init => IInv
<1> SUFFICES ASSUME Init PROVE IInv
  OBVIOUS
<1>1. TypeOK
  BY SmallRecords, ConstantsAssumption DEF Init, TypeOK
<1>2. GatesUnderFloor /\ StampsUnderFloor /\ ConsentAboveFloor
  BY AbsentRecords DEF Init, GatesUnderFloor, StampsUnderFloor, ConsentAboveFloor, Gates, BehindFloor
<1> QED BY <1>1, <1>2 DEF IInv

LEMMA NextIInv == IInv /\ [Next]_vars => IInv'
BY TypeOKStep, GatesUnderFloorStep, StampsUnderFloorStep, ConsentAboveFloorStep DEF IInv

\* IInv is inductive and holds of every reachable state.
LEMMA InvariantIInv == Spec => []IInv
BY InitIInv, NextIInv, PTL DEF Spec

LEMMA RevokedFollows == IInv => RevokedStampNeverAdmitted
BY GateNumbers DEF IInv, GatesUnderFloor, StampsUnderFloor, Gates, RevokedStampNeverAdmitted, GateAccess,
   Usable, BehindFloor

\* A stamp revoked by a durable sign-out is never admitted again, for every number of
\* processes, accounts and stores and across crashes, lost and restored gate files.
THEOREM RevokedStampsStayRevoked == Spec => []RevokedStampNeverAdmitted
BY InvariantIInv, RevokedFollows, PTL

\* No account becomes active through a sign-in proof as old as the last durable sign-out.
THEOREM ActivationNeedsNewerConsent == Spec => []ActiveOnlyByNewerConsent
<1>1. IInv => ActiveOnlyByNewerConsent
  BY GateNumbers DEF IInv, ConsentAboveFloor, Gates, ActiveOnlyByNewerConsent, Usable
<1> QED BY <1>1, InvariantIInv, PTL

\* A step that neither reads nor denies, and that moves no gate back to an older stamp.
LEMMA ReadersKept ==
  ASSUME IInv, ReadersNotDenied,
         UNCHANGED <<reading, denied, putBack>>, revoked \subseteq revoked',
         gate' = NoGate \/ (gate'.inc = gate.inc /\ gate'.epoch = gate.epoch)
           \/ (incs \in Nat /\ gate'.inc = incs + 1),
         statSame' \subseteq statSame, NextAtFloor'
  PROVE  ReadersNotDenied'
<1>1. \A st \in denied : st.inc \in Nat /\ 1 <= st.inc /\ st.inc <= incs
  BY GateNumbers DEF IInv, StampsUnderFloor, ReadersNotDenied
<1>2. \A st \in denied : MovedOn(st) => MovedOn(st)'
  BY <1>1, AbsentRecords, GateNumbers DEF IInv, MovedOn
<1> QED BY <1>1, <1>2, AbsentRecords DEF ReadersNotDenied, MovedOn

LEMMA ReadersStep ==
  ASSUME IInv, ReadersNotDenied, [Next]_vars
  PROVE  ReadersNotDenied'
<1> USE GateNumbers DEF IInv, Gates
<1>0. NextAtFloor'
  <2> USE DEF ReadersNotDenied, NextAtFloor
  <2>1. ASSUME NEW p \in Proc, NEW a \in Account, NEW defer \in BOOLEAN, DenyGate(p, a, defer)
        PROVE  NextAtFloor'
    BY <2>1, WrittenGates DEF DenyGate
  <2>2. ASSUME NEW p \in Proc, AdvanceInactiveGate(p)
        PROVE  NextAtFloor'
    BY <2>2, WrittenGates DEF AdvanceInactiveGate
  <2>3. ASSUME NEW p \in Proc, CommitGate(p) \/ Interrupt(p) \/ ClearGateIntent(p)
        PROVE  NextAtFloor'
    BY <2>3, AbsentRecords DEF CommitGate, Interrupt, ClearGateIntent
  <2>4. ASSUME NEW p \in Proc, NEW s \in Store, EraseFiles(p, s)
        PROVE  NextAtFloor'
    BY <2>4, ConstantsAssumption DEF EraseFiles, Free
  <2>5. CASE LoseBothFiles \/ DeleteProfile
    BY <2>5, AbsentRecords DEF LoseBothFiles, DeleteProfile
  <2>6. ASSUME NEW p \in Proc, NEW s \in Store, GuardedWrite(p, s) \/ ReadBegin(p, s)
        PROVE  NextAtFloor'
    BY <2>6 DEF GuardedWrite, ReadBegin, files
  <2>7. CASE UNCHANGED <<section, floor>>
    BY <2>7
  <2> QED
    BY <2>1, <2>2, <2>3, <2>4, <2>5, <2>6, <2>7 DEF Next, vars, Environment, CreateGate,
       EstablishSessionStamp, RestoreSessionStamp, DenyStale, ResumeDeferredGate, ReadRecheck,
       ReadEnd, SetClock, LoseGateFile, CopyGateFile, RestoreGateFile, files
<1>1. CASE CreateGate
  BY <1>0, <1>1, ReadersKept, AbsentRecords DEF CreateGate, WriteGate, ghosts
<1>2. ASSUME NEW p \in Proc, NEW a \in Account, NEW t \in 0..MaxTime, EstablishSessionStamp(p, a, t)
      PROVE  ReadersNotDenied'
  <2>1. UNCHANGED <<reading, denied, putBack, revoked>> /\ statSame' \subseteq statSame
    BY <1>2 DEF EstablishSessionStamp, WriteGate
  <2>2. SameStamp(gate', gate)
    BY <1>2, RewrittenGates
  <2> QED BY <1>0, <2>1, <2>2, ReadersKept DEF SameStamp
<1>3. ASSUME NEW p \in Proc, NEW i \in issued, RestoreSessionStamp(p, i)
      PROVE  ReadersNotDenied'
  BY <1>0, <1>3, ReadersKept DEF RestoreSessionStamp, files, ghosts
<1>4. ASSUME NEW p \in Proc, NEW a \in Account, DenyStale(p, a)
      PROVE  ReadersNotDenied'
  BY <1>0, <1>4, ReadersKept DEF DenyStale, files, ghosts
<1>5. ASSUME NEW p \in Proc, NEW a \in Account, NEW defer \in BOOLEAN, DenyGate(p, a, defer)
      PROVE  ReadersNotDenied'
  BY <1>0, <1>5, ReadersKept DEF DenyGate
<1>6. ASSUME NEW p \in Proc, AdvanceInactiveGate(p)
      PROVE  ReadersNotDenied'
  BY <1>0, <1>6, ReadersKept DEF AdvanceInactiveGate, memory, ghosts
<1>7. ASSUME NEW p \in Proc, CommitGate(p)
      PROVE  ReadersNotDenied'
  <2>1. /\ section.next.epoch = floor.epoch
        /\ gate' = section.next /\ statSame' = {} /\ denied' = revoked /\ revoked' = revoked
    BY <1>7, ConstantsAssumption DEF CommitGate, WriteGate, ReadersNotDenied, NextAtFloor
  <2>2. \A st \in revoked : MovedOn(st)'
    BY <2>1 DEF StampsUnderFloor, MovedOn
  <2> QED BY <1>0, <2>1, <2>2 DEF ReadersNotDenied, MovedOn
<1>8. ASSUME NEW p \in Proc, Interrupt(p)
      PROVE  ReadersNotDenied'
  BY <1>0, <1>8, ReadersKept DEF Interrupt, memory, ghosts
<1>9. ASSUME NEW p \in Proc, ClearGateIntent(p)
      PROVE  ReadersNotDenied'
  BY <1>0, <1>9, RewrittenGates, ReadersKept DEF ClearGateIntent, WriteGate, SameStamp, ghosts
<1>10. ASSUME NEW e \in 1..MaxEpoch, NEW a \in Account, ResumeDeferredGate(e, a)
      PROVE  ReadersNotDenied'
  BY <1>0, <1>10, RewrittenGates, ReadersKept DEF ResumeDeferredGate, WriteGate, SameStamp, ghosts
<1>11. ASSUME NEW p \in Proc, NEW s \in Store, EraseFiles(p, s) \/ GuardedWrite(p, s)
      PROVE  ReadersNotDenied'
  BY <1>0, <1>11, ReadersKept DEF EraseFiles, GuardedWrite, memory, ghosts
<1>12. ASSUME NEW p \in Proc, NEW s \in Store, ReadBegin(p, s)
      PROVE  ReadersNotDenied'
  <2>1. session[p].stamp \notin revoked
    BY <1>12, RevokedFollows, ConstantsAssumption DEF ReadBegin, RevokedStampNeverAdmitted
  <2>2. /\ reading' = [reading EXCEPT ![p] =
                         [step |-> "snapshot", store |-> s, stamp |-> session[p].stamp]]
        /\ statSame' = statSame \cup {p}
        /\ UNCHANGED <<gate, revoked, denied, putBack>>
    BY <1>12 DEF ReadBegin, files, ghosts
  <2> QED BY <1>0, <2>1, <2>2 DEF ReadersNotDenied, MovedOn, TypeOK
<1>13. ASSUME NEW p \in Proc, ReadRecheck(p)
      PROVE  ReadersNotDenied'
  <2>1. reading[p].store \in Store
    BY <1>13 DEF ReadRecheck, TypeOK, Reading
  <2>2. reading[p].stamp \notin denied
    BY <1>13, <2>1, RevokedFollows, ConstantsAssumption
       DEF ReadRecheck, RecheckPasses, ReadersNotDenied, RevokedStampNeverAdmitted
  <2>3. /\ reading' = [reading EXCEPT ![p].step = "checked"]
        /\ statSame' = statSame \ {p}
        /\ UNCHANGED <<gate, revoked, denied, putBack>>
    BY <1>13 DEF ReadRecheck, files, ghosts
  <2>4. /\ reading'[p].stamp = reading[p].stamp
        /\ \A q \in Proc \ {p} : reading'[q] = reading[q]
    BY <2>3 DEF TypeOK, Reading
  <2> QED BY <1>0, <2>2, <2>3, <2>4 DEF ReadersNotDenied, MovedOn, TypeOK
<1>14. ASSUME NEW p \in Proc, ReadEnd(p)
      PROVE  ReadersNotDenied'
  <2>1. /\ reading' = [reading EXCEPT ![p] = NoReading]
        /\ statSame' = statSame \ {p}
        /\ putBack' = putBack \ {p}
        /\ UNCHANGED <<gate, revoked, denied>>
    BY <1>14 DEF ReadEnd, files
  <2>2. \A q \in Proc : q # p => reading'[q] = reading[q]
    BY <2>1 DEF TypeOK
  <2>3. reading'[p].step = "none"
    BY <2>1, SmallRecords DEF TypeOK
  <2> QED BY <1>0, <2>1, <2>2, <2>3 DEF ReadersNotDenied, MovedOn, TypeOK
<1>15. CASE SetClock \/ CopyGateFile
  BY <1>0, <1>15, ReadersKept DEF SetClock, CopyGateFile, files, memory, ghosts
<1>16. CASE LoseGateFile \/ LoseBothFiles \/ DeleteProfile
  BY <1>0, <1>16, ReadersKept DEF LoseGateFile, LoseBothFiles, DeleteProfile, WriteGate, ghosts
<1>17. CASE RestoreGateFile
  BY <1>0, <1>17 DEF RestoreGateFile, WriteGate, ReadersNotDenied
<1>18. CASE UNCHANGED vars
  BY <1>0, <1>18, ReadersKept DEF vars, files, memory, ghosts
<1> QED
  BY <1>1, <1>2, <1>3, <1>4, <1>5, <1>6, <1>7, <1>8, <1>9, <1>10, <1>11, <1>12, <1>13, <1>14, <1>15,
     <1>16, <1>17, <1>18 DEF Next, Environment

\* A read that began before a sign-out is not delivered once the sign-out has completed, for
\* any processes and whatever files were lost, created or put back, unless an older gate file
\* lies there that was put back after the read's last gate check.
THEOREM DeniedReadsStop == Spec => []DeniedReadNotDelivered
<1>1. Init => ReadersNotDenied
  BY ConstantsAssumption, AbsentRecords, SmallRecords DEF Init, ReadersNotDenied, NextAtFloor
<1>2. IInv /\ ReadersNotDenied /\ [Next]_vars => ReadersNotDenied'
  BY ReadersStep
<1>3. IInv /\ ReadersNotDenied => DeniedReadNotDelivered
  BY DEF ReadersNotDenied, MovedOn, DeniedReadNotDelivered, DeliveryAllowed, CheckDelivery
<1> QED BY <1>1, <1>2, <1>3, InvariantIInv, PTL DEF Spec

\* Denied data has a durable floor, and is covered by the gate's intents unless the gate
\* is missing or still shows the denied account behind its floor; the gate a section is
\* about to write covers it.  An erase in progress has already removed its files.
Sealed ==
  /\ backup = NoGate
  /\ \A s \in Store : data[s] = "denied" =>
       /\ floor # NoFloor
       /\ \/ gate = NoGate
          \/ s \in gate.intents
          \/ BehindFloor(gate, floor) /\ gate.account = Owner[s]
       /\ section.proc # NoProc /\ section.erasing = NoStore => s \in section.next.intents
  /\ section.erasing # NoStore => data[section.erasing] = "absent"

LEMMA SealedStep ==
  ASSUME ~MayTamper, IInv, Sealed, [Next]_vars
  PROVE  Sealed'
<1> USE ConstantsAssumption, AbsentRecords, GateNumbers DEF IInv, Sealed, Gates
<1>1. CASE CreateGate
  BY <1>1 DEF CreateGate, CanCreate, WriteGate
<1>2. ASSUME NEW p \in Proc, NEW a \in Account, NEW t \in 0..MaxTime, EstablishSessionStamp(p, a, t)
      PROVE  Sealed'
  <2>1. UNCHANGED <<floor, section, data, backup>> /\ gate # NoGate /\ gate.intents = {}
        /\ ~BehindFloor(gate, floor)
    BY <1>2, Establishes
  <2>2. \A s \in Store : data[s] # "denied"
    BY <2>1
  <2> QED BY <2>1, <2>2
<1>3. ASSUME NEW p \in Proc, NEW i \in issued, RestoreSessionStamp(p, i)
      PROVE  Sealed'
  BY <1>3 DEF RestoreSessionStamp, files, ghosts
<1>4. ASSUME NEW p \in Proc, NEW a \in Account, DenyStale(p, a)
      PROVE  Sealed'
  BY <1>4 DEF DenyStale, files, ghosts
<1>5. ASSUME NEW p \in Proc, NEW a \in Account, NEW defer \in BOOLEAN, DenyGate(p, a, defer)
      PROVE  Sealed'
  <2>1. /\ gate # NoGate /\ gate.account = a /\ gate.intents = {}
        /\ section'.proc = p /\ section'.erasing = NoStore /\ section'.next = DeniedGate(defer)
        /\ floor'.epoch = NextEpoch
        /\ UNCHANGED <<gate, backup>>
    BY <1>5 DEF DenyGate, TypeOK, WellFormed
  <2>2. floor' # NoFloor /\ BehindFloor(gate, floor')
    BY <2>1, WrittenGates DEF BehindFloor
  <2>3. ASSUME NEW s \in Store, data'[s] = "denied"
        PROVE  s \in CollectIntents(a) /\ Owner[s] = a
    BY <1>5, <2>1, <2>3 DEF DenyGate, CollectIntents
  <2> QED BY <2>1, <2>2, <2>3, WrittenGates
<1>6. ASSUME NEW p \in Proc, AdvanceInactiveGate(p)
      PROVE  Sealed'
  <2>1. /\ gate.account = NoAccount
        /\ section'.next = AdvancedGate /\ section'.erasing = NoStore
        /\ floor'.epoch = NextEpoch
        /\ gate # NoGate /\ UNCHANGED <<gate, data, backup>>
    BY <1>6 DEF AdvanceInactiveGate
  <2>2. floor' # NoFloor
    BY <2>1, WrittenGates
  <2>3. \A s \in Store : Owner[s] # NoAccount
    OBVIOUS
  <2> QED BY <2>1, <2>2, <2>3, WrittenGates
<1>7. ASSUME NEW p \in Proc, CommitGate(p)
      PROVE  Sealed'
  BY <1>7 DEF CommitGate, WriteGate
<1>8. ASSUME NEW p \in Proc, Interrupt(p)
      PROVE  Sealed'
  BY <1>8 DEF Interrupt, memory, ghosts
<1>9. ASSUME NEW p \in Proc, ClearGateIntent(p)
      PROVE  Sealed'
  <2>1. data[section.erasing] = "absent"
    BY <1>9 DEF ClearGateIntent
  <2>2. CASE UNCHANGED gate
    BY <1>9, <2>1, <2>2 DEF ClearGateIntent
  <2>3. CASE gate' = [gate EXCEPT !.intents = @ \ {section.erasing}] /\ Usable
    <3>1. gate'.intents = gate.intents \ {section.erasing}
      BY <2>3 DEF TypeOK, GateState
    <3> QED BY <1>9, <2>1, <2>3, <3>1 DEF ClearGateIntent, Usable
  <2> QED BY <1>9, <2>2, <2>3 DEF ClearGateIntent, WriteGate
<1>10. ASSUME NEW e \in 1..MaxEpoch, NEW a \in Account, ResumeDeferredGate(e, a)
      PROVE  Sealed'
  <2>1. gate'.intents = gate.intents /\ UNCHANGED <<floor, section, data, backup>> /\ Usable
    BY <1>10 DEF ResumeDeferredGate, WriteGate, TypeOK, GateState
  <2> QED BY <2>1 DEF Usable
<1>11. ASSUME NEW p \in Proc, NEW s \in Store, EraseFiles(p, s)
      PROVE  Sealed'
  <2>1. /\ UNCHANGED <<gate, floor, backup>> /\ Usable
        /\ section'.erasing = s
        /\ data' = [data EXCEPT ![s] = "absent"]
    BY <1>11 DEF EraseFiles, Free
  <2> QED BY <2>1, <1>11 DEF TypeOK, EraseFiles
<1>12. ASSUME NEW p \in Proc, NEW s \in Store, GuardedWrite(p, s)
      PROVE  Sealed'
  <2>1. data' = [data EXCEPT ![s] = "live"] /\ UNCHANGED <<gate, floor, section, backup>> /\ section = Free
    BY <1>12 DEF GuardedWrite
  <2> QED BY <2>1 DEF TypeOK
<1>13. ASSUME NEW p \in Proc, NEW s \in Store, ReadBegin(p, s)
      PROVE  Sealed'
  BY <1>13 DEF ReadBegin, files, ghosts
<1>14. ASSUME NEW p \in Proc, ReadRecheck(p) \/ ReadEnd(p)
      PROVE  Sealed'
  BY <1>14 DEF ReadRecheck, ReadEnd, files, ghosts
<1>15. CASE SetClock
  BY <1>15 DEF SetClock, files, memory, ghosts
<1>16. CASE LoseGateFile
  BY <1>16 DEF LoseGateFile, WriteGate, ghosts
<1>17. CASE CopyGateFile
  BY <1>17 DEF CopyGateFile
<1>18. CASE RestoreGateFile
  BY <1>18 DEF RestoreGateFile
<1>19. CASE LoseBothFiles
  BY <1>19 DEF LoseBothFiles
<1>20. CASE DeleteProfile
  BY <1>20 DEF DeleteProfile, WriteGate
<1>21. CASE UNCHANGED vars
  BY <1>21 DEF vars, files, memory, ghosts
<1> QED
  BY <1>1, <1>2, <1>3, <1>4, <1>5, <1>6, <1>7, <1>8, <1>9, <1>10, <1>11, <1>12, <1>13, <1>14, <1>15, <1>16, <1>17, <1>18, <1>19, <1>20, <1>21 DEF Next, Environment

\* Data of a signed-out account stays out of reach until its files are erased, for every
\* number of processes, accounts and stores, when no older gate file is put back and the
\* two files are not deleted together.
THEOREM DeniedDataStaysSealed == Spec => []DeniedDataSealed
<1> DEFINE SealedUntampered == ~MayTamper => Sealed
<1>1. Init => SealedUntampered
  BY AbsentRecords DEF Init, Sealed
<1>2. IInv /\ SealedUntampered /\ [Next]_vars => SealedUntampered'
  <2>1. [Next]_vars => MayTamper' = MayTamper
    BY DEF Next, vars, MayTamper
  <2> QED BY <2>1, SealedStep
<1>3. IInv /\ SealedUntampered => DeniedDataSealed
  BY DEF Sealed, DeniedDataSealed, Usable
<1> QED BY <1>1, <1>2, <1>3, InvariantIInv, PTL DEF Spec

\* The deny floor never moves back, unless the profile's files are removed.
THEOREM FloorAdvances == Spec => FloorNeverRetreats
<1> DEFINE Kept == floor' = NoFloor \/ (floor'.epoch >= floor.epoch /\ floor'.deniedAt >= floor.deniedAt)
<1>1. IInv /\ [Next]_vars => [Kept]_floor
  <2> SUFFICES ASSUME IInv, Next, floor' # floor PROVE Kept
    BY DEF vars, files
  <2>1. TypeOK
    BY DEF IInv
  <2>2. ASSUME NEW p \in Proc, NEW a \in Account, NEW defer \in BOOLEAN, DenyGate(p, a, defer)
        PROVE  Kept
    BY <2>1, <2>2, WrittenGates, GateNumbers DEF DenyGate
  <2>3. ASSUME NEW p \in Proc, AdvanceInactiveGate(p)
        PROVE  Kept
    BY <2>1, <2>3, WrittenGates, GateNumbers DEF AdvanceInactiveGate
  <2>4. CASE LoseBothFiles \/ DeleteProfile
    BY <2>4 DEF LoseBothFiles, DeleteProfile
  <2> QED
    BY <2>2, <2>3, <2>4 DEF Next, Environment, CreateGate, EstablishSessionStamp, RestoreSessionStamp,
       DenyStale, CommitGate, Interrupt, ClearGateIntent, ResumeDeferredGate, EraseFiles, GuardedWrite,
       ReadBegin, ReadRecheck, ReadEnd, SetClock, LoseGateFile, CopyGateFile, RestoreGateFile, files
<1> QED BY <1>1, InvariantIInv, PTL DEF Spec, FloorNeverRetreats
=============================================================================
