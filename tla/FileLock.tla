------------------------------ MODULE FileLock ------------------------------
(***************************************************************************)
(* Courier's lock files: acquireLock and breakDead                         *)
(* (packages/courier/src/file-lock.ts).                                    *)
(*                                                                         *)
(* A lock is one file that is created whole and never overwritten, with a  *)
(* record of the process and a nonce of the call.  A lock whose process    *)
(* still runs refuses; one whose process is gone is broken.  Breakers of   *)
(* one dead record take turns on numbered guard files, created exclusively *)
(* too: the guard of a dead breaker is passed over and remembered, that of *)
(* a running one refuses.  Under a guard the lock is read again, removed   *)
(* if it is still the dead record, and the guards are removed, the dead    *)
(* ones first.  If all guards are held by the dead, they are removed and   *)
(* the call tries again.                                                   *)
(*                                                                         *)
(* Every file operation is a step of its own.  A process is one run of a   *)
(* program; all run on one machine, in one boot and one pid namespace, and *)
(* pids are not reused: in any other case the code judges no one dead and  *)
(* refuses.                                                                *)
(***************************************************************************)
EXTENDS Naturals

CONSTANTS
  Live,         \* processes that run at first
  Gone,         \* Gone + 1 processes died before, with the lock or a guard of it
  Nonce,        \* bound on the calls whose records a process has about
  MaxGuards,    \* MAX_BREAK_GUARDS
  MaxAttempts,  \* attempts of one call
  MaxFaults     \* bound on crashes, earlier ones included, and failed file operations

ASSUME ConstantsAssumption ==
  /\ Gone \in 0 .. MaxGuards /\ Gone <= MaxFaults
  /\ Live \cap (0 .. Gone) = {}
  /\ 0 \in Nonce
  /\ MaxGuards \in Nat \ {0} /\ MaxAttempts \in Nat \ {0} /\ MaxFaults \in Nat

Proc   == Live \cup 0 .. Gone
Slot   == 1 .. MaxGuards
Record == Proc \X Nonce
NoRecord == <<>>
Owner(r) == r[1]
Earlier  == <<0, 0>>     \* the record of the process that died with the lock

VARIABLES
  lock,     \* the lock file
  guard,    \* guard[r][k]: guard file k of the dead record r
  up,       \* running processes
  pc,
  self,     \* self[p]: the record of p's call
  attempt,  \* attempt[p]: attempts it has left
  stale,    \* stale[p]: the record p saw in the lock
  slot,     \* slot[p]: the guard p tries next, or holds
  retries,
  clear,    \* clear[p][k]: what guard k must hold for p to remove it
  faults

files == <<lock, guard>>
call  == <<self, attempt>>
break == <<stale, slot, retries, clear>>
vars  == <<files, up, pc, call, break, faults>>

Dead(r) == Owner(r) \notin up
None    == [k \in Slot |-> NoRecord]
Pending(p) == {k \in Slot : clear[p][k] # NoRecord}

\* p goes to another step.
To(p, step) == pc' = [pc EXCEPT ![p] = step]

Holding(p) == pc[p] \in {"holds", "release"}

\* A nonce is random, hence none that is still recorded or remembered anywhere.
Fresh(r) ==
  /\ lock # r
  /\ \A s \in Record : \A k \in Slot : guard[s][k] # r /\ guard[r][k] = NoRecord
  /\ \A p \in up : stale[p] # r /\ \A k \in Slot : clear[p][k] # r

-----------------------------------------------------------------------------
\* Any number of guards of the earlier lock may have been left behind.
Init ==
  /\ \E n \in 0 .. Gone :
       /\ guard = [r \in Record |-> [k \in Slot |->
                     IF r = Earlier /\ k <= n THEN <<k, 0>> ELSE NoRecord]]
       /\ faults = n
  /\ lock = Earlier
  /\ up = Live
  /\ pc = [p \in Live |-> "idle"]
  /\ self = [p \in Live |-> NoRecord]
  /\ attempt = [p \in Live |-> 0]
  /\ stale = [p \in Live |-> NoRecord]
  /\ slot = [p \in Live |-> 0]
  /\ retries = [p \in Live |-> 0]
  /\ clear = [p \in Live |-> None]

-----------------------------------------------------------------------------
\* acquireLock.
Call(p) ==
  /\ p \in up
  /\ pc[p] = "idle"
  /\ \E n \in Nonce : Fresh(<<p, n>>) /\ self' = [self EXCEPT ![p] = <<p, n>>]
  /\ attempt' = [attempt EXCEPT ![p] = MaxAttempts]
  /\ To(p, "read")
  /\ UNCHANGED <<files, up, break, faults>>

\* The call throws: what it knew is forgotten.
End(p) ==
  /\ To(p, "idle")
  /\ self' = [self EXCEPT ![p] = NoRecord]
  /\ attempt' = [attempt EXCEPT ![p] = 0]
  /\ stale' = [stale EXCEPT ![p] = NoRecord]
  /\ slot' = [slot EXCEPT ![p] = 0]
  /\ retries' = [retries EXCEPT ![p] = 0]
  /\ clear' = [clear EXCEPT ![p] = None]

\* The next attempt, if one is left.
Again(p) ==
  IF attempt[p] = 1 THEN End(p)
  ELSE /\ To(p, "read")
       /\ attempt' = [attempt EXCEPT ![p] = @ - 1]
       /\ stale' = [stale EXCEPT ![p] = NoRecord]
       /\ slot' = [slot EXCEPT ![p] = 0]
       /\ retries' = [retries EXCEPT ![p] = 0]
       /\ clear' = [clear EXCEPT ![p] = None]
       /\ UNCHANGED self

StartBreak(p) ==
  /\ stale' = [stale EXCEPT ![p] = lock]
  /\ slot' = [slot EXCEPT ![p] = 1]
  /\ To(p, "guard")
  /\ UNCHANGED <<call, retries, clear>>

ReadMissing(p) ==
  /\ pc[p] = "read"
  /\ lock = NoRecord
  /\ To(p, "create")
  /\ UNCHANGED <<files, up, call, break, faults>>

\* The creation lost against another call, and the lock is gone again.
RereadMissing(p) ==
  /\ pc[p] = "reread"
  /\ lock = NoRecord
  /\ Again(p)
  /\ UNCHANGED <<files, up, faults>>

ReadHeld(p) ==
  /\ pc[p] \in {"read", "reread"}
  /\ lock # NoRecord
  /\ IF Dead(lock) THEN StartBreak(p) ELSE End(p)
  /\ UNCHANGED <<files, up, faults>>

Create(p) ==
  /\ pc[p] = "create"
  /\ IF lock = NoRecord THEN lock' = self[p] /\ To(p, "holds")
     ELSE UNCHANGED lock /\ To(p, "reread")
  /\ UNCHANGED <<guard, up, call, break, faults>>

\* The link is made, its directory is not synced: the call removes the lock and throws.
CreateFails(p) ==
  /\ pc[p] = "create"
  /\ lock = NoRecord
  /\ faults < MaxFaults
  /\ faults' = faults + 1
  /\ lock' = self[p]
  /\ To(p, "undo")
  /\ UNCHANGED <<guard, up, call, break>>

Undo(p) ==
  /\ pc[p] = "undo"
  /\ lock' = IF lock = self[p] THEN NoRecord ELSE lock
  /\ End(p)
  /\ UNCHANGED <<guard, up, faults>>

-----------------------------------------------------------------------------
\* The release that a successful call returns: read, then remove.
Release(p) ==
  /\ pc[p] = "holds"
  /\ IF lock = self[p] THEN To(p, "release") /\ UNCHANGED <<call, break>> ELSE End(p)
  /\ UNCHANGED <<files, up, faults>>

RemoveLock(p) ==
  /\ pc[p] = "release"
  /\ lock' = NoRecord
  /\ End(p)
  /\ UNCHANGED <<guard, up, faults>>

-----------------------------------------------------------------------------
\* breakDead: claim a guard, or pass over the guards of dead breakers.
ClaimGuard_Overwrites(p) ==
  /\ pc[p] = "guard"
  /\ guard' = [guard EXCEPT ![stale[p]][slot[p]] = self[p]]
  /\ clear' = [clear EXCEPT ![p][slot[p]] = self[p]]
  /\ To(p, "check")
  /\ UNCHANGED <<lock, up, call, stale, slot, retries, faults>>

ClaimGuard(p) ==
  /\ pc[p] = "guard"
  /\ guard[stale[p]][slot[p]] = NoRecord
  /\ guard' = [guard EXCEPT ![stale[p]][slot[p]] = self[p]]
  /\ clear' = [clear EXCEPT ![p][slot[p]] = self[p]]
  /\ To(p, "check")
  /\ UNCHANGED <<lock, up, call, stale, slot, retries, faults>>

GuardTaken(p) ==
  /\ pc[p] = "guard"
  /\ guard[stale[p]][slot[p]] # NoRecord
  /\ To(p, "holder")
  /\ UNCHANGED <<files, up, call, break, faults>>

\* As CreateFails, but breakDead throws and leaves its guard behind.
ClaimFails(p) ==
  /\ pc[p] = "guard"
  /\ guard[stale[p]][slot[p]] = NoRecord
  /\ faults < MaxFaults
  /\ faults' = faults + 1
  /\ guard' = [guard EXCEPT ![stale[p]][slot[p]] = self[p]]
  /\ End(p)
  /\ UNCHANGED <<lock, up>>

\* Its breaker has removed it meanwhile: the same guard is tried again.
GuardVanished(p) ==
  /\ pc[p] = "holder"
  /\ guard[stale[p]][slot[p]] = NoRecord
  /\ IF retries[p] < MaxGuards
     THEN /\ To(p, "guard")
          /\ retries' = [retries EXCEPT ![p] = @ + 1]
          /\ UNCHANGED <<call, stale, slot, clear>>
     ELSE End(p)
  /\ UNCHANGED <<files, up, faults>>

GuardRefuses_Any(p) ==
  /\ pc[p] = "holder"
  /\ guard[stale[p]][slot[p]] # NoRecord
  /\ End(p)
  /\ UNCHANGED <<files, up, faults>>

GuardRefuses(p) ==
  /\ pc[p] = "holder"
  /\ guard[stale[p]][slot[p]] # NoRecord
  /\ ~Dead(guard[stale[p]][slot[p]])
  /\ End(p)
  /\ UNCHANGED <<files, up, faults>>

PassGuard_Next(p) ==
  /\ pc[p] = "holder"
  /\ guard[stale[p]][slot[p]] # NoRecord
  /\ Dead(guard[stale[p]][slot[p]])
  /\ slot[p] < MaxGuards
  /\ clear' = [clear EXCEPT ![p][slot[p] + 1] = guard[stale[p]][slot[p]]]
  /\ slot' = [slot EXCEPT ![p] = @ + 1]
  /\ To(p, "guard")
  /\ UNCHANGED <<files, up, call, stale, retries, faults>>

PassGuard(p) ==
  /\ pc[p] = "holder"
  /\ guard[stale[p]][slot[p]] # NoRecord
  /\ Dead(guard[stale[p]][slot[p]])
  /\ clear' = [clear EXCEPT ![p][slot[p]] = guard[stale[p]][slot[p]]]
  /\ slot' = [slot EXCEPT ![p] = @ + 1]
  /\ To(p, IF slot[p] = MaxGuards THEN "clear" ELSE "guard")
  /\ UNCHANGED <<files, up, call, stale, retries, faults>>

\* Under the guard: read the lock again, and remove whatever is there if it was the record.
CheckLock_Unread(p) ==
  /\ pc[p] = "check"
  /\ To(p, "unlink")
  /\ UNCHANGED <<files, up, call, break, faults>>

CheckLock(p) ==
  /\ pc[p] = "check"
  /\ To(p, IF lock = stale[p] THEN "unlink" ELSE "clear")
  /\ UNCHANGED <<files, up, call, break, faults>>

Unlink(p) ==
  /\ pc[p] = "unlink"
  /\ lock' = NoRecord
  /\ To(p, "clear")
  /\ UNCHANGED <<guard, up, call, break, faults>>

\* clearDead and the removal of the own guard: each is read, then removed.
FirstToClear(p) == CHOOSE k \in Pending(p) : \A j \in Pending(p) : k <= j

ReadGuard(p) ==
  /\ pc[p] = "clear"
  /\ Pending(p) # {}
  /\ LET k == FirstToClear(p) IN
       IF guard[stale[p]][k] = clear[p][k]
       THEN To(p, "remove") /\ UNCHANGED clear
       ELSE clear' = [clear EXCEPT ![p][k] = NoRecord] /\ UNCHANGED pc
  /\ UNCHANGED <<files, up, call, stale, slot, retries, faults>>

RemoveGuard(p) ==
  /\ pc[p] = "remove"
  /\ LET k == FirstToClear(p) IN
       /\ guard' = [guard EXCEPT ![stale[p]][k] = NoRecord]
       /\ clear' = [clear EXCEPT ![p][k] = NoRecord]
  /\ To(p, "clear")
  /\ UNCHANGED <<lock, up, call, stale, slot, retries, faults>>

Broken(p) ==
  /\ pc[p] = "clear"
  /\ Pending(p) = {}
  /\ Again(p)
  /\ UNCHANGED <<files, up, faults>>

-----------------------------------------------------------------------------
\* A process ends between two calls, or dies anywhere.
Stop(p) ==
  /\ up' = up \ {p}
  /\ To(p, "gone")
  /\ self' = [self EXCEPT ![p] = NoRecord]
  /\ attempt' = [attempt EXCEPT ![p] = 0]
  /\ stale' = [stale EXCEPT ![p] = NoRecord]
  /\ slot' = [slot EXCEPT ![p] = 0]
  /\ retries' = [retries EXCEPT ![p] = 0]
  /\ clear' = [clear EXCEPT ![p] = None]
  /\ UNCHANGED files

Exit(p) == p \in up /\ pc[p] = "idle" /\ Stop(p) /\ UNCHANGED faults

Crash(p) ==
  /\ p \in up
  /\ pc[p] # "idle"
  /\ faults < MaxFaults
  /\ faults' = faults + 1
  /\ Stop(p)

-----------------------------------------------------------------------------
Acquire(p) ==
  \/ ReadMissing(p) \/ RereadMissing(p) \/ ReadHeld(p) \/ Create(p) \/ Undo(p)
  \/ ClaimGuard(p) \/ GuardTaken(p) \/ GuardVanished(p) \/ GuardRefuses(p) \/ PassGuard(p)
  \/ CheckLock(p) \/ Unlink(p) \/ ReadGuard(p) \/ RemoveGuard(p) \/ Broken(p)

Give(p)  == Release(p) \/ RemoveLock(p)
Fault(p) == CreateFails(p) \/ ClaimFails(p) \/ Crash(p)

Next == \E p \in Live : Call(p) \/ Acquire(p) \/ Give(p) \/ Exit(p) \/ Fault(p)

Spec == Init /\ [][Next]_vars

\* A command that waits for the profile calls again until it has the lock (withProfileLock);
\* a call and a release run to their end.
FairSpec == Spec /\ \A p \in Live : WF_vars(Call(p) \/ Acquire(p) \/ Give(p))

-----------------------------------------------------------------------------
\* Every part of the state has its type; a process in breakDead looks at a record that is
\* not its own, and remembers no guard but those before the one it is at.
TypeOK ==
  /\ lock \in Record \cup {NoRecord}
  /\ guard \in [Record -> [Slot -> Record \cup {NoRecord}]]
  /\ up \subseteq Live
  /\ pc \in [Live -> {"idle", "read", "reread", "create", "undo", "holds", "release",
                      "guard", "holder", "check", "unlink", "clear", "remove", "gone"}]
  /\ self \in [Live -> Record \cup {NoRecord}]
  /\ attempt \in [Live -> 0 .. MaxAttempts]
  /\ stale \in [Live -> Record \cup {NoRecord}]
  /\ slot \in [Live -> 0 .. MaxGuards + 1]
  /\ retries \in [Live -> 0 .. MaxGuards]
  /\ clear \in [Live -> [Slot -> Record \cup {NoRecord}]]
  /\ faults \in 0 .. MaxFaults
  /\ \A p \in Live : stale[p] # NoRecord => Owner(stale[p]) # p
  /\ \A p \in Live : \A k \in Pending(p) :
       k <= slot[p] /\ (pc[p] \in {"guard", "holder"} => k < slot[p])

\* A command that holds the lock finds its own record in the file until it removes it.
HolderKeepsLock == \A p \in Live : Holding(p) => lock = self[p]

\* No two living commands hold the lock, and it passes from one to the next through a state
\* in which none holds it: the file implements the abstract lock.
Lock == INSTANCE Mutex WITH Client <- Live, holders <- {p \in Live : Holding(p)}
ImplementsMutex == Lock!Spec

\* The lock of a dead command does not stay for ever while others call, whatever they refuse
\* each other: some breaker removes it.  Excepted is a guard whose claim failed in a process
\* that lives on.
Abandoned == \E r \in Record : \E k \in Slot :
  /\ guard[r][k] # NoRecord
  /\ Owner(guard[r][k]) \in up
  /\ self[Owner(guard[r][k])] # guard[r][k]
DeadLockGoes ==
  (lock # NoRecord /\ Dead(lock)) ~> (lock = NoRecord \/ ~Dead(lock) \/ up = {} \/ Abandoned)

\* file-lock.ts says that a release or a break removes only the lock it actually observed.
BreakRemovesObserved ==
  \A p \in Live : pc[p] = "unlink" => lock \in {stale[p], NoRecord}
=============================================================================
