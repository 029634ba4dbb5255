--------------------------- MODULE ProfileLogout ---------------------------
(***************************************************************************)
(* The sign-out of a CLI profile and what finishes it after a crash        *)
(* (packages/cli/src/lib/logout-pending.ts, the logout of                  *)
(* commands/auth.ts, and the logout half of                                *)
(* packages/node-sdk/src/replication/sqlite.ts).                           *)
(*                                                                         *)
(* A sign-out denies the replica gate, removes the credentials and erases  *)
(* the replicas, in that order, each by a durable write of its own, under  *)
(* the profile lock; replica-logout-pending.json (marker), written first,  *)
(* lets the next command finish it.  With --revoke the lock is given back  *)
(* while the node revokes the session, and the marker holds the erase off. *)
(* A command may die, or fail, between any two writes.                     *)
(*                                                                         *)
(* The gate is the one of GateFile, reduced to what a sign-out looks at:   *)
(* its incarnation, its times and its reads are there, not here.  The      *)
(* inventory that a user approves is always what is on disk.               *)
(***************************************************************************)
EXTENDS Naturals

CONSTANTS
  Command,    \* processes that run commands on the profile
  Account,
  None,       \* no account
  MaxLogins,  \* bound on saved sessions
  MaxEpoch,   \* bound on denials
  MaxFaults   \* bound on crashes and failed writes

ASSUME ConstantsAssumption ==
  /\ None \notin Account
  /\ MaxLogins \in Nat /\ MaxEpoch \in Nat /\ MaxFaults \in Nat

VARIABLES
  profile,    \* profile.json: owner, authSignedOut, legacyReplicaCleanup
  key,        \* the account whose key.json is on disk
  session,    \* session.json: its owner, and which sign-in it comes from
  gate,       \* replica-gate.json
  floor,      \* the epoch in replica-deny-floor.json, 0 without one
  data,       \* the accounts with replica files under replication/
  mirror,     \* the legacy mirror under replicas/ exists
  marker,     \* replica-logout-pending.json
  pc,         \* pc[c]: where command c is; it holds the lock when in Locked
  doing,      \* doing[c]: what its section is for
  who,        \* who[c]: the account it signs in or out
  seen,       \* seen[c]: the profile that a sign-in or a revocation started from
  logins, faults,
  overtaken   \* a consent deadline denied the gate under an unbound remote marker

creds    == <<profile, key, session>>
replicas == <<gate, floor, data, mirror>>
files    == <<creds, replicas, marker>>
memory   == <<pc, doing, who, seen>>
vars     == <<files, memory, logins, faults, overtaken>>

-----------------------------------------------------------------------------
AccountOr == Account \cup {None}
NoSession == [for |-> None, login |-> 0]
NoGate    == [exists |-> FALSE, account |-> None, epoch |-> 0, intents |-> {},
              deferred |-> FALSE, deferredFor |-> None]
NoMarker  == [kind |-> "none", for |-> None, epoch |-> 0, bound |-> 0,
              remote |-> FALSE]

\* getSession and getKey: nothing is read from a profile that is signed out.
Session == IF profile.signedOut THEN NoSession ELSE session
Key     == IF profile.signedOut THEN None ELSE key

\* What a command remembers while it does not hold the lock: of a sign-in the credentials,
\* of a revocation the session, and the marker or, without one, the replicas.
Nothing == [profile |-> None]
Credentials == [profile |-> profile, key |-> Key, session |-> Session]
Revocation  == [profile |-> profile, session |-> Session, marker |-> marker,
                replicas |-> IF marker = NoMarker THEN replicas ELSE <<>>]

\* A section of the profile lock, from its first step to its last.
Locked == {"saveSession", "saveProfile", "prepare", "check", "floor", "gate", "bind", "release",
           "flag", "key", "session", "resume", "mirror", "reminder", "erase"}
Free   == \A c \in Command : pc[c] \notin Locked

Turn(c, label) == pc' = [pc EXCEPT ![c] = label]
Go(c, label)   == Turn(c, label) /\ UNCHANGED <<doing, who, seen>>
Stop(c)        == /\ Turn(c, "idle")
                  /\ doing' = [doing EXCEPT ![c] = "nothing"]
                  /\ who' = [who EXCEPT ![c] = None]
                  /\ seen' = [seen EXCEPT ![c] = Nothing]
Fault          == faults < MaxFaults /\ faults' = faults + 1
Enter(c, job, a, label) ==
  /\ Free
  /\ Turn(c, label)
  /\ doing' = [doing EXCEPT ![c] = job]
  /\ who' = [who EXCEPT ![c] = a]

Lagging == gate.epoch < floor
OtherHolds(a) == IF gate.account # None THEN gate.account # a
                                        ELSE gate.deferred /\ gate.deferredFor # a

\* v1Denied: the gate is at the denial that the marker is bound to.
DeniedAt(m, epoch) ==
  /\ gate.account = None
  /\ gate.epoch = epoch
  /\ gate.deferredFor = m.for \/ (~m.remote /\ ~gate.deferred /\ gate.deferredFor = None)

\* The three states in which a marker is accepted.  Its sign-out is fenced ...
Fenced(m) ==
  \/ m.kind = "orphan" /\ ~gate.exists
  \/ /\ m.kind = "inactive" /\ ~Lagging
     /\ gate.account = None /\ ~gate.deferred /\ gate.epoch = m.epoch
  \/ m.kind = "active" /\ m.bound # 0 /\ ~Lagging /\ DeniedAt(m, m.bound)

\* ... or denied, but a crash left the denial unrecorded on the marker ...
Unrecorded(m) ==
  /\ m.kind = "active" /\ m.bound = 0 /\ ~Lagging
  /\ gate.account = None /\ gate.epoch > m.epoch
  /\ IF m.remote THEN gate.deferred /\ gate.deferredFor = m.for
                 ELSE ~gate.deferred /\ gate.deferredFor = None

\* ... or not denied yet, at most up to the floor.
Undenied(m) == m.kind = "active" /\ m.bound = 0 /\ gate.account = m.for /\ gate.epoch = m.epoch

-----------------------------------------------------------------------------
Init ==
  /\ profile = [owner |-> None, signedOut |-> FALSE, cleanup |-> FALSE]
  /\ key = None /\ session = NoSession
  /\ gate = NoGate /\ floor = 0 /\ data = {} /\ mirror = FALSE
  /\ marker = NoMarker
  /\ pc = [c \in Command |-> "idle"]
  /\ doing = [c \in Command |-> "nothing"]
  /\ who = [c \in Command |-> None]
  /\ seen = [c \in Command |-> Nothing]
  /\ logins = 0 /\ faults = 0 /\ overtaken = FALSE

\* recoverPendingLogout finds nothing to do: only then does a command go on to a sign-in.
Recovered ==
  /\ marker = NoMarker
  /\ profile.signedOut => key = None /\ session = NoSession /\ ~profile.cleanup
  /\ gate.intents = {}

\* The profile is read, then the user is asked, without the lock.
SignIn(c, a) ==
  /\ pc[c] = "idle" /\ Recovered /\ logins < MaxLogins
  /\ Turn(c, "approve")
  /\ who' = [who EXCEPT ![c] = a]
  /\ seen' = [seen EXCEPT ![c] = Credentials]
  /\ UNCHANGED <<files, doing, logins, faults, overtaken>>

\* mutant: a sign-out that began meanwhile is not looked for
Unchanged_Marker(c) == /\ profile = seen[c].profile /\ Key = seen[c].key /\ Session = seen[c].session

\* commitLogin: compare, then write key, session and profile.
Unchanged(c) == /\ profile = seen[c].profile /\ Key = seen[c].key /\ Session = seen[c].session
                /\ marker = NoMarker

Commit(c) ==
  /\ pc[c] = "approve" /\ Unchanged(c) /\ logins < MaxLogins
  /\ Enter(c, "login", who[c], "saveSession")
  /\ key' = who[c]
  /\ UNCHANGED <<profile, session, replicas, marker, seen, logins, faults, overtaken>>

SaveSession(c) ==
  /\ pc[c] = "saveSession"
  /\ session' = [for |-> who[c], login |-> logins + 1]
  /\ logins' = logins + 1
  /\ Go(c, "saveProfile")
  /\ UNCHANGED <<profile, key, replicas, marker, faults, overtaken>>

SaveProfile(c) ==
  /\ pc[c] = "saveProfile"
  /\ profile' = [seen[c].profile EXCEPT !.owner = who[c], !.signedOut = FALSE]
  /\ Stop(c)
  /\ UNCHANGED <<key, session, replicas, marker, logins, faults, overtaken>>

\* A failed write: what was read under the lock is put back.
SaveFails(c) ==
  /\ pc[c] \in {"saveSession", "saveProfile"} /\ Fault
  /\ key' = seen[c].key /\ session' = seen[c].session
  /\ Stop(c)
  /\ UNCHANGED <<profile, replicas, marker, logins, overtaken>>

-----------------------------------------------------------------------------
\* mutant: an account is established while an erase is still owed
Establish_Owed(a) ==
  /\ Free /\ marker = NoMarker
  /\ Session.for = a \/ \E c \in Command : pc[c] = "approve" /\ who[c] = a
  /\ ~Lagging /\ ~gate.deferred /\ gate.account = None /\ floor < MaxEpoch
  /\ gate' = [gate EXCEPT !.exists = TRUE, !.account = a, !.deferredFor = None]
  /\ UNCHANGED <<creds, floor, data, mirror, marker, memory, logins, faults, overtaken>>

\* What the replicas do meanwhile.  A host establishes an account that is signed in, or
\* that is signing in, and then fills its replica; none of it under a marker.
Establish(a) ==
  /\ Free /\ marker = NoMarker
  /\ Session.for = a \/ \E c \in Command : pc[c] = "approve" /\ who[c] = a
  /\ ~Lagging /\ ~gate.deferred /\ gate.intents = {} /\ gate.account = None /\ floor < MaxEpoch
  /\ gate' = [gate EXCEPT !.exists = TRUE, !.account = a, !.deferredFor = None]
  /\ UNCHANGED <<creds, floor, data, mirror, marker, memory, logins, faults, overtaken>>

Replicate(a) ==
  /\ Free /\ marker = NoMarker
  /\ gate.account = a /\ ~Lagging
  /\ data' = data \cup {a}
  /\ UNCHANGED <<creds, gate, floor, mirror, marker, memory, logins, faults, overtaken>>

\* `tc replica`: the mirror belongs to the profile, not to an account.
FillMirror ==
  /\ Free /\ marker = NoMarker /\ Session # NoSession
  /\ mirror' = TRUE
  /\ UNCHANGED <<creds, gate, floor, data, marker, memory, logins, faults, overtaken>>

\* startConsentDenial: the deadline of a running host denies its account, marker or not.
ConsentExpires(c) ==
  /\ pc[c] = "idle" /\ gate.account # None
  /\ Enter(c, "expire", gate.account, "floor")
  /\ UNCHANGED <<files, seen, logins, faults, overtaken>>

-----------------------------------------------------------------------------

\* eraseGateIntents of a host, which stops under a marker.
HostErases ==
  /\ Free /\ marker = NoMarker /\ ~Lagging /\ ~gate.deferred
  /\ \E a \in gate.intents :
       data' = data \ {a} /\ gate' = [gate EXCEPT !.intents = @ \ {a}]
  /\ UNCHANGED <<creds, floor, mirror, marker, memory, logins, faults, overtaken>>

-----------------------------------------------------------------------------
\* How a section of the lock begins.

\* recoverPendingLogout, which every command runs first.  A marker is finished unless a
\* revocation is pending, or another account is signed in.
RecoverMarker(c) ==
  /\ marker # NoMarker /\ ~marker.remote
  /\ Session.for \in {None, marker.for}
  /\ Enter(c, "recover", marker.for, "check")

\* mutant: only a key that was left is looked for
RecoverCredentials_KeyOnly(c) ==
  /\ marker = NoMarker
  /\ profile.signedOut /\ key # None
  /\ Enter(c, "clear", None, "flag")

\* Without a marker it finishes a removal of credentials, and then of the mirror.
RecoverCredentials(c) ==
  /\ marker = NoMarker
  /\ profile.signedOut /\ (key # None \/ session # NoSession)
  /\ Enter(c, "clear", None, "flag")

RecoverMirror(c) ==
  /\ marker = NoMarker
  /\ profile.signedOut /\ profile.cleanup /\ key = None /\ session = NoSession
  /\ Enter(c, "clearOther", None, "mirror")

Recover(c) ==
  /\ pc[c] = "idle"
  /\ RecoverMarker(c) \/ RecoverCredentials(c) \/ RecoverMirror(c)
  /\ UNCHANGED <<files, seen, logins, faults, overtaken>>

\* finishProfileLogout for a plain `auth logout`; it gives up a pending revocation.
Logout(c) ==
  LET a == IF Session.for # None THEN Session.for ELSE profile.owner IN
  /\ pc[c] = "idle" /\ a # None
  /\ \/ marker = NoMarker /\ Enter(c, "logout", a, "prepare")
     \/ marker.remote /\ a = marker.for /\ Enter(c, "abandon", a, "check")
     \/ marker # NoMarker /\ ~marker.remote /\ Session.for \in {None, marker.for}
        /\ Enter(c, "recover", marker.for, "check")
  /\ UNCHANGED <<files, seen, logins, faults, overtaken>>

\* prepareProfileRemoteLogout, the first section of `auth logout --revoke`.
Revoke(c) ==
  /\ pc[c] = "idle" /\ Session.for # None
  /\ \/ marker = NoMarker /\ Enter(c, "revoke", Session.for, "prepare")
     \/ marker.remote /\ marker.for = Session.for /\ Enter(c, "revoke", Session.for, "check")
  /\ UNCHANGED <<files, seen, logins, faults, overtaken>>

\* prepareLogoutPending writes no marker when there is nothing to erase, or nothing of
\* this account.
NothingHere ==
  ~mirror /\ (gate.exists => gate.account = None /\ data = {} /\ gate.intents = {})

Unmarked(c) ==
  /\ pc[c] = "prepare"
  /\ OtherHolds(who[c]) \/ (~Lagging /\ NothingHere)
  /\ \/ doing[c] = "revoke" /\ Turn(c, "online") /\ doing' = doing
        /\ seen' = [seen EXCEPT ![c] = Revocation]
     \/ doing[c] = "logout" /\ Turn(c, "flag") /\ seen' = seen
        /\ doing' = [doing EXCEPT ![c] =
             IF OtherHolds(who[c]) \/ profile.cleanup THEN "clearOther" ELSE "clear"]
  /\ UNCHANGED <<files, who, logins, faults, overtaken>>

\* A denial that was interrupted without a marker is completed first.
CompleteDenial(c) ==
  /\ pc[c] = "prepare"
  /\ ~OtherHolds(who[c]) /\ Lagging /\ ~gate.deferred
  /\ Go(c, "floor")
  /\ UNCHANGED <<files, logins, faults, overtaken>>

Mark(c) ==
  /\ pc[c] = "prepare"
  /\ ~OtherHolds(who[c]) /\ ~Lagging /\ ~NothingHere /\ ~gate.deferred
  /\ marker' = [NoMarker EXCEPT
       !.kind = IF ~gate.exists THEN "orphan"
                ELSE IF gate.account = None THEN "inactive" ELSE "active",
       !.for = who[c], !.epoch = gate.epoch, !.remote = (doing[c] = "revoke")]
  /\ doing' = [doing EXCEPT ![c] = IF @ = "logout" THEN "recover" ELSE @]
  /\ Turn(c, "check")
  /\ UNCHANGED <<creds, replicas, who, seen, logins, faults, overtaken>>

-----------------------------------------------------------------------------
\* validatedRemoteMarker and the first half of recoverLogoutPending: on with an accepted
\* marker, denying the gate when that is still to be done, or stop.
AfterFence == [recover |-> "flag", abandon |-> "release", complete |-> "release", revoke |-> "online"]

NeedsDenial(c) ==
  /\ Undenied(marker)
  /\ doing[c] \in {"recover", "revoke"} \/ (doing[c] = "abandon" /\ Lagging)

Check(c) ==
  LET pass   == Fenced(marker) \/ (doing[c] = "abandon" /\ Undenied(marker) /\ ~Lagging)
      record == Unrecorded(marker)
      deny   == NeedsDenial(c)
  IN
  /\ pc[c] = "check"
  /\ \/ pass /\ Turn(c, AfterFence[doing[c]]) /\ UNCHANGED <<doing, who>>
        /\ seen' = IF doing[c] = "revoke" THEN [seen EXCEPT ![c] = Revocation] ELSE seen
     \/ ~pass /\ record /\ Go(c, "bind")
     \/ ~pass /\ ~record /\ deny /\ Go(c, "floor")
     \/ ~pass /\ ~record /\ ~deny /\ Stop(c)
  /\ UNCHANGED <<files, logins, faults, overtaken>>

\* denyGate and advanceInactiveGate: the floor goes first, past both files.
WriteFloor(c) ==
  /\ pc[c] = "floor"
  /\ floor' = (IF floor > gate.epoch THEN floor ELSE gate.epoch) + 1
  /\ Go(c, "gate")
  /\ UNCHANGED <<creds, gate, data, mirror, marker, logins, faults, overtaken>>

\* The erase is put off only for a pending revocation, and only by its own commands.
Defers(c) == doing[c] # "expire" /\ marker.remote

\* mutant: the account of a deferred erase is not kept
DeniedGate_Nobodys(c) ==
  [gate EXCEPT !.account = None, !.epoch = floor, !.intents = @ \cup (data \cap {gate.account}),
               !.deferred = Defers(c), !.deferredFor = None]

\* mutant: a deferred denial leaves the intents to whoever resumes it
DeniedGate_IntentsLater(c) ==
  [gate EXCEPT !.account = None, !.epoch = floor,
               !.intents = IF Defers(c) THEN @ ELSE @ \cup (data \cap {gate.account}),
               !.deferred = Defers(c),
               !.deferredFor = IF Defers(c) THEN gate.account ELSE None]

\* What a denial by command c commits: nobody is active, and all that the account has is
\* to be erased.
DeniedGate(c) ==
  [gate EXCEPT !.account = None, !.epoch = floor,
               !.intents = @ \cup (data \cap {gate.account}),
               !.deferred = Defers(c),
               !.deferredFor = IF Defers(c) THEN gate.account ELSE None]

WriteGate(c) ==
  /\ pc[c] = "gate"
  /\ gate' = IF gate.account = None THEN [gate EXCEPT !.epoch = floor] ELSE DeniedGate(c)
  /\ \/ doing[c] = "expire" /\ Stop(c)
     \/ doing[c] # "expire" /\ Go(c, IF marker = NoMarker THEN "prepare" ELSE "bind")
  /\ overtaken' = (overtaken \/ (doing[c] = "expire" /\ marker.remote /\ Undenied(marker)))
  /\ UNCHANGED <<creds, floor, data, mirror, marker, logins, faults>>

\* mutant: the denial is taken to be the epoch after the marker's
Bind_NextEpoch(c) ==
  /\ pc[c] = "bind"
  /\ marker' = [marker EXCEPT !.bound = marker.epoch + 1]
  /\ Go(c, "check")
  /\ UNCHANGED <<creds, replicas, logins, faults, overtaken>>

\* bindDeniedEpoch
Bind(c) ==
  /\ pc[c] = "bind"
  /\ marker' = [marker EXCEPT !.bound = gate.epoch]
  /\ Go(c, "check")
  /\ UNCHANGED <<creds, replicas, logins, faults, overtaken>>

\* completeRemoteLogout and commitPlainAbandon: the erase is no longer held off.
Release(c) ==
  /\ pc[c] = "release"
  /\ marker' = [marker EXCEPT !.remote = FALSE]
  /\ doing' = [doing EXCEPT ![c] = "recover"]
  /\ Turn(c, "check")
  /\ UNCHANGED <<creds, replicas, who, seen, logins, faults, overtaken>>

\* The node confirms every revocation; before each of them the marker, the gate and the
\* session must still be what they were.
NodeRevokes(c) ==
  /\ pc[c] = "online" /\ Free
  /\ seen[c].marker # NoMarker =>
       marker = seen[c].marker /\ Session = seen[c].session /\ Fenced(marker)
  /\ Go(c, "revoked")
  /\ UNCHANGED <<files, logins, faults, overtaken>>

\* finishProfileLogout after a revocation: for the session that was revoked only.
SameGate(c) ==
  LET m == seen[c].marker IN
  IF m = NoMarker THEN replicas = seen[c].replicas
  ELSE /\ ~Lagging
       /\ IF m.kind = "active" THEN gate.deferred /\ gate.epoch = m.bound ELSE ~gate.deferred

Finish(c) ==
  /\ pc[c] = "revoked"
  /\ profile = seen[c].profile /\ Session = seen[c].session /\ SameGate(c)
  /\ \/ seen[c].marker # NoMarker /\ marker.remote /\ marker.for = who[c]
        /\ Enter(c, "complete", who[c], "check")
     \/ seen[c].marker = NoMarker
        /\ Enter(c, IF profile.cleanup \/ OtherHolds(who[c]) THEN "clearOther" ELSE "clear",
                 who[c], "flag")
  /\ seen' = [seen EXCEPT ![c] = Nothing]
  /\ UNCHANGED <<files, logins, faults, overtaken>>

-----------------------------------------------------------------------------
\* clearProfileCredentials: the signed-out flag is durable before the key and the session
\* go; when one of them stays, the section ends there.
WriteFlag(c) ==
  /\ pc[c] = "flag"
  /\ profile' = [profile EXCEPT !.signedOut = TRUE, !.cleanup = @ \/ doing[c] = "clearOther"]
  /\ Go(c, "key")
  /\ UNCHANGED <<key, session, replicas, marker, logins, faults, overtaken>>

RemoveKey(c) ==
  /\ pc[c] = "key"
  /\ \/ key' = None /\ UNCHANGED faults
     \/ key' = key /\ key # None /\ Fault
  /\ Go(c, "session")
  /\ UNCHANGED <<profile, session, replicas, marker, logins, overtaken>>

\* mutant: the erase goes on although the key could not be removed
RemoveSession_KeyLeft(c) ==
  /\ pc[c] = "session"
  /\ session' = NoSession
  /\ LET held == doing[c] = "recover" /\ marker.kind = "active" /\ gate.deferred
     IN \/ doing[c] = "clear" /\ Stop(c)
        \/ doing[c] # "clear" /\ Go(c, IF held THEN "resume" ELSE "mirror")
  /\ UNCHANGED <<profile, key, replicas, marker, logins, faults, overtaken>>

RemoveSession(c) ==
  /\ pc[c] = "session"
  /\ session' = NoSession
  /\ LET ends == key # None \/ doing[c] = "clear"
         held == doing[c] = "recover" /\ marker.kind = "active" /\ gate.deferred
     IN \/ ends /\ Stop(c)
        \/ ~ends /\ Go(c, IF held THEN "resume" ELSE "mirror")
  /\ UNCHANGED <<profile, key, replicas, marker, logins, faults, overtaken>>

\* resumeDeferredGate
Resume(c) ==
  /\ pc[c] = "resume"
  /\ gate' = [gate EXCEPT !.deferred = FALSE]
  /\ Go(c, "mirror")
  /\ UNCHANGED <<creds, floor, data, mirror, marker, logins, faults, overtaken>>

EraseMirror(c) ==
  /\ pc[c] = "mirror"
  /\ mirror' = FALSE
  /\ Go(c, IF doing[c] = "recover" THEN "erase" ELSE "reminder")
  /\ UNCHANGED <<creds, gate, floor, data, marker, logins, faults, overtaken>>

DropReminder(c) ==
  /\ pc[c] = "reminder"
  /\ profile' = [profile EXCEPT !.cleanup = FALSE]
  /\ Stop(c)
  /\ UNCHANGED <<key, session, replicas, marker, logins, faults, overtaken>>

\* eraseGateIntents: the files of an account, and then its intent.
EraseFiles(c) ==
  /\ pc[c] = "erase" /\ marker.kind # "orphan" /\ gate.intents \subseteq data
  /\ \E a \in gate.intents : data' = data \ {a}
  /\ UNCHANGED <<creds, gate, floor, mirror, marker, memory, logins, faults, overtaken>>

ClearIntent(c) ==
  /\ pc[c] = "erase" /\ marker.kind # "orphan"
  /\ \E a \in gate.intents \ data : gate' = [gate EXCEPT !.intents = @ \ {a}]
  /\ UNCHANGED <<creds, floor, data, mirror, marker, memory, logins, faults, overtaken>>

\* The marker goes when nothing is left.
Unmark(c) ==
  /\ pc[c] = "erase" /\ (marker.kind = "orphan" \/ gate.intents = {})
  /\ marker' = IF data = {} /\ ~mirror THEN NoMarker ELSE marker
  /\ Stop(c)
  /\ UNCHANGED <<creds, replicas, logins, faults, overtaken>>

\* A command dies, or a write of it fails, in a section.
Crash(c) ==
  /\ pc[c] \in Locked /\ Fault
  /\ Stop(c)
  /\ UNCHANGED <<files, logins, overtaken>>

\* The user declines, the profile has changed, the node does not confirm, or the command dies.
GiveUp(c) ==
  /\ pc[c] \in {"approve", "online", "revoked"}
  /\ Stop(c)
  /\ UNCHANGED <<files, logins, faults, overtaken>>

Section(c) ==
  \/ SaveSession(c) \/ SaveProfile(c)
  \/ Unmarked(c) \/ CompleteDenial(c) \/ Mark(c)
  \/ Check(c) \/ WriteFloor(c) \/ WriteGate(c) \/ Bind(c) \/ Release(c)
  \/ WriteFlag(c) \/ RemoveKey(c) \/ RemoveSession(c)
  \/ Resume(c) \/ EraseMirror(c) \/ DropReminder(c)
  \/ EraseFiles(c) \/ ClearIntent(c) \/ Unmark(c)

Next ==
  \/ \E c \in Command :
       \/ \E a \in Account : SignIn(c, a)
       \/ Commit(c) \/ SaveFails(c) \/ ConsentExpires(c)
       \/ Recover(c) \/ Logout(c) \/ Revoke(c) \/ NodeRevokes(c) \/ Finish(c)
       \/ Section(c) \/ Crash(c) \/ GiveUp(c)
  \/ \E a \in Account : Establish(a) \/ Replicate(a)
  \/ FillMirror \/ HostErases

Spec == Init /\ [][Next]_vars

\* A section that runs goes on to its end, a prompt or a request does not last for ever,
\* and the profile is used again: every command begins with recoverPendingLogout.
FairSpec ==
  Spec /\ \A c \in Command : WF_vars(Section(c)) /\ WF_vars(GiveUp(c)) /\ WF_vars(Recover(c))

-----------------------------------------------------------------------------
\* Every part of the state has its type, at most one command is in a section, and a gate
\* that puts its erase off is nobody's and remembers whose it was.
TypeOK ==
  /\ profile \in [owner : AccountOr, signedOut : BOOLEAN, cleanup : BOOLEAN]
  /\ key \in AccountOr
  /\ session \in [for : AccountOr, login : 0 .. MaxLogins]
  /\ gate \in [exists : BOOLEAN, account : AccountOr, epoch : Nat, intents : SUBSET Account,
               deferred : BOOLEAN, deferredFor : AccountOr]
  /\ floor \in Nat /\ data \subseteq Account /\ mirror \in BOOLEAN
  /\ marker \in [kind : {"none", "orphan", "inactive", "active"}, for : AccountOr, epoch : Nat,
                 bound : Nat, remote : BOOLEAN]
  /\ pc \in [Command -> Locked \cup {"idle", "approve", "online", "revoked"}]
  /\ doing \in [Command -> {"nothing", "login", "expire", "logout", "revoke", "recover", "abandon",
                            "complete", "clear", "clearOther"}]
  /\ who \in [Command -> AccountOr]
  /\ logins \in 0 .. MaxLogins /\ faults \in 0 .. MaxFaults /\ overtaken \in BOOLEAN
  /\ gate.deferred => gate.account = None /\ gate.deferredFor # None
  /\ \A c, d \in Command : pc[c] \in Locked /\ pc[d] \in Locked => c = d

\* Whatever crashed where, the marker that is left between two sections is one that the
\* next command, or a plain `auth logout` of its account, accepts: the sign-out is fenced,
\* or its denial can be recorded, or it can be done.  The exception is a consent deadline
\* that passes between the marker and the denial of a revocation, which crashed there.
MarkerAccepted ==
  marker # NoMarker /\ Free /\ ~overtaken =>
    Fenced(marker) \/ Unrecorded(marker) \/ Undenied(marker)

\* While a revocation is pending, the session that a retry needs is there, and so are the
\* replicas: nothing signs the account out, and nobody else is signed in.
PendingRevocationKept ==
  marker.remote =>
    Session.for = marker.for /\ (marker.kind = "active" => gate.intents \subseteq data)

\* Files of an account are on disk only while it is the active one, or an intent to erase
\* them is: no crash leaves files that no sign-out finds.
FilesAccountedFor == data \subseteq gate.intents \cup {gate.account}

\* A marker goes only after the whole sign-out: no credentials, no active account, no
\* intents, no replicas and no mirror are left.
FinishedMeansGone ==
  [][marker # NoMarker /\ marker' = NoMarker =>
       /\ profile'.signedOut /\ key' = None /\ session' = NoSession
       /\ gate'.account = None /\ gate'.intents = {} /\ data' = {} /\ ~mirror']_vars

\* The account that holds the gate is not touched when another one signs out: its files
\* stay, and only its own sign-out or its consent deadline denies it.
OthersLeftAlone ==
  [][\A a \in Account :
       /\ gate.account = a => data \cap {a} \subseteq data'
       /\ gate.account = a /\ gate'.account # a =>
            \E c \in Command : pc[c] = "gate" /\ who[c] = a]_vars

\* A sign-out that was interrupted is finished: one with a marker, unless a revocation is
\* pending, and one without.
Unfinished ==
  \/ marker # NoMarker /\ ~marker.remote
  \/ marker = NoMarker /\ profile.signedOut
     /\ (key # None \/ session # NoSession \/ profile.cleanup)

LogoutFinishes == Unfinished ~> ~Unfinished
=============================================================================
