------------------------- MODULE ProfileLogoutProofs -----------------------
(***************************************************************************)
(* Proofs about the sign-out of a CLI profile, for any commands, accounts  *)
(* and bounds.                                                             *)
(***************************************************************************)
EXTENDS ProfileLogout, TLAPS

\* The types of the records.
ProfileType == [owner : AccountOr, signedOut : BOOLEAN, cleanup : BOOLEAN]
GateType == [exists : BOOLEAN, account : AccountOr, epoch : Nat, intents : SUBSET Account,
             deferred : BOOLEAN, deferredFor : AccountOr]
MarkerType == [kind : {"none", "orphan", "inactive", "active"}, for : AccountOr, epoch : Nat,
               bound : Nat, remote : BOOLEAN]
SessionType == [for : AccountOr, login : 0 .. MaxLogins]

\* What a sign-in remembers has its type.
SeenTyped ==
  /\ DOMAIN seen = Command
  /\ \A c \in Command : pc[c] \in {"approve", "saveSession", "saveProfile"} =>
       /\ who[c] \in Account
       /\ seen[c].profile \in ProfileType /\ seen[c].key \in AccountOr
       /\ seen[c].session \in SessionType

\* The active account owes no erase, without a gate nothing does, and a marker is somebody's.
GateSound ==
  /\ gate.account # None => gate.intents = {}
  /\ ~gate.exists => gate.account = None /\ gate.intents = {}
  /\ marker # NoMarker => marker.for # None

\* recoverLogoutPending accepts the marker.
Accepted == Fenced(marker) \/ Unrecorded(marker) \/ Undenied(marker)

\* A marker is accepted within a section too: no write of one takes it out of that.
AlwaysAccepted == marker # NoMarker /\ ~overtaken => Accepted

\* What a command knows of the marker at each step of a section.
AtMarkerOf(c) ==
  /\ pc[c] = "saveSession" => logins < MaxLogins
  /\ pc[c] = "prepare" => marker = NoMarker /\ who[c] # None /\ doing[c] \in {"logout", "revoke"}
  /\ pc[c] \in {"check", "bind", "release"} =>
       /\ marker # NoMarker /\ marker.for = who[c]
       /\ doing[c] \in {"recover", "abandon", "complete", "revoke"}
  /\ pc[c] = "bind" => Unrecorded(marker)
  /\ pc[c] = "release" => doing[c] \in {"abandon", "complete"} /\ (Fenced(marker) \/ Undenied(marker))
  /\ pc[c] \in {"floor", "gate"} =>
       /\ gate.account # None => gate.account = who[c]
       /\ \/ doing[c] = "expire" /\ gate.account # None
          \/ marker = NoMarker /\ who[c] # None /\ doing[c] \in {"logout", "revoke"}
          \/ /\ marker # NoMarker /\ Undenied(marker) /\ marker.for = who[c]
             /\ doing[c] \in {"recover", "abandon", "complete", "revoke"}
  /\ pc[c] = "gate" => floor > gate.epoch
  /\ pc[c] \in {"flag", "key", "session", "resume", "mirror", "reminder", "erase"} =>
       doing[c] \in {"recover", "clear", "clearOther"}
  /\ pc[c] \in {"flag", "key", "session", "resume", "mirror", "erase"} /\ doing[c] = "recover" =>
       marker # NoMarker /\ Fenced(marker)
  /\ pc[c] \in {"resume", "erase"} => doing[c] = "recover"

AtMarker == \A c \in Command : AtMarkerOf(c)

\* What is gone of the credentials at each step of a section.
AtCredentials ==
  \A c \in Command :
    /\ pc[c] \in {"key", "session", "resume", "mirror", "erase"} /\ doing[c] = "recover" => profile.signedOut
    /\ pc[c] \in {"resume", "mirror", "erase"} /\ doing[c] = "recover" => key = None /\ session = NoSession

\* What a sign-out knows of the session at each step of a section: nobody else signs in
\* under a marker, and only a released sign-out removes the credentials.
AtSessionOf(c) ==
  /\ pc[c] \in {"saveSession", "saveProfile"} => marker = NoMarker
  /\ pc[c] = "prepare" \/ (pc[c] \in {"floor", "gate"} /\ marker = NoMarker /\ doing[c] # "expire") =>
       /\ Session.for # None => who[c] = Session.for
       /\ doing[c] = "revoke" => Session.for # None
  /\ pc[c] \in {"check", "bind", "floor", "gate", "flag", "key", "session", "resume", "mirror", "erase"}
       /\ doing[c] = "recover" => ~marker.remote
  /\ pc[c] \in {"flag", "key", "session", "mirror", "reminder"} /\ doing[c] # "recover" =>
       marker = NoMarker

AtSession == \A c \in Command : AtSessionOf(c)

\* OtherHolds or NothingHere, of replicas that were seen.
NotHers(a, g, d, m) ==
  \/ IF g.account # None THEN g.account # a ELSE g.deferred /\ g.deferredFor # a
  \/ ~m /\ (g.exists => g.account = None /\ d = {} /\ g.intents = {})

\* A revocation without a marker: as long as the session and the replicas are what it saw,
\* nobody has put a marker, for epochs do not come back.
SeenKeptOf(c) ==
  pc[c] \in {"online", "revoked"} /\ seen[c].marker = NoMarker =>
    /\ who[c] # None /\ seen[c].session.for = who[c]
    /\ \E g \in GateType, f \in Nat, d \in SUBSET Account, m \in BOOLEAN :
         /\ seen[c].replicas = <<g, f, d, m>>
         /\ g.epoch <= gate.epoch /\ f <= floor
         /\ NotHers(who[c], g, d, m)
    /\ Session = seen[c].session /\ replicas = seen[c].replicas => marker = NoMarker

SeenKept == \A c \in Command : SeenKeptOf(c)

\* The other commands are outside the lock, and so know nothing.
LEMMA OthersKnowNothing ==
  ASSUME NEW c \in Command, AtMarkerOf(c)', \A d \in Command \ {c} : pc'[d] \notin Locked
  PROVE  AtMarker'
  BY DEF AtMarker, AtMarkerOf, Locked

\* The same of the session.
LEMMA OthersKnowNoSession ==
  ASSUME NEW c \in Command, AtSessionOf(c)', \A d \in Command \ {c} : pc'[d] \notin Locked
  PROVE  AtSession'
  BY DEF AtSession, AtSessionOf, Locked

\* A command that enters a section, or is in one, is alone in that.
LEMMA Exclusive ==
  ASSUME TypeOK, NEW c \in Command,
         Commit(c) \/ SaveFails(c) \/ ConsentExpires(c) \/ Recover(c) \/ Logout(c) \/
         Revoke(c) \/ Finish(c) \/ SaveSession(c) \/ SaveProfile(c) \/ Unmarked(c) \/
         CompleteDenial(c) \/ Mark(c) \/ Check(c) \/ WriteFloor(c) \/ WriteGate(c) \/
         Bind(c) \/ Release(c) \/ WriteFlag(c) \/ RemoveKey(c) \/ RemoveSession(c) \/
         Resume(c) \/ EraseMirror(c) \/ DropReminder(c) \/ EraseFiles(c) \/ ClearIntent(c)
         \/ Unmark(c) \/ Crash(c)
  PROVE  \A d \in Command \ {c} : pc'[d] \notin Locked
  BY DEF TypeOK, Commit, SaveFails, ConsentExpires, Recover, RecoverMarker, RecoverCredentials,
     RecoverMirror, Logout, Revoke, Finish, SaveSession, SaveProfile, Unmarked, CompleteDenial,
     Mark, Check, WriteFloor, WriteGate, Bind, Release, WriteFlag, RemoveKey, RemoveSession,
     Resume, EraseMirror, DropReminder, EraseFiles, ClearIntent, Unmark, Crash, Enter, Free,
     Turn, Go, Stop, memory

\* Every step keeps the types, the exclusion of sections, and what a deferred gate remembers.
LEMMA TypeOKStep ==
  ASSUME TypeOK, SeenTyped, AtMarker, [Next]_vars
  PROVE  TypeOK'
<1> USE ConstantsAssumption
<1>1. ASSUME NEW c \in Command, \E a \in Account : SignIn(c, a) PROVE TypeOK'
  BY <1>1 DEF TypeOK, AccountOr, SignIn, Locked, Turn, files, creds, replicas
<1>2. ASSUME NEW c \in Command, Commit(c) PROVE TypeOK'
  BY <1>2 DEF TypeOK, Commit, Enter, Free, Locked, Turn, replicas
<1>3. ASSUME NEW c \in Command, SaveFails(c) PROVE TypeOK'
  BY <1>3 DEF TypeOK, AccountOr, SeenTyped, SessionType, SaveFails, Turn, Stop, Fault, replicas
<1>4. ASSUME NEW c \in Command, ConsentExpires(c) PROVE TypeOK'
  BY <1>4 DEF TypeOK, ConsentExpires, Enter, Free, Locked, Turn, files, creds, replicas
<1>5. ASSUME NEW c \in Command, Recover(c) PROVE TypeOK'
  BY <1>5 DEF TypeOK, NoSession, NoMarker, Recover, RecoverMarker, RecoverCredentials,
     RecoverMirror, Enter, Free, Locked, Turn, files, creds, replicas
<1>6. ASSUME NEW c \in Command, Logout(c) PROVE TypeOK'
  BY <1>6 DEF TypeOK, NoSession, Session, Logout, Enter, Free, Locked, Turn, files, creds,
     replicas
<1>7. ASSUME NEW c \in Command, Revoke(c) PROVE TypeOK'
  BY <1>7 DEF TypeOK, NoSession, Session, Revoke, Enter, Free, Locked, Turn, files, creds,
     replicas
<1>8. ASSUME NEW c \in Command, NodeRevokes(c) PROVE TypeOK'
  BY <1>8 DEF TypeOK, NodeRevokes, Locked, Turn, Go, files, creds, replicas
<1>9. ASSUME NEW c \in Command, Finish(c) PROVE TypeOK'
  BY <1>9 DEF TypeOK, Finish, Enter, Free, Locked, Turn, files, creds, replicas
<1>10. ASSUME NEW c \in Command, SaveSession(c) PROVE TypeOK'
  BY <1>10 DEF TypeOK, AtMarker, AtMarkerOf, SaveSession, Locked, Turn, Go, replicas
<1>11. ASSUME NEW c \in Command, SaveProfile(c) PROVE TypeOK'
  <2>1. marker' \in MarkerType
    BY <1>11 DEF TypeOK, MarkerType, SaveProfile
  <2>2. gate' \in GateType /\ (gate'.deferred => gate'.account = None /\ gate'.deferredFor # None)
    BY <1>11 DEF TypeOK, GateType, SaveProfile, replicas
  <2>3. profile' \in ProfileType /\ session' \in SessionType
    BY <1>11 DEF TypeOK, SeenTyped, ProfileType, SessionType, SaveProfile
  <2>4. key' \in AccountOr /\ floor' \in Nat /\ data' \subseteq Account /\ mirror' \in BOOLEAN
    BY <1>11 DEF TypeOK, SaveProfile, replicas
  <2>5. logins' \in 0 .. MaxLogins /\ faults' \in 0 .. MaxFaults /\ overtaken' \in BOOLEAN
    BY <1>11 DEF TypeOK, SaveProfile
  <2>6. /\ pc' \in [Command -> Locked \cup {"idle", "approve", "online", "revoked"}]
        /\ \A d, e \in Command : pc'[d] \in Locked /\ pc'[e] \in Locked => d = e
    BY <1>11 DEF TypeOK, SaveProfile, Turn, Stop
  <2>7. /\ doing' \in [Command -> {"nothing", "login", "expire", "logout", "revoke", "recover",
                                   "abandon", "complete", "clear", "clearOther"}]
        /\ who' \in [Command -> AccountOr]
    BY <1>11 DEF TypeOK, AccountOr, SaveProfile, Stop
  <2> QED
    BY <2>1, <2>2, <2>3, <2>4, <2>5, <2>6, <2>7 DEF TypeOK, ProfileType, SessionType, GateType,
       MarkerType
<1>12. ASSUME NEW c \in Command, Unmarked(c) PROVE TypeOK'
  <2>1. marker' \in MarkerType
    BY <1>12 DEF TypeOK, MarkerType, Unmarked, files
  <2>2. gate' \in GateType /\ (gate'.deferred => gate'.account = None /\ gate'.deferredFor # None)
    BY <1>12 DEF TypeOK, GateType, Unmarked, files, replicas
  <2>3. profile' \in ProfileType /\ session' \in SessionType
    BY <1>12 DEF TypeOK, ProfileType, SessionType, Unmarked, files, creds
  <2>4. key' \in AccountOr /\ floor' \in Nat /\ data' \subseteq Account /\ mirror' \in BOOLEAN
    BY <1>12 DEF TypeOK, Unmarked, files, creds, replicas
  <2>5. logins' \in 0 .. MaxLogins /\ faults' \in 0 .. MaxFaults /\ overtaken' \in BOOLEAN
    BY <1>12 DEF TypeOK, Unmarked
  <2>6. /\ pc' \in [Command -> Locked \cup {"idle", "approve", "online", "revoked"}]
        /\ \A d, e \in Command : pc'[d] \in Locked /\ pc'[e] \in Locked => d = e
    BY <1>12 DEF TypeOK, AccountOr, AtMarker, Unmarked, Locked, Turn
  <2>7. /\ doing' \in [Command -> {"nothing", "login", "expire", "logout", "revoke", "recover",
                                   "abandon", "complete", "clear", "clearOther"}]
        /\ who' \in [Command -> AccountOr]
    BY <1>12 DEF TypeOK, Unmarked
  <2> QED
    BY <2>1, <2>2, <2>3, <2>4, <2>5, <2>6, <2>7 DEF TypeOK, ProfileType, SessionType, GateType,
       MarkerType
<1>13. ASSUME NEW c \in Command, CompleteDenial(c) PROVE TypeOK'
  BY <1>13 DEF TypeOK, CompleteDenial, Locked, Turn, Go, files, creds, replicas
<1>14. ASSUME NEW c \in Command, Mark(c) PROVE TypeOK'
  <2>1. marker' \in MarkerType
    BY <1>14 DEF TypeOK, AtMarker, AtMarkerOf, MarkerType, Mark
  <2>2. gate' \in GateType /\ (gate'.deferred => gate'.account = None /\ gate'.deferredFor # None)
    BY <1>14 DEF TypeOK, GateType, Mark, replicas
  <2>3. profile' \in ProfileType /\ session' \in SessionType
    BY <1>14 DEF TypeOK, ProfileType, SessionType, Mark, creds
  <2>4. key' \in AccountOr /\ floor' \in Nat /\ data' \subseteq Account /\ mirror' \in BOOLEAN
    BY <1>14 DEF TypeOK, Mark, creds, replicas
  <2>5. logins' \in 0 .. MaxLogins /\ faults' \in 0 .. MaxFaults /\ overtaken' \in BOOLEAN
    BY <1>14 DEF TypeOK, Mark
  <2>6. /\ pc' \in [Command -> Locked \cup {"idle", "approve", "online", "revoked"}]
        /\ \A d, e \in Command : pc'[d] \in Locked /\ pc'[e] \in Locked => d = e
    BY <1>14 DEF TypeOK, Mark, Locked, Turn
  <2>7. /\ doing' \in [Command -> {"nothing", "login", "expire", "logout", "revoke", "recover",
                                   "abandon", "complete", "clear", "clearOther"}]
        /\ who' \in [Command -> AccountOr]
    BY <1>14 DEF TypeOK, Mark
  <2> QED
    BY <2>1, <2>2, <2>3, <2>4, <2>5, <2>6, <2>7 DEF TypeOK, ProfileType, SessionType, GateType,
       MarkerType
<1>15. ASSUME NEW c \in Command, Check(c) PROVE TypeOK'
  BY <1>15 DEF TypeOK, AccountOr, AtMarker, AtMarkerOf, Check, AfterFence, Locked, Turn, Go,
     Stop, files, creds, replicas
<1>16. ASSUME NEW c \in Command, WriteFloor(c) PROVE TypeOK'
  BY <1>16 DEF TypeOK, WriteFloor, Locked, Turn, Go, creds
<1>17. ASSUME NEW c \in Command, WriteGate(c) PROVE TypeOK'
  <2>1. marker' \in MarkerType
    BY <1>17 DEF TypeOK, MarkerType, WriteGate
  <2>2. gate' \in GateType /\ (gate'.deferred => gate'.account = None /\ gate'.deferredFor # None)
    BY <1>17 DEF TypeOK, AccountOr, GateType, WriteGate, DeniedGate, Defers
  <2>3. profile' \in ProfileType /\ session' \in SessionType
    BY <1>17 DEF TypeOK, ProfileType, SessionType, WriteGate, creds
  <2>4. key' \in AccountOr /\ floor' \in Nat /\ data' \subseteq Account /\ mirror' \in BOOLEAN
    BY <1>17 DEF TypeOK, WriteGate, creds
  <2>5. logins' \in 0 .. MaxLogins /\ faults' \in 0 .. MaxFaults /\ overtaken' \in BOOLEAN
    BY <1>17 DEF TypeOK, WriteGate
  <2>6. /\ pc' \in [Command -> Locked \cup {"idle", "approve", "online", "revoked"}]
        /\ \A d, e \in Command : pc'[d] \in Locked /\ pc'[e] \in Locked => d = e
    BY <1>17 DEF TypeOK, WriteGate, Locked, Turn, Go, Stop
  <2>7. /\ doing' \in [Command -> {"nothing", "login", "expire", "logout", "revoke", "recover",
                                   "abandon", "complete", "clear", "clearOther"}]
        /\ who' \in [Command -> AccountOr]
    BY <1>17 DEF TypeOK, AccountOr, WriteGate, Go, Stop
  <2> QED
    BY <2>1, <2>2, <2>3, <2>4, <2>5, <2>6, <2>7 DEF TypeOK, ProfileType, SessionType, GateType,
       MarkerType
<1>18. ASSUME NEW c \in Command, Bind(c) PROVE TypeOK'
  BY <1>18 DEF TypeOK, Bind, Locked, Turn, Go, creds, replicas
<1>19. ASSUME NEW c \in Command, Release(c) PROVE TypeOK'
  <2>1. marker' \in MarkerType
    BY <1>19 DEF TypeOK, MarkerType, Release
  <2>2. gate' \in GateType /\ (gate'.deferred => gate'.account = None /\ gate'.deferredFor # None)
    BY <1>19 DEF TypeOK, GateType, Release, replicas
  <2>3. profile' \in ProfileType /\ session' \in SessionType
    BY <1>19 DEF TypeOK, ProfileType, SessionType, Release, creds
  <2>4. key' \in AccountOr /\ floor' \in Nat /\ data' \subseteq Account /\ mirror' \in BOOLEAN
    BY <1>19 DEF TypeOK, Release, creds, replicas
  <2>5. logins' \in 0 .. MaxLogins /\ faults' \in 0 .. MaxFaults /\ overtaken' \in BOOLEAN
    BY <1>19 DEF TypeOK, Release
  <2>6. /\ pc' \in [Command -> Locked \cup {"idle", "approve", "online", "revoked"}]
        /\ \A d, e \in Command : pc'[d] \in Locked /\ pc'[e] \in Locked => d = e
    BY <1>19 DEF TypeOK, Release, Locked, Turn
  <2>7. /\ doing' \in [Command -> {"nothing", "login", "expire", "logout", "revoke", "recover",
                                   "abandon", "complete", "clear", "clearOther"}]
        /\ who' \in [Command -> AccountOr]
    BY <1>19 DEF TypeOK, Release
  <2> QED
    BY <2>1, <2>2, <2>3, <2>4, <2>5, <2>6, <2>7 DEF TypeOK, ProfileType, SessionType, GateType,
       MarkerType
<1>20. ASSUME NEW c \in Command, WriteFlag(c) PROVE TypeOK'
  <2>1. marker' \in MarkerType
    BY <1>20 DEF TypeOK, MarkerType, WriteFlag
  <2>2. gate' \in GateType /\ (gate'.deferred => gate'.account = None /\ gate'.deferredFor # None)
    BY <1>20 DEF TypeOK, GateType, WriteFlag, replicas
  <2>3. profile' \in ProfileType /\ session' \in SessionType
    BY <1>20 DEF TypeOK, ProfileType, SessionType, WriteFlag
  <2>4. key' \in AccountOr /\ floor' \in Nat /\ data' \subseteq Account /\ mirror' \in BOOLEAN
    BY <1>20 DEF TypeOK, WriteFlag, replicas
  <2>5. logins' \in 0 .. MaxLogins /\ faults' \in 0 .. MaxFaults /\ overtaken' \in BOOLEAN
    BY <1>20 DEF TypeOK, WriteFlag
  <2>6. /\ pc' \in [Command -> Locked \cup {"idle", "approve", "online", "revoked"}]
        /\ \A d, e \in Command : pc'[d] \in Locked /\ pc'[e] \in Locked => d = e
    BY <1>20 DEF TypeOK, WriteFlag, Locked, Turn, Go
  <2>7. /\ doing' \in [Command -> {"nothing", "login", "expire", "logout", "revoke", "recover",
                                   "abandon", "complete", "clear", "clearOther"}]
        /\ who' \in [Command -> AccountOr]
    BY <1>20 DEF TypeOK, WriteFlag, Go
  <2> QED
    BY <2>1, <2>2, <2>3, <2>4, <2>5, <2>6, <2>7 DEF TypeOK, ProfileType, SessionType, GateType,
       MarkerType
<1>21. ASSUME NEW c \in Command, RemoveKey(c) PROVE TypeOK'
  BY <1>21 DEF TypeOK, AccountOr, RemoveKey, Locked, Turn, Go, Fault, replicas
<1>22. ASSUME NEW c \in Command, RemoveSession(c) PROVE TypeOK'
  BY <1>22 DEF TypeOK, AccountOr, NoSession, RemoveSession, Locked, Turn, Go, Stop, replicas
<1>23. ASSUME NEW c \in Command, Resume(c) PROVE TypeOK'
  <2>1. marker' \in MarkerType
    BY <1>23 DEF TypeOK, MarkerType, Resume
  <2>2. gate' \in GateType /\ (gate'.deferred => gate'.account = None /\ gate'.deferredFor # None)
    BY <1>23 DEF TypeOK, GateType, Resume
  <2>3. profile' \in ProfileType /\ session' \in SessionType
    BY <1>23 DEF TypeOK, ProfileType, SessionType, Resume, creds
  <2>4. key' \in AccountOr /\ floor' \in Nat /\ data' \subseteq Account /\ mirror' \in BOOLEAN
    BY <1>23 DEF TypeOK, Resume, creds
  <2>5. logins' \in 0 .. MaxLogins /\ faults' \in 0 .. MaxFaults /\ overtaken' \in BOOLEAN
    BY <1>23 DEF TypeOK, Resume
  <2>6. /\ pc' \in [Command -> Locked \cup {"idle", "approve", "online", "revoked"}]
        /\ \A d, e \in Command : pc'[d] \in Locked /\ pc'[e] \in Locked => d = e
    BY <1>23 DEF TypeOK, Resume, Locked, Turn, Go
  <2>7. /\ doing' \in [Command -> {"nothing", "login", "expire", "logout", "revoke", "recover",
                                   "abandon", "complete", "clear", "clearOther"}]
        /\ who' \in [Command -> AccountOr]
    BY <1>23 DEF TypeOK, Resume, Go
  <2> QED
    BY <2>1, <2>2, <2>3, <2>4, <2>5, <2>6, <2>7 DEF TypeOK, ProfileType, SessionType, GateType,
       MarkerType
<1>24. ASSUME NEW c \in Command, EraseMirror(c) PROVE TypeOK'
  <2>1. marker' \in MarkerType
    BY <1>24 DEF TypeOK, MarkerType, EraseMirror
  <2>2. gate' \in GateType /\ (gate'.deferred => gate'.account = None /\ gate'.deferredFor # None)
    BY <1>24 DEF TypeOK, GateType, EraseMirror
  <2>3. profile' \in ProfileType /\ session' \in SessionType
    BY <1>24 DEF TypeOK, ProfileType, SessionType, EraseMirror, creds
  <2>4. key' \in AccountOr /\ floor' \in Nat /\ data' \subseteq Account /\ mirror' \in BOOLEAN
    BY <1>24 DEF TypeOK, EraseMirror, creds
  <2>5. logins' \in 0 .. MaxLogins /\ faults' \in 0 .. MaxFaults /\ overtaken' \in BOOLEAN
    BY <1>24 DEF TypeOK, EraseMirror
  <2>6. /\ pc' \in [Command -> Locked \cup {"idle", "approve", "online", "revoked"}]
        /\ \A d, e \in Command : pc'[d] \in Locked /\ pc'[e] \in Locked => d = e
    BY <1>24 DEF TypeOK, EraseMirror, Locked, Turn, Go
  <2>7. /\ doing' \in [Command -> {"nothing", "login", "expire", "logout", "revoke", "recover",
                                   "abandon", "complete", "clear", "clearOther"}]
        /\ who' \in [Command -> AccountOr]
    BY <1>24 DEF TypeOK, EraseMirror, Go
  <2> QED
    BY <2>1, <2>2, <2>3, <2>4, <2>5, <2>6, <2>7 DEF TypeOK, ProfileType, SessionType, GateType,
       MarkerType
<1>25. ASSUME NEW c \in Command, DropReminder(c) PROVE TypeOK'
  <2>1. marker' \in MarkerType
    BY <1>25 DEF TypeOK, MarkerType, DropReminder
  <2>2. gate' \in GateType /\ (gate'.deferred => gate'.account = None /\ gate'.deferredFor # None)
    BY <1>25 DEF TypeOK, GateType, DropReminder, replicas
  <2>3. profile' \in ProfileType /\ session' \in SessionType
    BY <1>25 DEF TypeOK, ProfileType, SessionType, DropReminder
  <2>4. key' \in AccountOr /\ floor' \in Nat /\ data' \subseteq Account /\ mirror' \in BOOLEAN
    BY <1>25 DEF TypeOK, DropReminder, replicas
  <2>5. logins' \in 0 .. MaxLogins /\ faults' \in 0 .. MaxFaults /\ overtaken' \in BOOLEAN
    BY <1>25 DEF TypeOK, DropReminder
  <2>6. /\ pc' \in [Command -> Locked \cup {"idle", "approve", "online", "revoked"}]
        /\ \A d, e \in Command : pc'[d] \in Locked /\ pc'[e] \in Locked => d = e
    BY <1>25 DEF TypeOK, DropReminder, Turn, Stop
  <2>7. /\ doing' \in [Command -> {"nothing", "login", "expire", "logout", "revoke", "recover",
                                   "abandon", "complete", "clear", "clearOther"}]
        /\ who' \in [Command -> AccountOr]
    BY <1>25 DEF TypeOK, AccountOr, DropReminder, Stop
  <2> QED
    BY <2>1, <2>2, <2>3, <2>4, <2>5, <2>6, <2>7 DEF TypeOK, ProfileType, SessionType, GateType,
       MarkerType
<1>26. ASSUME NEW c \in Command, EraseFiles(c) PROVE TypeOK'
  BY <1>26 DEF TypeOK, EraseFiles, creds, memory
<1>27. ASSUME NEW c \in Command, ClearIntent(c) PROVE TypeOK'
  BY <1>27 DEF TypeOK, ClearIntent, creds, memory
<1>28. ASSUME NEW c \in Command, Unmark(c) PROVE TypeOK'
  <2>1. marker' \in MarkerType
    BY <1>28 DEF TypeOK, AccountOr, MarkerType, Unmark, NoMarker
  <2>2. gate' \in GateType /\ (gate'.deferred => gate'.account = None /\ gate'.deferredFor # None)
    BY <1>28 DEF TypeOK, GateType, Unmark, replicas
  <2>3. profile' \in ProfileType /\ session' \in SessionType
    BY <1>28 DEF TypeOK, ProfileType, SessionType, Unmark, creds
  <2>4. key' \in AccountOr /\ floor' \in Nat /\ data' \subseteq Account /\ mirror' \in BOOLEAN
    BY <1>28 DEF TypeOK, Unmark, creds, replicas
  <2>5. logins' \in 0 .. MaxLogins /\ faults' \in 0 .. MaxFaults /\ overtaken' \in BOOLEAN
    BY <1>28 DEF TypeOK, Unmark
  <2>6. /\ pc' \in [Command -> Locked \cup {"idle", "approve", "online", "revoked"}]
        /\ \A d, e \in Command : pc'[d] \in Locked /\ pc'[e] \in Locked => d = e
    BY <1>28 DEF TypeOK, Unmark, Turn, Stop
  <2>7. /\ doing' \in [Command -> {"nothing", "login", "expire", "logout", "revoke", "recover",
                                   "abandon", "complete", "clear", "clearOther"}]
        /\ who' \in [Command -> AccountOr]
    BY <1>28 DEF TypeOK, AccountOr, Unmark, Stop
  <2> QED
    BY <2>1, <2>2, <2>3, <2>4, <2>5, <2>6, <2>7 DEF TypeOK, ProfileType, SessionType, GateType,
       MarkerType
<1>29. ASSUME NEW c \in Command, Crash(c) PROVE TypeOK'
  BY <1>29 DEF TypeOK, AccountOr, Crash, Turn, Stop, Fault, files, creds, replicas
<1>30. ASSUME NEW c \in Command, GiveUp(c) PROVE TypeOK'
  BY <1>30 DEF TypeOK, AccountOr, GiveUp, Locked, Turn, Stop, files, creds, replicas
<1>31. ASSUME NEW a \in Account, Establish(a) PROVE TypeOK'
  <2>1. marker' \in MarkerType
    BY <1>31 DEF TypeOK, MarkerType, Establish
  <2>2. gate' \in GateType /\ (gate'.deferred => gate'.account = None /\ gate'.deferredFor # None)
    BY <1>31 DEF TypeOK, AccountOr, GateType, Establish
  <2>3. profile' \in ProfileType /\ session' \in SessionType
    BY <1>31 DEF TypeOK, ProfileType, SessionType, Establish, creds
  <2>4. key' \in AccountOr /\ floor' \in Nat /\ data' \subseteq Account /\ mirror' \in BOOLEAN
    BY <1>31 DEF TypeOK, Establish, creds
  <2>5. logins' \in 0 .. MaxLogins /\ faults' \in 0 .. MaxFaults /\ overtaken' \in BOOLEAN
    BY <1>31 DEF TypeOK, Establish
  <2>6. /\ pc' \in [Command -> Locked \cup {"idle", "approve", "online", "revoked"}]
        /\ \A d, e \in Command : pc'[d] \in Locked /\ pc'[e] \in Locked => d = e
    BY <1>31 DEF TypeOK, Establish, memory
  <2>7. /\ doing' \in [Command -> {"nothing", "login", "expire", "logout", "revoke", "recover",
                                   "abandon", "complete", "clear", "clearOther"}]
        /\ who' \in [Command -> AccountOr]
    BY <1>31 DEF TypeOK, Establish, memory
  <2> QED
    BY <2>1, <2>2, <2>3, <2>4, <2>5, <2>6, <2>7 DEF TypeOK, ProfileType, SessionType, GateType,
       MarkerType
<1>32. ASSUME NEW a \in Account, Replicate(a) PROVE TypeOK'
  BY <1>32 DEF TypeOK, Replicate, creds, memory
<1>33. CASE FillMirror
  BY <1>33 DEF TypeOK, FillMirror, creds, memory
<1>34. CASE HostErases
  BY <1>34 DEF TypeOK, HostErases, creds, memory
<1>35. CASE UNCHANGED vars
  BY <1>35 DEF TypeOK, vars, files, creds, replicas, memory
<1> QED
  BY <1>1, <1>2, <1>3, <1>4, <1>5, <1>6, <1>7, <1>8, <1>9, <1>10, <1>11, <1>12, <1>13,
  <1>14, <1>15, <1>16, <1>17, <1>18, <1>19, <1>20, <1>21, <1>22, <1>23, <1>24, <1>25,
  <1>26, <1>27, <1>28, <1>29, <1>30, <1>31, <1>32, <1>33, <1>34, <1>35
  DEF Next, Section

\* Every step keeps the gate sound: an establish needs that nothing is owed, a deny owes.
LEMMA GateSoundStep ==
  ASSUME TypeOK, GateSound, AtMarker, [Next]_vars
  PROVE  GateSound'
<1> USE ConstantsAssumption
<1>1. ASSUME NEW c \in Command, (\E a \in Account : SignIn(c, a)) \/ Commit(c) \/
        SaveFails(c) \/ ConsentExpires(c) \/ Recover(c) \/ Logout(c) \/ Revoke(c) \/
        NodeRevokes(c) \/ Finish(c) \/ SaveSession(c) \/ SaveProfile(c) \/ Unmarked(c) \/
        CompleteDenial(c) \/ Check(c) \/ WriteFloor(c) \/ WriteFlag(c) \/ RemoveKey(c) \/
        RemoveSession(c) \/ EraseMirror(c) \/ DropReminder(c) \/ EraseFiles(c) \/ Crash(c)
        \/ GiveUp(c)
      PROVE  GateSound'
  BY <1>1 DEF GateSound, SignIn, Commit, SaveFails, ConsentExpires, Recover, Logout, Revoke,
     NodeRevokes, Finish, SaveSession, SaveProfile, Unmarked, CompleteDenial, Check,
     WriteFloor, WriteFlag, RemoveKey, RemoveSession, EraseMirror, DropReminder, EraseFiles,
     Crash, GiveUp, files, replicas
<1>2. ASSUME NEW c \in Command, Mark(c) PROVE GateSound'
  BY <1>2 DEF GateSound, AtMarker, AtMarkerOf, Mark, replicas
<1>3. ASSUME NEW c \in Command, WriteGate(c) PROVE GateSound'
  BY <1>3 DEF GateSound, WriteGate, DeniedGate
<1>4. ASSUME NEW c \in Command, Bind(c) PROVE GateSound'
  BY <1>4 DEF GateSound, AtMarker, AtMarkerOf, Bind, replicas
<1>5. ASSUME NEW c \in Command, Release(c) PROVE GateSound'
  BY <1>5 DEF GateSound, AtMarker, AtMarkerOf, Release, replicas
<1>6. ASSUME NEW c \in Command, Resume(c) PROVE GateSound'
  BY <1>6 DEF GateSound, Resume
<1>7. ASSUME NEW c \in Command, ClearIntent(c) PROVE GateSound'
  BY <1>7 DEF GateSound, ClearIntent
<1>8. ASSUME NEW c \in Command, Unmark(c) PROVE GateSound'
  BY <1>8 DEF GateSound, Unmark, replicas
<1>9. CASE (\E a \in Account : Replicate(a)) \/ FillMirror \/ UNCHANGED vars
  BY <1>9 DEF GateSound, Replicate, FillMirror, vars, files, replicas
<1>10. ASSUME NEW a \in Account, Establish(a) PROVE GateSound'
  BY <1>10 DEF GateSound, Establish
<1>11. CASE HostErases
  BY <1>11 DEF GateSound, HostErases
<1> QED
  BY <1>1, <1>2, <1>3, <1>4, <1>5, <1>6, <1>7, <1>8, <1>9, <1>10, <1>11
  DEF Next, Section

\* A written marker stays accepted, whatever the step: a deny goes past the epoch that the
\* marker was made at, and only a consent deadline does so without the marker (overtaken).
LEMMA AcceptedStep ==
  ASSUME TypeOK, GateSound, AtMarker, AlwaysAccepted, [Next]_vars
  PROVE  AlwaysAccepted'
<1> USE ConstantsAssumption
<1>1. ASSUME NEW c \in Command, (\E a \in Account : SignIn(c, a)) \/ Commit(c) \/
        SaveFails(c) \/ ConsentExpires(c) \/ Recover(c) \/ Logout(c) \/ Revoke(c) \/
        NodeRevokes(c) \/ Finish(c) \/ SaveSession(c) \/ SaveProfile(c) \/ Unmarked(c) \/
        CompleteDenial(c) \/ Check(c) \/ WriteFlag(c) \/ RemoveKey(c) \/ RemoveSession(c)
        \/ EraseMirror(c) \/ DropReminder(c) \/ EraseFiles(c) \/ Crash(c) \/ GiveUp(c)
      PROVE  AlwaysAccepted'
  BY <1>1 DEF AlwaysAccepted, Accepted, Fenced, Unrecorded, Undenied, DeniedAt, Lagging,
     SignIn, Commit, SaveFails, ConsentExpires, Recover, Logout, Revoke, NodeRevokes, Finish,
     SaveSession, SaveProfile, Unmarked, CompleteDenial, Check, WriteFlag, RemoveKey,
     RemoveSession, EraseMirror, DropReminder, EraseFiles, Crash, GiveUp, files, replicas
<1>2. ASSUME NEW c \in Command, Mark(c) PROVE AlwaysAccepted'
  BY <1>2 DEF AlwaysAccepted, Accepted, Fenced, Undenied, Lagging, NoMarker, OtherHolds, Mark,
     replicas
<1>3. ASSUME NEW c \in Command, WriteFloor(c) PROVE AlwaysAccepted'
  BY <1>3 DEF AtMarker, AtMarkerOf, AlwaysAccepted, Accepted, Fenced, Unrecorded, Undenied,
     DeniedAt, WriteFloor
<1>4. ASSUME NEW c \in Command, WriteGate(c) PROVE AlwaysAccepted'
  <2>1. gate' \in GateType /\ floor > gate.epoch /\ gate'.epoch = floor /\ floor' = floor
    BY <1>4 DEF TypeOK, AccountOr, AtMarker, AtMarkerOf, WriteGate, DeniedGate, Defers,
       GateType
  <2>2. CASE gate.account = None
    BY <1>4, <2>1, <2>2 DEF GateSound, AtMarker, AtMarkerOf, AlwaysAccepted, Undenied,
       WriteGate
  <2>3. CASE gate.account # None
    <3>1. gate' = DeniedGate(c)
      BY <1>4, <2>3 DEF WriteGate
    <3>2. /\ gate'.account = None /\ gate'.deferred = Defers(c)
          /\ gate'.deferredFor = IF Defers(c) THEN gate.account ELSE None
      BY <3>1 DEF DeniedGate, TypeOK
    <3>3. marker # NoMarker /\ ~overtaken => Undenied(marker)
      BY <2>3 DEF AlwaysAccepted, Accepted, GateSound, Fenced, Unrecorded, DeniedAt
    <3>4. marker # NoMarker /\ ~overtaken' => Unrecorded(marker)'
      BY <1>4, <2>1, <2>3, <3>2, <3>3 DEF Unrecorded, Undenied, Lagging, Defers, WriteGate,
         TypeOK
    <3> QED
      BY <1>4, <3>4 DEF AlwaysAccepted, Accepted, WriteGate
  <2> QED
    BY <2>2, <2>3
<1>5. ASSUME NEW c \in Command, Bind(c) PROVE AlwaysAccepted'
  BY <1>5 DEF AtMarker, AtMarkerOf, AlwaysAccepted, Accepted, Fenced, Unrecorded, DeniedAt,
     Lagging, Bind, replicas
<1>6. ASSUME NEW c \in Command, Release(c) PROVE AlwaysAccepted'
  BY <1>6 DEF AtMarker, AtMarkerOf, AlwaysAccepted, Accepted, Fenced, Undenied, DeniedAt,
     Lagging, Release, replicas
<1>7. ASSUME NEW c \in Command, Resume(c) PROVE AlwaysAccepted'
  BY <1>7 DEF AtMarker, AtMarkerOf, AlwaysAccepted, Accepted, Fenced, DeniedAt, Lagging, Resume
<1>8. ASSUME NEW c \in Command, ClearIntent(c) PROVE AlwaysAccepted'
  BY <1>8 DEF AlwaysAccepted, Accepted, Fenced, Unrecorded, Undenied, DeniedAt, Lagging,
     ClearIntent
<1>9. ASSUME NEW c \in Command, Unmark(c) PROVE AlwaysAccepted'
  BY <1>9 DEF AlwaysAccepted, Accepted, Fenced, Unrecorded, Undenied, DeniedAt, Lagging,
     Unmark, replicas
<1>10. CASE (\E a \in Account : Replicate(a)) \/ FillMirror \/ UNCHANGED vars
  BY <1>10 DEF AlwaysAccepted, Accepted, Fenced, Unrecorded, Undenied, DeniedAt, Lagging,
     Replicate, FillMirror, vars, files, replicas
<1>11. ASSUME NEW a \in Account, Establish(a) PROVE AlwaysAccepted'
  BY <1>11 DEF AlwaysAccepted, Establish
<1>12. CASE HostErases
  BY <1>12 DEF AlwaysAccepted, HostErases
<1> QED
  BY <1>1, <1>2, <1>3, <1>4, <1>5, <1>6, <1>7, <1>8, <1>9, <1>10, <1>11, <1>12
  DEF Next, Section

\* A section's command keeps its knowledge of the marker: nobody else writes meanwhile.
LEMMA AtMarkerStep ==
  ASSUME TypeOK, GateSound, AlwaysAccepted, AtMarker, [Next]_vars
  PROVE  AtMarker'
<1> USE ConstantsAssumption
<1>1. ASSUME NEW c \in Command, Commit(c) PROVE AtMarkerOf(c)'
  BY <1>1 DEF AtMarkerOf, Commit, Enter, Turn
<1>2. ASSUME NEW c \in Command, SaveFails(c) PROVE AtMarkerOf(c)'
  BY <1>2 DEF AtMarkerOf, AtMarker, SaveFails, Turn, Stop
<1>3. ASSUME NEW c \in Command, ConsentExpires(c) PROVE AtMarkerOf(c)'
  BY <1>3 DEF TypeOK, AtMarkerOf, ConsentExpires, Enter, Turn, files, replicas
<1>4. ASSUME NEW c \in Command, Recover(c) PROVE AtMarkerOf(c)'
  BY <1>4 DEF TypeOK, AtMarkerOf, Recover, RecoverMarker, RecoverCredentials, RecoverMirror,
     Enter, Turn, files
<1>5. ASSUME NEW c \in Command, Logout(c) PROVE AtMarkerOf(c)'
  BY <1>5 DEF TypeOK, AtMarkerOf, NoMarker, Logout, Enter, Turn, files
<1>6. ASSUME NEW c \in Command, Revoke(c) PROVE AtMarkerOf(c)'
  BY <1>6 DEF TypeOK, AtMarkerOf, NoMarker, Revoke, Enter, Turn, files
<1>7. ASSUME NEW c \in Command, Finish(c) PROVE AtMarkerOf(c)'
  BY <1>7 DEF TypeOK, AtMarkerOf, NoMarker, Finish, Enter, Turn, files
<1>8. ASSUME NEW c \in Command, SaveSession(c) PROVE AtMarkerOf(c)'
  BY <1>8 DEF TypeOK, AtMarkerOf, SaveSession, Turn, Go
<1>9. ASSUME NEW c \in Command, SaveProfile(c) PROVE AtMarkerOf(c)'
  BY <1>9 DEF AtMarkerOf, SaveProfile, Turn, Stop
<1>10. ASSUME NEW c \in Command, Unmarked(c) PROVE AtMarkerOf(c)'
  BY <1>10 DEF TypeOK, AtMarkerOf, Unmarked, Turn
<1>11. ASSUME NEW c \in Command, CompleteDenial(c) PROVE AtMarkerOf(c)'
  BY <1>11 DEF AtMarkerOf, AtMarker, OtherHolds, CompleteDenial, Turn, Go, files, replicas
<1>12. ASSUME NEW c \in Command, Mark(c) PROVE AtMarkerOf(c)'
  BY <1>12 DEF TypeOK, GateSound, AtMarkerOf, AtMarker, NoMarker, Mark, Turn
<1>13. ASSUME NEW c \in Command, Check(c) PROVE AtMarkerOf(c)'
  BY <1>13 DEF TypeOK, AtMarkerOf, AtMarker, Fenced, Unrecorded, Undenied, DeniedAt, Lagging,
     Check, AfterFence, NeedsDenial, Turn, Go, Stop, files, replicas
<1>14. ASSUME NEW c \in Command, WriteFloor(c) PROVE AtMarkerOf(c)'
  BY <1>14 DEF TypeOK, AtMarkerOf, AtMarker, Undenied, WriteFloor, Turn, Go
<1>15. ASSUME NEW c \in Command, WriteGate(c) PROVE AtMarkerOf(c)'
  <2>1. gate' \in GateType /\ floor > gate.epoch /\ gate'.epoch = floor /\ floor' = floor
    BY <1>15 DEF TypeOK, AccountOr, AtMarkerOf, AtMarker, WriteGate, DeniedGate, Defers,
       GateType
  <2>2. /\ pc'[c] = IF doing[c] = "expire" THEN "idle" ELSE IF marker = NoMarker THEN "prepare" ELSE "bind"
        /\ doing[c] # "expire" => doing'[c] = doing[c] /\ who'[c] = who[c]
    BY <1>15 DEF WriteGate, Go, Stop, Turn, TypeOK
  <2>3. doing[c] # "expire" /\ marker # NoMarker => Unrecorded(marker)'
    <3> SUFFICES ASSUME doing[c] # "expire", marker # NoMarker PROVE Unrecorded(marker)'
      OBVIOUS
    <3>1. Undenied(marker) /\ gate.account # None
      BY <1>15 DEF AtMarker, AtMarkerOf, Undenied, WriteGate, GateSound
    <3>2. gate' = DeniedGate(c)
      BY <1>15, <3>1 DEF WriteGate
    <3>3. /\ gate'.account = None /\ gate'.deferred = marker.remote
          /\ gate'.deferredFor = IF marker.remote THEN gate.account ELSE None
      BY <3>2 DEF DeniedGate, TypeOK, Defers
    <3> QED
      BY <1>15, <2>1, <3>1, <3>3 DEF Unrecorded, Undenied, Lagging, WriteGate, TypeOK
  <2> QED
    BY <1>15, <2>2, <2>3 DEF AtMarker, AtMarkerOf, WriteGate
<1>16. ASSUME NEW c \in Command, Bind(c) PROVE AtMarkerOf(c)'
  BY <1>16 DEF TypeOK, AtMarkerOf, AtMarker, Unrecorded, NoMarker, Bind, Turn, Go
<1>17. ASSUME NEW c \in Command, Release(c) PROVE AtMarkerOf(c)'
  BY <1>17 DEF TypeOK, AtMarkerOf, AtMarker, Fenced, Undenied, NoMarker, Release, Turn
<1>18. ASSUME NEW c \in Command, WriteFlag(c) PROVE AtMarkerOf(c)'
  BY <1>18 DEF AtMarkerOf, AtMarker, Fenced, DeniedAt, Lagging, WriteFlag, Turn, Go, replicas
<1>19. ASSUME NEW c \in Command, RemoveKey(c) PROVE AtMarkerOf(c)'
  BY <1>19 DEF AtMarkerOf, AtMarker, Fenced, DeniedAt, Lagging, RemoveKey, Turn, Go, replicas
<1>20. ASSUME NEW c \in Command, RemoveSession(c) PROVE AtMarkerOf(c)'
  BY <1>20 DEF TypeOK, AtMarkerOf, AtMarker, Fenced, DeniedAt, Lagging, RemoveSession, Turn,
     Go, Stop, replicas
<1>21. ASSUME NEW c \in Command, Resume(c) PROVE AtMarkerOf(c)'
  BY <1>21 DEF AtMarkerOf, AtMarker, Fenced, DeniedAt, Lagging, Resume, Turn, Go
<1>22. ASSUME NEW c \in Command, EraseMirror(c) PROVE AtMarkerOf(c)'
  BY <1>22 DEF AtMarkerOf, AtMarker, Fenced, DeniedAt, Lagging, EraseMirror, Turn, Go
<1>23. ASSUME NEW c \in Command, DropReminder(c) PROVE AtMarkerOf(c)'
  BY <1>23 DEF TypeOK, AtMarkerOf, DropReminder, Turn, Stop
<1>24. ASSUME NEW c \in Command, EraseFiles(c) PROVE AtMarkerOf(c)'
  BY <1>24 DEF AtMarkerOf, AtMarker, Fenced, DeniedAt, Lagging, EraseFiles, memory
<1>25. ASSUME NEW c \in Command, ClearIntent(c) PROVE AtMarkerOf(c)'
  BY <1>25 DEF AtMarkerOf, AtMarker, Fenced, DeniedAt, Lagging, ClearIntent, memory
<1>26. ASSUME NEW c \in Command, Unmark(c) PROVE AtMarkerOf(c)'
  BY <1>26 DEF TypeOK, AtMarkerOf, Unmark, Turn, Stop
<1>27. ASSUME NEW c \in Command, Crash(c) PROVE AtMarkerOf(c)'
  BY <1>27 DEF TypeOK, AtMarkerOf, Crash, Turn, Stop
<1>28. ASSUME NEW a \in Account, Establish(a) PROVE AtMarker'
  BY <1>28 DEF AtMarkerOf, AtMarker, Establish, Free, Locked, memory
<1>29. ASSUME NEW a \in Account, Replicate(a) PROVE AtMarker'
  BY <1>29 DEF AtMarkerOf, AtMarker, Replicate, memory
<1>30. CASE FillMirror
  BY <1>30 DEF AtMarkerOf, AtMarker, FillMirror, memory
<1>31. CASE HostErases
  BY <1>31 DEF AtMarkerOf, AtMarker, HostErases, memory
<1>32. CASE UNCHANGED vars
  <2> SUFFICES ASSUME NEW d \in Command PROVE AtMarkerOf(d)'
    BY DEF AtMarker
  <2> AtMarkerOf(d)
    BY DEF AtMarker
  <2> QED
    BY <1>32 DEF AtMarkerOf, Fenced, Unrecorded, Undenied, DeniedAt, Lagging, vars, files,
       replicas, memory
<1>33. ASSUME NEW c \in Command, (\E a \in Account : SignIn(c, a)) \/ NodeRevokes(c) \/ GiveUp(c)
      PROVE  AtMarker'
  <2> SUFFICES ASSUME NEW d \in Command PROVE AtMarkerOf(d)'
    BY DEF AtMarker
  <2> AtMarkerOf(d)
    BY DEF AtMarker
  <2> QED
    BY <1>33 DEF TypeOK, AtMarkerOf, Fenced, Unrecorded, Undenied, DeniedAt, Lagging, SignIn,
       NodeRevokes, GiveUp, Turn, Go, Stop, files, replicas
<1>34. ASSUME NEW c \in Command,
             Commit(c) \/ SaveFails(c) \/ ConsentExpires(c) \/ Recover(c) \/ Logout(c) \/
             Revoke(c) \/ Finish(c) \/ SaveSession(c) \/ SaveProfile(c) \/ Unmarked(c) \/
             CompleteDenial(c) \/ Mark(c) \/ Check(c) \/ WriteFloor(c) \/ WriteGate(c) \/
             Bind(c) \/ Release(c) \/ WriteFlag(c) \/ RemoveKey(c) \/ RemoveSession(c) \/
             Resume(c) \/ EraseMirror(c) \/ DropReminder(c) \/ EraseFiles(c) \/
             ClearIntent(c) \/ Unmark(c) \/ Crash(c)
      PROVE  AtMarker'
  <2>1. AtMarkerOf(c)'
    BY <1>34, <1>1, <1>2, <1>3, <1>4, <1>5, <1>6, <1>7, <1>8, <1>9, <1>10, <1>11, <1>12,
    <1>13, <1>14, <1>15, <1>16, <1>17, <1>18, <1>19, <1>20, <1>21, <1>22, <1>23, <1>24,
    <1>25, <1>26, <1>27
  <2>2. \A d \in Command \ {c} : pc'[d] \notin Locked
    BY <1>34, Exclusive
  <2> QED
    BY <2>1, <2>2, OthersKnowNothing
<1> QED
  BY <1>28, <1>29, <1>30, <1>31, <1>32, <1>33, <1>34
  DEF Next, Section

\* What a sign-in remembers keeps its type.
LEMMA SeenTypedStep ==
  ASSUME TypeOK, SeenTyped, AtMarker, [Next]_vars
  PROVE  SeenTyped'
<1> USE ConstantsAssumption
<1>1. ASSUME NEW c \in Command, SaveFails(c) \/ ConsentExpires(c) \/ Logout(c) \/
        Revoke(c) \/ Finish(c) \/ SaveProfile(c) \/ Unmarked(c) \/ CompleteDenial(c) \/
        Mark(c) \/ WriteFloor(c) \/ WriteGate(c) \/ Bind(c) \/ Release(c) \/ WriteFlag(c)
        \/ RemoveKey(c) \/ RemoveSession(c) \/ Resume(c) \/ EraseMirror(c) \/
        DropReminder(c) \/ EraseFiles(c) \/ ClearIntent(c) \/ Unmark(c) \/ Crash(c) \/
        NodeRevokes(c) \/ GiveUp(c)
      PROVE  SeenTyped'
  BY <1>1 DEF TypeOK, SeenTyped, SaveFails, ConsentExpires, Logout, Revoke, Finish,
     SaveProfile, Unmarked, CompleteDenial, Mark, WriteFloor, WriteGate, Bind, Release,
     WriteFlag, RemoveKey, RemoveSession, Resume, EraseMirror, DropReminder, EraseFiles,
     ClearIntent, Unmark, Crash, NodeRevokes, GiveUp, Enter, Turn, Go, Stop, memory
<1>2. ASSUME NEW c \in Command, \E a \in Account : SignIn(c, a) PROVE SeenTyped'
  BY <1>2 DEF TypeOK, SeenTyped, ProfileType, SessionType, Session, Key, SignIn, Recovered,
     Credentials, Turn
<1>3. ASSUME NEW c \in Command, Commit(c) PROVE SeenTyped'
  BY <1>3 DEF SeenTyped, Commit, Enter, Turn
<1>4. ASSUME NEW c \in Command, Recover(c) PROVE SeenTyped'
  BY <1>4 DEF TypeOK, SeenTyped, Recover, RecoverMarker, RecoverCredentials, RecoverMirror,
     Enter, Turn
<1>5. ASSUME NEW c \in Command, SaveSession(c) PROVE SeenTyped'
  BY <1>5 DEF SeenTyped, SaveSession, Turn, Go
<1>6. ASSUME NEW c \in Command, Check(c) PROVE SeenTyped'
  <2>1. doing[c] \in {"recover", "abandon", "complete", "revoke"}
    BY <1>6 DEF Check, AtMarker, AtMarkerOf
  <2>2. pc'[c] \in {"flag", "release", "online", "bind", "floor", "idle"}
    BY <1>6, <2>1 DEF Check, AfterFence, Turn, Go, Stop, TypeOK
  <2> QED
    BY <1>6, <2>2 DEF TypeOK, SeenTyped, Check, Turn, Go, Stop
<1>7. CASE (\E a \in Account : Establish(a)) \/ (\E a \in Account : Replicate(a)) \/
        FillMirror \/ HostErases \/ UNCHANGED vars
  BY <1>7 DEF SeenTyped, Establish, Replicate, FillMirror, HostErases, vars, memory
<1> QED
  BY <1>1, <1>2, <1>3, <1>4, <1>5, <1>6, <1>7
  DEF Next, Section

\* The credentials go in the order flag, key, session, and none comes back in a section.
LEMMA AtCredentialsStep ==
  ASSUME TypeOK, AtMarker, AtCredentials, [Next]_vars
  PROVE  AtCredentials'
<1> USE ConstantsAssumption
<1>1. ASSUME NEW c \in Command, (\E a \in Account : SignIn(c, a)) \/ NodeRevokes(c) \/
        GiveUp(c) \/ ConsentExpires(c) \/ Recover(c) \/ Logout(c) \/ Revoke(c) \/
        CompleteDenial(c) \/ Bind(c) \/ Crash(c)
      PROVE  AtCredentials'
  BY <1>1 DEF TypeOK, AtCredentials, SignIn, NodeRevokes, GiveUp, ConsentExpires, Recover,
     RecoverMarker, RecoverCredentials, RecoverMirror, Logout, Revoke, CompleteDenial, Bind,
     Crash, Enter, Turn, Go, Stop, files, creds
<1>2. ASSUME NEW c \in Command, Commit(c) PROVE AtCredentials'
  BY <1>2 DEF AtCredentials, Commit, Enter, Free, Locked, Turn
<1>3. ASSUME NEW c \in Command, SaveFails(c) PROVE AtCredentials'
  BY <1>3 DEF TypeOK, AtCredentials, SaveFails, Turn, Stop
<1>4. ASSUME NEW c \in Command, Finish(c) PROVE AtCredentials'
  BY <1>4 DEF TypeOK, AtCredentials, Finish, Enter, Turn, files, creds
<1>5. ASSUME NEW c \in Command, SaveSession(c) PROVE AtCredentials'
  BY <1>5 DEF TypeOK, AtCredentials, SaveSession, Turn, Go
<1>6. ASSUME NEW c \in Command, SaveProfile(c) PROVE AtCredentials'
  BY <1>6 DEF TypeOK, AtCredentials, SaveProfile, Turn, Stop
<1>7. ASSUME NEW c \in Command, Unmarked(c) PROVE AtCredentials'
  BY <1>7 DEF TypeOK, AtCredentials, Unmarked, Turn
<1>8. ASSUME NEW c \in Command, Mark(c) PROVE AtCredentials'
  BY <1>8 DEF AtCredentials, Mark, Turn, creds
<1>9. ASSUME NEW c \in Command, Check(c) PROVE AtCredentials'
  BY <1>9 DEF TypeOK, AtCredentials, Check, AfterFence, Turn, Go, Stop
<1>10. ASSUME NEW c \in Command, WriteFloor(c) PROVE AtCredentials'
  BY <1>10 DEF AtCredentials, WriteFloor, Turn, Go, creds
<1>11. ASSUME NEW c \in Command, WriteGate(c) PROVE AtCredentials'
  BY <1>11 DEF TypeOK, AtCredentials, WriteGate, Turn, Go, Stop
<1>12. ASSUME NEW c \in Command, Release(c) PROVE AtCredentials'
  BY <1>12 DEF AtCredentials, Release, Turn, creds
<1>13. ASSUME NEW c \in Command, WriteFlag(c) PROVE AtCredentials'
  BY <1>13 DEF AtCredentials, WriteFlag, Turn, Go
<1>14. ASSUME NEW c \in Command, RemoveKey(c) PROVE AtCredentials'
  BY <1>14 DEF AtCredentials, RemoveKey, Turn, Go
<1>15. ASSUME NEW c \in Command, RemoveSession(c) PROVE AtCredentials'
  BY <1>15 DEF TypeOK, AtCredentials, RemoveSession, Turn, Go, Stop
<1>16. ASSUME NEW c \in Command, Resume(c) PROVE AtCredentials'
  BY <1>16 DEF AtCredentials, Resume, Turn, Go, creds
<1>17. ASSUME NEW c \in Command, EraseMirror(c) PROVE AtCredentials'
  BY <1>17 DEF AtCredentials, EraseMirror, Turn, Go, creds
<1>18. ASSUME NEW c \in Command, DropReminder(c) PROVE AtCredentials'
  BY <1>18 DEF AtCredentials, DropReminder, Turn, Stop
<1>19. ASSUME NEW c \in Command, EraseFiles(c) PROVE AtCredentials'
  BY <1>19 DEF AtCredentials, EraseFiles, creds, memory
<1>20. ASSUME NEW c \in Command, ClearIntent(c) PROVE AtCredentials'
  BY <1>20 DEF AtCredentials, ClearIntent, creds, memory
<1>21. ASSUME NEW c \in Command, Unmark(c) PROVE AtCredentials'
  BY <1>21 DEF AtCredentials, Unmark, Turn, Stop, creds
<1>22. CASE (\E a \in Account : Establish(a)) \/ (\E a \in Account : Replicate(a)) \/
        FillMirror \/ HostErases \/ UNCHANGED vars
  BY <1>22 DEF AtCredentials, Establish, Replicate, FillMirror, HostErases, vars, files, creds,
     memory
<1> QED
  BY <1>1, <1>2, <1>3, <1>4, <1>5, <1>6, <1>7, <1>8, <1>9, <1>10, <1>11, <1>12, <1>13,
  <1>14, <1>15, <1>16, <1>17, <1>18, <1>19, <1>20, <1>21, <1>22
  DEF Next, Section

\* Files stay accounted for: a deny turns the account's files into an intent.
LEMMA FilesStep ==
  ASSUME TypeOK, AtMarker, FilesAccountedFor, [Next]_vars
  PROVE  FilesAccountedFor'
<1> USE ConstantsAssumption
<1>1. ASSUME NEW c \in Command, (\E a \in Account : SignIn(c, a)) \/ Commit(c) \/
        SaveFails(c) \/ ConsentExpires(c) \/ Recover(c) \/ Logout(c) \/ Revoke(c) \/
        NodeRevokes(c) \/ Finish(c) \/ SaveSession(c) \/ SaveProfile(c) \/ Unmarked(c) \/
        CompleteDenial(c) \/ Mark(c) \/ Check(c) \/ WriteFloor(c) \/ Bind(c) \/ Release(c)
        \/ WriteFlag(c) \/ RemoveKey(c) \/ RemoveSession(c) \/ EraseMirror(c) \/
        DropReminder(c) \/ Unmark(c) \/ Crash(c) \/ GiveUp(c)
      PROVE  FilesAccountedFor'
  BY <1>1 DEF FilesAccountedFor, SignIn, Commit, SaveFails, ConsentExpires, Recover, Logout,
     Revoke, NodeRevokes, Finish, SaveSession, SaveProfile, Unmarked, CompleteDenial, Mark,
     Check, WriteFloor, Bind, Release, WriteFlag, RemoveKey, RemoveSession, EraseMirror,
     DropReminder, Unmark, Crash, GiveUp, files, replicas
<1>2. ASSUME NEW c \in Command, WriteGate(c) PROVE FilesAccountedFor'
  BY <1>2 DEF FilesAccountedFor, WriteGate, DeniedGate
<1>3. ASSUME NEW c \in Command, Resume(c) PROVE FilesAccountedFor'
  BY <1>3 DEF FilesAccountedFor, Resume
<1>4. ASSUME NEW c \in Command, EraseFiles(c) PROVE FilesAccountedFor'
  BY <1>4 DEF FilesAccountedFor, EraseFiles
<1>5. ASSUME NEW c \in Command, ClearIntent(c) PROVE FilesAccountedFor'
  BY <1>5 DEF FilesAccountedFor, ClearIntent
<1>6. CASE FillMirror \/ UNCHANGED vars
  BY <1>6 DEF FilesAccountedFor, FillMirror, vars, files, replicas
<1>7. ASSUME NEW a \in Account, Establish(a) PROVE FilesAccountedFor'
  BY <1>7 DEF TypeOK, FilesAccountedFor, Establish
<1>8. ASSUME NEW a \in Account, Replicate(a) PROVE FilesAccountedFor'
  BY <1>8 DEF FilesAccountedFor, Replicate
<1>9. CASE HostErases
  BY <1>9 DEF FilesAccountedFor, HostErases
<1> QED
  BY <1>1, <1>2, <1>3, <1>4, <1>5, <1>6, <1>7, <1>8, <1>9
  DEF Next, Section

\* A section keeps its knowledge of whose session is saved and whether the marker is remote.
LEMMA AtSessionStep ==
  ASSUME TypeOK, AtMarker, AtCredentials, SeenKept, AtSession, [Next]_vars
  PROVE  AtSession'
<1> USE ConstantsAssumption
<1>1. ASSUME NEW c \in Command, Commit(c) PROVE AtSessionOf(c)'
  BY <1>1 DEF AtSessionOf, Commit, Unchanged, Enter, Turn
<1>2. ASSUME NEW c \in Command, SaveFails(c) PROVE AtSessionOf(c)'
  BY <1>2 DEF AtSessionOf, AtSession, SaveFails, Turn, Stop
<1>3. ASSUME NEW c \in Command, ConsentExpires(c) PROVE AtSessionOf(c)'
  BY <1>3 DEF TypeOK, AtSessionOf, ConsentExpires, Enter, Turn
<1>4. ASSUME NEW c \in Command, Recover(c) PROVE AtSessionOf(c)'
  BY <1>4 DEF TypeOK, AtSessionOf, Recover, RecoverMarker, RecoverCredentials, RecoverMirror,
     Enter, Turn, files
<1>5. ASSUME NEW c \in Command, Logout(c) PROVE AtSessionOf(c)'
  BY <1>5 DEF TypeOK, AtSessionOf, Session, Logout, Enter, Turn, files, creds
<1>6. ASSUME NEW c \in Command, Revoke(c) PROVE AtSessionOf(c)'
  BY <1>6 DEF TypeOK, AtSessionOf, Session, Revoke, Enter, Turn, files, creds
<1>7. ASSUME NEW c \in Command, Finish(c) PROVE AtSessionOf(c)'
  <2>1. /\ seen[c].marker = NoMarker => replicas = seen[c].replicas
        /\ Session = seen[c].session /\ pc[c] = "revoked"
    BY <1>7 DEF Finish, SameGate
  <2>2. seen[c].marker = NoMarker => marker = NoMarker
    BY <2>1 DEF SeenKept, SeenKeptOf
  <2> QED
    BY <1>7, <2>2 DEF TypeOK, AtSessionOf, Finish, Enter, Turn, files
<1>8. ASSUME NEW c \in Command, SaveSession(c) PROVE AtSessionOf(c)'
  BY <1>8 DEF AtSessionOf, AtSession, SaveSession, Turn, Go
<1>9. ASSUME NEW c \in Command, SaveProfile(c) PROVE AtSessionOf(c)'
  BY <1>9 DEF AtSessionOf, AtSession, SaveProfile, Turn, Stop
<1>10. ASSUME NEW c \in Command, Unmarked(c) PROVE AtSessionOf(c)'
  BY <1>10 DEF TypeOK, AtMarker, AtMarkerOf, AtSessionOf, Unmarked, Turn, files
<1>11. ASSUME NEW c \in Command, CompleteDenial(c) PROVE AtSessionOf(c)'
  BY <1>11 DEF AtMarker, AtMarkerOf, AtSessionOf, AtSession, Session, CompleteDenial, Go,
     files, creds
<1>12. ASSUME NEW c \in Command, Mark(c) PROVE AtSessionOf(c)'
  BY <1>12 DEF TypeOK, AtSessionOf, Mark, Turn
<1>13. ASSUME NEW c \in Command, Check(c) PROVE AtSessionOf(c)'
  BY <1>13 DEF TypeOK, AtMarker, AtMarkerOf, AtSessionOf, AtSession, Check, AfterFence, Turn,
     Go, Stop, files
<1>14. ASSUME NEW c \in Command, WriteFloor(c) PROVE AtSessionOf(c)'
  BY <1>14 DEF AtSessionOf, AtSession, Session, WriteFloor, Turn, Go, creds
<1>15. ASSUME NEW c \in Command, WriteGate(c) PROVE AtSessionOf(c)'
  BY <1>15 DEF TypeOK, AtSessionOf, AtSession, Session, WriteGate, Turn, Go, Stop, creds
<1>16. ASSUME NEW c \in Command, Bind(c) PROVE AtSessionOf(c)'
  BY <1>16 DEF AtSessionOf, AtSession, Bind, Turn, Go
<1>17. ASSUME NEW c \in Command, Release(c) PROVE AtSessionOf(c)'
  BY <1>17 DEF AtSessionOf, Release, Turn
<1>18. ASSUME NEW c \in Command, WriteFlag(c) PROVE AtSessionOf(c)'
  BY <1>18 DEF AtSessionOf, AtSession, WriteFlag, Turn, Go
<1>19. ASSUME NEW c \in Command, RemoveKey(c) PROVE AtSessionOf(c)'
  BY <1>19 DEF AtSessionOf, AtSession, RemoveKey, Turn, Go
<1>20. ASSUME NEW c \in Command, RemoveSession(c) PROVE AtSessionOf(c)'
  BY <1>20 DEF TypeOK, AtSessionOf, AtSession, RemoveSession, Turn, Go, Stop
<1>21. ASSUME NEW c \in Command, Resume(c) PROVE AtSessionOf(c)'
  BY <1>21 DEF AtMarker, AtMarkerOf, AtSessionOf, AtSession, Resume, Turn, Go
<1>22. ASSUME NEW c \in Command, EraseMirror(c) PROVE AtSessionOf(c)'
  BY <1>22 DEF AtSessionOf, AtSession, EraseMirror, Turn, Go
<1>23. ASSUME NEW c \in Command, DropReminder(c) PROVE AtSessionOf(c)'
  BY <1>23 DEF TypeOK, AtSessionOf, DropReminder, Turn, Stop
<1>24. ASSUME NEW c \in Command, EraseFiles(c) PROVE AtSessionOf(c)'
  BY <1>24 DEF AtSessionOf, AtSession, EraseFiles, memory
<1>25. ASSUME NEW c \in Command, ClearIntent(c) PROVE AtSessionOf(c)'
  BY <1>25 DEF AtSessionOf, AtSession, ClearIntent, memory
<1>26. ASSUME NEW c \in Command, Unmark(c) PROVE AtSessionOf(c)'
  BY <1>26 DEF AtSessionOf, AtSession, NoMarker, Unmark, Turn, Stop
<1>27. ASSUME NEW c \in Command, Crash(c) PROVE AtSessionOf(c)'
  BY <1>27 DEF TypeOK, AtSessionOf, Crash, Turn, Stop
<1>28. ASSUME NEW a \in Account, Establish(a) PROVE AtSession'
  BY <1>28 DEF AtSessionOf, AtSession, Establish, Free, Locked, memory
<1>29. ASSUME NEW a \in Account, Replicate(a) PROVE AtSession'
  BY <1>29 DEF AtSessionOf, AtSession, Replicate, Free, Locked, memory
<1>30. CASE FillMirror
  BY <1>30 DEF AtSessionOf, AtSession, FillMirror, Free, Locked, memory
<1>31. CASE HostErases
  BY <1>31 DEF AtSessionOf, AtSession, HostErases, Free, Locked, memory
<1>32. CASE UNCHANGED vars
  <2> SUFFICES ASSUME NEW d \in Command PROVE AtSessionOf(d)'
    BY DEF AtSession
  <2> AtSessionOf(d)
    BY DEF AtSession
  <2> QED
    BY <1>32 DEF AtSessionOf, Session, vars, files, creds, memory
<1>33. ASSUME NEW c \in Command, (\E a \in Account : SignIn(c, a)) \/ NodeRevokes(c) \/ GiveUp(c)
      PROVE  AtSession'
  <2> SUFFICES ASSUME NEW d \in Command PROVE AtSessionOf(d)'
    BY DEF AtSession
  <2> AtSessionOf(d)
    BY DEF AtSession
  <2> QED
    BY <1>33 DEF TypeOK, AtSessionOf, Session, SignIn, NodeRevokes, GiveUp, Turn, Go, Stop,
       files, creds
<1>34. ASSUME NEW c \in Command,
             Commit(c) \/ SaveFails(c) \/ ConsentExpires(c) \/ Recover(c) \/ Logout(c) \/
             Revoke(c) \/ Finish(c) \/ SaveSession(c) \/ SaveProfile(c) \/ Unmarked(c) \/
             CompleteDenial(c) \/ Mark(c) \/ Check(c) \/ WriteFloor(c) \/ WriteGate(c) \/
             Bind(c) \/ Release(c) \/ WriteFlag(c) \/ RemoveKey(c) \/ RemoveSession(c) \/
             Resume(c) \/ EraseMirror(c) \/ DropReminder(c) \/ EraseFiles(c) \/
             ClearIntent(c) \/ Unmark(c) \/ Crash(c)
      PROVE  AtSession'
  <2>1. AtSessionOf(c)'
    BY <1>34, <1>1, <1>2, <1>3, <1>4, <1>5, <1>6, <1>7, <1>8, <1>9, <1>10, <1>11, <1>12,
    <1>13, <1>14, <1>15, <1>16, <1>17, <1>18, <1>19, <1>20, <1>21, <1>22, <1>23, <1>24,
    <1>25, <1>26, <1>27
  <2>2. \A d \in Command \ {c} : pc'[d] \notin Locked
    BY <1>34, Exclusive
  <2> QED
    BY <2>1, <2>2, OthersKnowNoSession
<1> QED
  BY <1>28, <1>29, <1>30, <1>31, <1>32, <1>33, <1>34
  DEF Next, Section

\* What a revocation saw before its request to the node still tells, after it, whether a
\* marker was put: every deny moves the epoch.
LEMMA SeenKeptStep ==
  ASSUME TypeOK, SeenTyped, AtMarker, AtSession, AtCredentials, SeenKept, [Next]_vars
  PROVE  SeenKept'
<1> USE ConstantsAssumption
<1>1. ASSUME NEW c \in Command, Commit(c) PROVE SeenKept'
  <2> SUFFICES ASSUME NEW d \in Command PROVE SeenKeptOf(d)'
    BY DEF SeenKept
  <2> SeenKeptOf(d)
    BY DEF SeenKept
  <2> QED
    BY <1>1 DEF SeenKeptOf, Commit, Unchanged, Enter, Turn, replicas
<1>2. ASSUME NEW c \in Command, SaveFails(c) PROVE SeenKept'
  <2> SUFFICES ASSUME NEW d \in Command PROVE SeenKeptOf(d)'
    BY DEF SeenKept
  <2> SeenKeptOf(d)
    BY DEF SeenKept
  <2> QED
    BY <1>2 DEF AtSessionOf, AtSession, SeenKeptOf, SaveFails, Turn, Stop, replicas
<1>3. ASSUME NEW c \in Command, SaveSession(c) PROVE SeenKept'
  <2> SUFFICES ASSUME NEW d \in Command PROVE SeenKeptOf(d)'
    BY DEF SeenKept
  <2> SeenKeptOf(d)
    BY DEF SeenKept
  <2> QED
    BY <1>3 DEF AtSessionOf, AtSession, SeenKeptOf, SaveSession, Turn, Go, replicas
<1>4. ASSUME NEW c \in Command, SaveProfile(c) PROVE SeenKept'
  <2> SUFFICES ASSUME NEW d \in Command PROVE SeenKeptOf(d)'
    BY DEF SeenKept
  <2> SeenKeptOf(d)
    BY DEF SeenKept
  <2> QED
    BY <1>4 DEF AtSessionOf, AtSession, SeenKeptOf, SaveProfile, Turn, Stop, replicas
<1>5. ASSUME NEW c \in Command, Unmarked(c) PROVE SeenKept'
  <2> SUFFICES ASSUME NEW d \in Command PROVE SeenKeptOf(d)'
    BY DEF SeenKept
  <2>0. SeenKeptOf(d)
    BY DEF SeenKept
  <2>1. CASE d = c
    <3>1. /\ UNCHANGED <<profile, session, gate, replicas, floor, data, mirror, marker>>
          /\ pc[c] = "prepare" /\ marker = NoMarker /\ who[c] # None /\ who'[c] = who[c]
      BY <1>5 DEF Unmarked, AtMarker, AtMarkerOf, files, creds, replicas
    <3>2. SUFFICES ASSUME pc'[c] \in {"online", "revoked"} PROVE SeenKeptOf(c)'
      BY <2>1 DEF SeenKeptOf
    <3>3. doing[c] = "revoke" /\ seen'[c] = Revocation
      BY <1>5, <3>2 DEF Unmarked, TypeOK, SeenTyped, Turn
    <3>4. Session.for = who[c]
      BY <3>1, <3>3 DEF AtSession, AtSessionOf
    <3>5. seen'[c].replicas = <<gate, floor, data, mirror>> /\ seen'[c].session = Session
      BY <3>1, <3>3 DEF Revocation, replicas
    <3>6. NotHers(who[c], gate, data, mirror)
      BY <1>5 DEF Unmarked, NotHers, OtherHolds, NothingHere
    <3>7. gate \in GateType /\ floor \in Nat /\ data \in SUBSET Account /\ mirror \in BOOLEAN
          /\ gate.epoch <= gate.epoch
      BY DEF TypeOK, GateType
    <3> QED
      BY <3>1, <3>4, <3>5, <3>6, <3>7 DEF SeenKeptOf
  <2>2. CASE d # c
    <3>1. /\ pc'[d] = pc[d] /\ seen'[d] = seen[d] /\ who'[d] = who[d]
          /\ UNCHANGED <<profile, session, gate, replicas, floor, marker>>
      BY <1>5, <2>2 DEF TypeOK, SeenTyped, Unmarked, Turn, files, creds, replicas
    <3> QED
      BY <2>0, <3>1 DEF SeenKeptOf, NotHers, Session
  <2> QED
    BY <2>1, <2>2
<1>6. ASSUME NEW c \in Command, Mark(c) PROVE SeenKept'
  <2> SUFFICES ASSUME NEW d \in Command PROVE SeenKeptOf(d)'
    BY DEF SeenKept
  <2> SeenKeptOf(d)
    BY DEF SeenKept
  <2> QED
    BY <1>6 DEF AtSessionOf, AtSession, SeenKeptOf, Session, NotHers, OtherHolds, NothingHere,
       Mark, Turn, creds, replicas
<1>7. ASSUME NEW c \in Command, Check(c) PROVE SeenKept'
  <2> SUFFICES ASSUME NEW d \in Command PROVE SeenKeptOf(d)'
    BY DEF SeenKept
  <2>0. SeenKeptOf(d)
    BY DEF SeenKept
  <2>1. CASE d = c
    BY <1>7, <2>1 DEF TypeOK, AtMarker, AtMarkerOf, SeenTyped, SeenKeptOf, Check, AfterFence,
       Revocation, Turn, Go, Stop
  <2>2. CASE d # c
    <3>1. /\ pc'[d] = pc[d] /\ seen'[d] = seen[d] /\ who'[d] = who[d]
          /\ UNCHANGED <<profile, session, gate, replicas, floor, marker>>
      BY <1>7, <2>2 DEF TypeOK, SeenTyped, Check, Turn, Go, Stop, files, creds, replicas
    <3> QED
      BY <2>0, <3>1 DEF SeenKeptOf, NotHers, Session
  <2> QED
    BY <2>1, <2>2
<1>8. ASSUME NEW c \in Command, WriteFloor(c) PROVE SeenKept'
  <2> SUFFICES ASSUME NEW d \in Command PROVE SeenKeptOf(d)'
    BY DEF SeenKept
  <2> SeenKeptOf(d)
    BY DEF SeenKept
  <2> QED
    BY <1>8 DEF TypeOK, SeenKeptOf, WriteFloor, Turn, Go, replicas
<1>9. ASSUME NEW c \in Command, WriteGate(c) PROVE SeenKept'
  <2> SUFFICES ASSUME NEW d \in Command PROVE SeenKeptOf(d)'
    BY DEF SeenKept
  <2>0. SeenKeptOf(d)
    BY DEF SeenKept
  <2>1. CASE d = c
    BY <1>9, <2>1 DEF TypeOK, SeenKeptOf, WriteGate, Turn, Go, Stop
  <2>2. CASE d # c
    <3>1. /\ pc'[d] = pc[d] /\ seen'[d] = seen[d] /\ who'[d] = who[d]
          /\ UNCHANGED <<profile, session, floor, marker>>
      BY <1>9, <2>2 DEF TypeOK, SeenTyped, WriteGate, Turn, Go, Stop, creds
    <3>2. gate' \in GateType /\ floor > gate.epoch /\ gate'.epoch = floor
      BY <1>9 DEF WriteGate, DeniedGate, Defers, TypeOK, GateType, AccountOr, AtMarker,
         AtMarkerOf
    <3>3. ASSUME NEW g \in GateType, NEW f \in Nat, g.epoch <= gate.epoch
          PROVE  g.epoch <= gate'.epoch /\ g # gate'
      BY <3>2, <3>3 DEF TypeOK, GateType
    <3> QED
      BY <2>0, <3>1, <3>3 DEF SeenKeptOf, replicas
  <2> QED
    BY <2>1, <2>2
<1>10. ASSUME NEW c \in Command, Bind(c) PROVE SeenKept'
  <2> SUFFICES ASSUME NEW d \in Command PROVE SeenKeptOf(d)'
    BY DEF SeenKept
  <2> SeenKeptOf(d)
    BY DEF SeenKept
  <2> QED
    BY <1>10 DEF AtMarker, AtMarkerOf, SeenKeptOf, Session, Bind, Turn, Go, creds, replicas
<1>11. ASSUME NEW c \in Command, Release(c) PROVE SeenKept'
  <2> SUFFICES ASSUME NEW d \in Command PROVE SeenKeptOf(d)'
    BY DEF SeenKept
  <2> SeenKeptOf(d)
    BY DEF SeenKept
  <2> QED
    BY <1>11 DEF AtMarker, AtMarkerOf, SeenKeptOf, Session, Release, Turn, creds, replicas
<1>12. ASSUME NEW c \in Command, WriteFlag(c) PROVE SeenKept'
  <2> SUFFICES ASSUME NEW d \in Command PROVE SeenKeptOf(d)'
    BY DEF SeenKept
  <2> SeenKeptOf(d)
    BY DEF SeenKept
  <2> QED
    BY <1>12 DEF NoSession, SeenKeptOf, Session, WriteFlag, Turn, Go, replicas
<1>13. ASSUME NEW c \in Command, RemoveSession(c) PROVE SeenKept'
  <2> SUFFICES ASSUME NEW d \in Command PROVE SeenKeptOf(d)'
    BY DEF SeenKept
  <2>0. SeenKeptOf(d)
    BY DEF SeenKept
  <2>1. UNCHANGED <<gate, replicas, floor, marker>> /\ Session'.for = None
    BY <1>13 DEF RemoveSession, replicas, Session, NoSession
  <2>2. pc'[d] \in {"online", "revoked"} =>
          pc[d] \in {"online", "revoked"} /\ seen'[d] = seen[d] /\ who'[d] = who[d]
    BY <1>13 DEF RemoveSession, TypeOK, SeenTyped, Turn, Go, Stop
  <2> QED
    BY <2>0, <2>1, <2>2 DEF SeenKeptOf, NotHers
<1>14. ASSUME NEW c \in Command, Resume(c) PROVE SeenKept'
  <2> SUFFICES ASSUME NEW d \in Command PROVE SeenKeptOf(d)'
    BY DEF SeenKept
  <2> SeenKeptOf(d)
    BY DEF SeenKept
  <2> QED
    BY <1>14 DEF NoSession, AtMarker, AtMarkerOf, AtCredentials, SeenKeptOf, Session, Resume,
       Turn, Go, creds
<1>15. ASSUME NEW c \in Command, EraseMirror(c) PROVE SeenKept'
  <2> SUFFICES ASSUME NEW d \in Command PROVE SeenKeptOf(d)'
    BY DEF SeenKept
  <2> SeenKeptOf(d)
    BY DEF SeenKept
  <2> QED
    BY <1>15 DEF NoSession, AtSessionOf, AtSession, AtCredentials, SeenKeptOf, Session,
       EraseMirror, Turn, Go, creds
<1>16. ASSUME NEW c \in Command, DropReminder(c) PROVE SeenKept'
  <2> SUFFICES ASSUME NEW d \in Command PROVE SeenKeptOf(d)'
    BY DEF SeenKept
  <2> SeenKeptOf(d)
    BY DEF SeenKept
  <2> QED
    BY <1>16 DEF SeenKeptOf, Session, DropReminder, Turn, Stop, replicas
<1>17. ASSUME NEW c \in Command, EraseFiles(c) PROVE SeenKept'
  <2> SUFFICES ASSUME NEW d \in Command PROVE SeenKeptOf(d)'
    BY DEF SeenKept
  <2> SeenKeptOf(d)
    BY DEF SeenKept
  <2> QED
    BY <1>17 DEF NoSession, AtMarker, AtMarkerOf, AtCredentials, SeenKeptOf, Session,
       EraseFiles, creds, memory
<1>18. ASSUME NEW c \in Command, ClearIntent(c) PROVE SeenKept'
  <2> SUFFICES ASSUME NEW d \in Command PROVE SeenKeptOf(d)'
    BY DEF SeenKept
  <2> SeenKeptOf(d)
    BY DEF SeenKept
  <2> QED
    BY <1>18 DEF NoSession, AtMarker, AtMarkerOf, AtCredentials, SeenKeptOf, Session,
       ClearIntent, creds, memory
<1>19. ASSUME NEW c \in Command, Unmark(c) PROVE SeenKept'
  <2> SUFFICES ASSUME NEW d \in Command PROVE SeenKeptOf(d)'
    BY DEF SeenKept
  <2> SeenKeptOf(d)
    BY DEF SeenKept
  <2> QED
    BY <1>19 DEF AtMarker, AtMarkerOf, SeenTyped, SeenKeptOf, Session, Unmark, Turn, Stop,
       creds, replicas
<1>20. ASSUME NEW a \in Account, Establish(a) PROVE SeenKept'
  <2> SUFFICES ASSUME NEW d \in Command PROVE SeenKeptOf(d)'
    BY DEF SeenKept
  <2> SeenKeptOf(d)
    BY DEF SeenKept
  <2> QED
    BY <1>20 DEF SeenKeptOf, Establish, memory
<1>21. ASSUME NEW a \in Account, Replicate(a) PROVE SeenKept'
  <2> SUFFICES ASSUME NEW d \in Command PROVE SeenKeptOf(d)'
    BY DEF SeenKept
  <2> SeenKeptOf(d)
    BY DEF SeenKept
  <2> QED
    BY <1>21 DEF SeenKeptOf, Replicate, memory
<1>22. CASE FillMirror
  <2> SUFFICES ASSUME NEW d \in Command PROVE SeenKeptOf(d)'
    BY DEF SeenKept
  <2> SeenKeptOf(d)
    BY DEF SeenKept
  <2> QED
    BY <1>22 DEF SeenKeptOf, FillMirror, memory
<1>23. CASE HostErases
  <2> SUFFICES ASSUME NEW d \in Command PROVE SeenKeptOf(d)'
    BY DEF SeenKept
  <2> SeenKeptOf(d)
    BY DEF SeenKept
  <2> QED
    BY <1>23 DEF SeenKeptOf, HostErases, memory
<1>24. CASE UNCHANGED vars
  <2> SUFFICES ASSUME NEW d \in Command PROVE SeenKeptOf(d)'
    BY DEF SeenKept
  <2> SeenKeptOf(d)
    BY DEF SeenKept
  <2> QED
    BY <1>24 DEF SeenKeptOf, Session, vars, files, creds, replicas, memory
<1>25. ASSUME NEW c \in Command,
             (\E a \in Account : SignIn(c, a)) \/ ConsentExpires(c) \/ Recover(c) \/
             Logout(c) \/ Revoke(c) \/ NodeRevokes(c) \/ CompleteDenial(c) \/ Crash(c) \/
             GiveUp(c) \/ Finish(c) \/ RemoveKey(c)
      PROVE  SeenKept'
  <2> SUFFICES ASSUME NEW d \in Command PROVE SeenKeptOf(d)'
    BY DEF SeenKept
  <2>0. SeenKeptOf(d)
    BY DEF SeenKept
  <2>1. UNCHANGED <<profile, session, gate, replicas, floor, marker>>
    BY <1>25 DEF SignIn, ConsentExpires, Recover, Logout, Revoke, NodeRevokes, CompleteDenial,
       Crash, GiveUp, Finish, RemoveKey, files, creds, replicas
  <2>2. pc'[d] \in {"online", "revoked"} =>
          pc[d] \in {"online", "revoked"} /\ seen'[d] = seen[d] /\ who'[d] = who[d]
    BY <1>25 DEF TypeOK, SeenTyped, SignIn, ConsentExpires, Recover, RecoverMarker,
       RecoverCredentials, RecoverMirror, Logout, Revoke, NodeRevokes, CompleteDenial, Crash,
       GiveUp, Finish, RemoveKey, Enter, Turn, Go, Stop
  <2> QED
    BY <2>0, <2>1, <2>2 DEF SeenKeptOf, NotHers, Session
<1> QED
  BY <1>25, <1>1, <1>2, <1>3, <1>4, <1>5, <1>6, <1>7, <1>8, <1>9, <1>10, <1>11, <1>12, <1>13,
  <1>14, <1>15, <1>16, <1>17, <1>18, <1>19, <1>20, <1>21, <1>22, <1>23, <1>24
  DEF Next, Section

\* A pending revocation keeps its session and its files.
LEMMA PendingStep ==
  ASSUME TypeOK, GateSound, AtMarker, AtSession, PendingRevocationKept, [Next]_vars
  PROVE  PendingRevocationKept'
<1> USE ConstantsAssumption
<1>1. ASSUME NEW c \in Command, (\E a \in Account : SignIn(c, a)) \/ ConsentExpires(c) \/
        Recover(c) \/ Logout(c) \/ Revoke(c) \/ NodeRevokes(c) \/ CompleteDenial(c) \/
        Crash(c) \/ GiveUp(c) \/ Finish(c) \/ Unmarked(c) \/ Check(c) \/ WriteFloor(c)
      PROVE  PendingRevocationKept'
  BY <1>1 DEF PendingRevocationKept, Session, SignIn, ConsentExpires, Recover, Logout, Revoke,
     NodeRevokes, CompleteDenial, Crash, GiveUp, Finish, Unmarked, Check, WriteFloor, files,
     creds, replicas
<1>2. ASSUME NEW c \in Command, Commit(c) PROVE PendingRevocationKept'
  BY <1>2 DEF PendingRevocationKept, Session, Commit, replicas
<1>3. ASSUME NEW c \in Command, SaveFails(c) PROVE PendingRevocationKept'
  BY <1>3 DEF AtSessionOf, AtSession, PendingRevocationKept, NoMarker, SaveFails
<1>4. ASSUME NEW c \in Command, SaveSession(c) PROVE PendingRevocationKept'
  BY <1>4 DEF AtSessionOf, AtSession, PendingRevocationKept, NoMarker, SaveSession
<1>5. ASSUME NEW c \in Command, SaveProfile(c) PROVE PendingRevocationKept'
  BY <1>5 DEF AtSessionOf, AtSession, PendingRevocationKept, NoMarker, SaveProfile
<1>6. ASSUME NEW c \in Command, Mark(c) PROVE PendingRevocationKept'
  BY <1>6 DEF GateSound, AtSessionOf, AtSession, PendingRevocationKept, NoMarker, Session,
     Mark, creds, replicas
<1>7. ASSUME NEW c \in Command, WriteGate(c) PROVE PendingRevocationKept'
  BY <1>7 DEF PendingRevocationKept, Session, WriteGate, DeniedGate, creds
<1>8. ASSUME NEW c \in Command, Bind(c) PROVE PendingRevocationKept'
  BY <1>8 DEF PendingRevocationKept, Session, Bind, creds, replicas
<1>9. ASSUME NEW c \in Command, Release(c) PROVE PendingRevocationKept'
  BY <1>9 DEF PendingRevocationKept, Release
<1>10. ASSUME NEW c \in Command, WriteFlag(c) PROVE PendingRevocationKept'
  BY <1>10 DEF AtSessionOf, AtSession, PendingRevocationKept, NoMarker, WriteFlag
<1>11. ASSUME NEW c \in Command, RemoveKey(c) PROVE PendingRevocationKept'
  BY <1>11 DEF PendingRevocationKept, Session, RemoveKey, replicas
<1>12. ASSUME NEW c \in Command, RemoveSession(c) PROVE PendingRevocationKept'
  BY <1>12 DEF AtSessionOf, AtSession, PendingRevocationKept, NoMarker, RemoveSession
<1>13. ASSUME NEW c \in Command, Resume(c) PROVE PendingRevocationKept'
  BY <1>13 DEF PendingRevocationKept, Session, Resume, creds
<1>14. ASSUME NEW c \in Command, EraseMirror(c) PROVE PendingRevocationKept'
  BY <1>14 DEF PendingRevocationKept, Session, EraseMirror, creds
<1>15. ASSUME NEW c \in Command, DropReminder(c) PROVE PendingRevocationKept'
  BY <1>15 DEF PendingRevocationKept, Session, DropReminder, replicas
<1>16. ASSUME NEW c \in Command, EraseFiles(c) PROVE PendingRevocationKept'
  BY <1>16 DEF AtMarker, AtMarkerOf, AtSessionOf, AtSession, PendingRevocationKept, EraseFiles
<1>17. ASSUME NEW c \in Command, ClearIntent(c) PROVE PendingRevocationKept'
  BY <1>17 DEF PendingRevocationKept, Session, ClearIntent, creds
<1>18. ASSUME NEW c \in Command, Unmark(c) PROVE PendingRevocationKept'
  BY <1>18 DEF PendingRevocationKept, NoMarker, Session, Unmark, creds, replicas
<1>19. ASSUME NEW a \in Account, Establish(a) PROVE PendingRevocationKept'
  BY <1>19 DEF PendingRevocationKept, NoMarker, Establish
<1>20. ASSUME NEW a \in Account, Replicate(a) PROVE PendingRevocationKept'
  BY <1>20 DEF PendingRevocationKept, NoMarker, Replicate
<1>21. CASE FillMirror
  BY <1>21 DEF PendingRevocationKept, Session, FillMirror, creds
<1>22. CASE HostErases
  BY <1>22 DEF PendingRevocationKept, NoMarker, HostErases
<1>23. CASE UNCHANGED vars
  BY <1>23 DEF PendingRevocationKept, Session, vars, files, creds, replicas
<1> QED
  BY <1>1, <1>2, <1>3, <1>4, <1>5, <1>6, <1>7, <1>8, <1>9, <1>10, <1>11, <1>12, <1>13,
  <1>14, <1>15, <1>16, <1>17, <1>18, <1>19, <1>20, <1>21, <1>22, <1>23
  DEF Next, Section

\* The step of FinishedMeansGone.
Gone ==
  marker # NoMarker /\ marker' = NoMarker =>
    /\ profile'.signedOut /\ key' = None /\ session' = NoSession
    /\ gate'.account = None /\ gate'.intents = {} /\ data' = {} /\ ~mirror'

\* A step that removes the marker finds everything gone.
LEMMA UnmarkMeansGone ==
  ASSUME TypeOK, GateSound, AtMarker, AtCredentials, [Next]_vars
  PROVE  Gone
<1> USE ConstantsAssumption
<1>1. ASSUME NEW c \in Command, (\E a \in Account : SignIn(c, a)) \/ Commit(c) \/
        SaveFails(c) \/ ConsentExpires(c) \/ Recover(c) \/ Logout(c) \/ Revoke(c) \/
        NodeRevokes(c) \/ Finish(c) \/ SaveSession(c) \/ SaveProfile(c) \/ Unmarked(c) \/
        CompleteDenial(c) \/ Check(c) \/ WriteFloor(c) \/ WriteGate(c) \/ WriteFlag(c) \/
        RemoveKey(c) \/ RemoveSession(c) \/ Resume(c) \/ EraseMirror(c) \/ DropReminder(c)
        \/ EraseFiles(c) \/ ClearIntent(c) \/ Crash(c) \/ GiveUp(c)
      PROVE  Gone
  BY <1>1 DEF Gone, SignIn, Commit, SaveFails, ConsentExpires, Recover, Logout, Revoke,
     NodeRevokes, Finish, SaveSession, SaveProfile, Unmarked, CompleteDenial, Check,
     WriteFloor, WriteGate, WriteFlag, RemoveKey, RemoveSession, Resume, EraseMirror,
     DropReminder, EraseFiles, ClearIntent, Crash, GiveUp, files
<1>2. ASSUME NEW c \in Command, Mark(c) PROVE Gone
  BY <1>2 DEF Gone, AtMarker, AtMarkerOf, Mark
<1>3. ASSUME NEW c \in Command, Bind(c) PROVE Gone
  BY <1>3 DEF Gone, GateSound, NoMarker, Bind
<1>4. ASSUME NEW c \in Command, Release(c) PROVE Gone
  BY <1>4 DEF Gone, GateSound, NoMarker, Release
<1>5. ASSUME NEW c \in Command, Unmark(c) PROVE Gone
  <2> SUFFICES ASSUME marker # NoMarker, marker' = NoMarker PROVE Gone
    BY DEF Gone
  <2>1. /\ data = {} /\ ~mirror /\ UNCHANGED <<profile, key, session, gate, data, mirror>>
        /\ pc[c] = "erase" /\ (marker.kind = "orphan" \/ gate.intents = {})
    BY <1>5 DEF Unmark, creds, replicas
  <2>2. doing[c] = "recover" /\ Fenced(marker)
    BY <2>1 DEF AtMarker, AtMarkerOf
  <2>3. gate.account = None /\ gate.intents = {}
    BY <2>1, <2>2 DEF Fenced, DeniedAt, GateSound
  <2>4. profile.signedOut /\ key = None /\ session = NoSession
    BY <2>1, <2>2 DEF AtCredentials
  <2> QED
    BY <2>1, <2>3, <2>4 DEF Gone
<1>6. CASE (\E a \in Account : Establish(a)) \/ (\E a \in Account : Replicate(a)) \/
        FillMirror \/ HostErases \/ UNCHANGED vars
  BY <1>6 DEF Gone, Establish, Replicate, FillMirror, HostErases, vars, files
<1> QED
  BY <1>1, <1>2, <1>3, <1>4, <1>5, <1>6
  DEF Next, Section

\* The step of OthersLeftAlone, for one account.
LeftAlone(a) ==
  /\ gate.account = a => data \cap {a} \subseteq data'
  /\ gate.account = a /\ gate'.account # a => \E c \in Command : pc[c] = "gate" /\ who[c] = a

\* A step denies the account of the gate only as its own sign-out, and erases only what is owed.
LEMMA StepLeavesAlone ==
  ASSUME TypeOK, GateSound, AtMarker, NEW b \in Account, [Next]_vars
  PROVE  LeftAlone(b)
<1> USE ConstantsAssumption
<1>1. ASSUME NEW c \in Command, (\E a \in Account : SignIn(c, a)) \/ Commit(c) \/
        SaveFails(c) \/ ConsentExpires(c) \/ Recover(c) \/ Logout(c) \/ Revoke(c) \/
        NodeRevokes(c) \/ Finish(c) \/ SaveSession(c) \/ SaveProfile(c) \/ Unmarked(c) \/
        CompleteDenial(c) \/ Mark(c) \/ Check(c) \/ WriteFloor(c) \/ Bind(c) \/ Release(c)
        \/ WriteFlag(c) \/ RemoveKey(c) \/ RemoveSession(c) \/ EraseMirror(c) \/
        DropReminder(c) \/ Unmark(c) \/ Crash(c) \/ GiveUp(c)
      PROVE  LeftAlone(b)
  BY <1>1 DEF LeftAlone, SignIn, Commit, SaveFails, ConsentExpires, Recover, Logout, Revoke,
     NodeRevokes, Finish, SaveSession, SaveProfile, Unmarked, CompleteDenial, Mark, Check,
     WriteFloor, Bind, Release, WriteFlag, RemoveKey, RemoveSession, EraseMirror, DropReminder,
     Unmark, Crash, GiveUp, files, replicas
<1>2. ASSUME NEW c \in Command, WriteGate(c) PROVE LeftAlone(b)
  BY <1>2 DEF AtMarker, AtMarkerOf, LeftAlone, WriteGate
<1>3. ASSUME NEW c \in Command, Resume(c) PROVE LeftAlone(b)
  BY <1>3 DEF LeftAlone, Resume
<1>4. ASSUME NEW c \in Command, EraseFiles(c) PROVE LeftAlone(b)
  BY <1>4 DEF GateSound, LeftAlone, EraseFiles
<1>5. ASSUME NEW c \in Command, ClearIntent(c) PROVE LeftAlone(b)
  BY <1>5 DEF LeftAlone, ClearIntent
<1>6. CASE FillMirror \/ UNCHANGED vars
  BY <1>6 DEF LeftAlone, FillMirror, vars, files, replicas
<1>7. ASSUME NEW a \in Account, Establish(a) PROVE LeftAlone(b)
  BY <1>7 DEF LeftAlone, Establish
<1>8. ASSUME NEW a \in Account, Replicate(a) PROVE LeftAlone(b)
  BY <1>8 DEF LeftAlone, Replicate
<1>9. CASE HostErases
  BY <1>9 DEF GateSound, LeftAlone, HostErases
<1> QED
  BY <1>1, <1>2, <1>3, <1>4, <1>5, <1>6, <1>7, <1>8, <1>9
  DEF Next, Section

\* The inductive invariant.
Inv ==
  /\ TypeOK /\ SeenTyped /\ GateSound /\ AlwaysAccepted /\ AtMarker /\ AtCredentials
  /\ AtSession /\ SeenKept /\ FilesAccountedFor /\ PendingRevocationKept

\* The invariant holds of a profile that was never used.
LEMMA InvInit == Init => Inv
<1> SUFFICES ASSUME Init PROVE Inv
  OBVIOUS
<1> USE ConstantsAssumption DEF Init
<1>1. TypeOK
  <2>1. profile \in ProfileType /\ key \in AccountOr /\ mirror \in BOOLEAN
    BY DEF ProfileType, AccountOr
  <2>2. session \in SessionType
    BY DEF SessionType, NoSession, AccountOr
  <2>3. gate \in GateType /\ gate.deferred = FALSE
    BY DEF GateType, NoGate, AccountOr
  <2>4. marker \in MarkerType
    BY DEF MarkerType, NoMarker, AccountOr
  <2>5. floor \in Nat /\ data \subseteq Account
    OBVIOUS
  <2>6. pc \in [Command -> Locked \cup {"idle", "approve", "online", "revoked"}]
        /\ \A c \in Command : pc[c] \notin Locked
    BY DEF Locked
  <2>7. /\ doing \in [Command -> {"nothing", "login", "expire", "logout", "revoke", "recover",
                                  "abandon", "complete", "clear", "clearOther"}]
        /\ who \in [Command -> AccountOr]
    BY DEF AccountOr
  <2>8. logins \in 0 .. MaxLogins /\ faults \in 0 .. MaxFaults
    OBVIOUS
  <2>9. overtaken \in BOOLEAN
    OBVIOUS
  <2> QED
    BY <2>1, <2>2, <2>3, <2>4, <2>5, <2>6, <2>7, <2>8, <2>9
    DEF TypeOK, ProfileType, SessionType, GateType, MarkerType
<1>2. SeenTyped /\ GateSound /\ AlwaysAccepted
  BY DEF SeenTyped, GateSound, AlwaysAccepted, NoGate
<1>3. AtMarker /\ AtCredentials /\ AtSession /\ SeenKept
  BY DEF AtMarker, AtMarkerOf, AtCredentials, AtSession, AtSessionOf, SeenKept, SeenKeptOf
<1>4. FilesAccountedFor /\ PendingRevocationKept
  BY DEF FilesAccountedFor, PendingRevocationKept, NoMarker
<1> QED
  BY <1>1, <1>2, <1>3, <1>4 DEF Inv

\* Every step keeps it.
LEMMA InvStep == Inv /\ [Next]_vars => Inv'
  BY TypeOKStep, SeenTypedStep, GateSoundStep, AcceptedStep, AtMarkerStep, AtCredentialsStep,
     AtSessionStep, SeenKeptStep, FilesStep, PendingStep DEF Inv

\* It holds always.
LEMMA Invariant == Spec => []Inv
  BY InvInit, InvStep, PTL DEF Spec

\* Every part of the state has its type; at most one command is in a section of the profile
\* lock, and a gate that puts its erase off (deferGateErase) is nobody's and remembers whose.
THEOREM TypeCorrect == Spec => []TypeOK
<1>1. Inv => TypeOK
  BY DEF Inv
<1> QED
  BY <1>1, Invariant, PTL

\* However sign-ins, sign-outs, retries and hosts interleave, and wherever a command dies, the
\* marker left behind is one that recoverLogoutPending accepts: logout-pending.ts never refuses
\* its own file, unless a consent deadline overtook a revocation that died.
THEOREM EveryMarkerAccepted == Spec => []MarkerAccepted
<1>1. Inv => MarkerAccepted
  BY DEF Inv, AlwaysAccepted, Accepted, MarkerAccepted
<1> QED
  BY <1>1, Invariant, PTL

\* As long as a marker waits for the node to revoke, the session that the retry of
\* `auth logout --revoke` needs stays saved, and the replicas it promised to keep stay on disk.
THEOREM RevocationKept == Spec => []PendingRevocationKept
<1>1. Inv => PendingRevocationKept
  BY DEF Inv
<1> QED
  BY <1>1, Invariant, PTL

\* No crash between a deny, its intents and the erasures leaves files of an account that
\* neither is active nor has an intent: eraseGateIntents finds all there is to erase.
THEOREM NoFilesLost == Spec => []FilesAccountedFor
<1>1. Inv => FilesAccountedFor
  BY DEF Inv
<1> QED
  BY <1>1, Invariant, PTL

\* Only the end of a whole sign-out removes the marker: recovery never gives up half-way.
THEOREM NothingIsLeft == Spec => FinishedMeansGone
<1>1. Inv /\ [Next]_vars => Gone
  BY UnmarkMeansGone DEF Inv
<1>2. Spec => [][Gone]_vars
  BY <1>1, Invariant, PTL DEF Spec
<1> QED
  BY <1>2, PTL DEF FinishedMeansGone, Gone

\* The account that holds the gate keeps its files and its gate when a command signs out
\* another account, recovers another's marker or erases what is owed.
THEOREM NobodyElseIsTouched == Spec => OthersLeftAlone
<1>1. Inv /\ [Next]_vars => \A a \in Account : LeftAlone(a)
  BY StepLeavesAlone DEF Inv
<1>2. Spec => [][\A a \in Account : LeftAlone(a)]_vars
  BY <1>1, Invariant, PTL DEF Spec
<1> QED
  BY <1>2, PTL DEF OthersLeftAlone, LeftAlone
=============================================================================
