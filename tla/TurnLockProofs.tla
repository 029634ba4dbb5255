--------------------------- MODULE TurnLockProofs ---------------------------
(***************************************************************************)
(* Proofs about the turn lock of a profile, for any callers, processes and *)
(* bounds.                                                                 *)
(***************************************************************************)
EXTENDS TurnLock, TLAPS

\* Tokens are published in order; held and done are said of a turn for good.
Published(t) == t <= issued
Held(t) == turn[t].held
Gone(t) == turn[t].place = "gone"
Here1(t) == turn[t].place = "here"

TokensInOrder ==
  \A t \in Token : IF Published(t) THEN turn[t].place \in {"here", "gone"}
                                   ELSE turn[t] = Unpublished

OnePerSlot ==
  \A s, t \in Token : Here1(s) /\ Here1(t) /\ turn[s].slot = turn[t].slot => s = t

\* A turn is published only after one that was granted and is done.
FollowsFinished ==
  \A t \in Token : Published(t) =>
    IF turn[t].after = NoTurn THEN turn[t].slot = 0 /\ Held(t) /\ turn[t].done
    ELSE LET a == turn[t].after IN Held(a) /\ turn[a].done /\ turn[t].slot = turn[a].slot + 1

\* A granted turn that is done, at number n.
DoneAt(n) == \E u \in Token : Held(u) /\ turn[u].done /\ turn[u].slot = n

\* Granted turns: one for each number up to the last, and all done but the last.
HeldInOrder ==
  /\ \A s, t \in Token : Held(s) /\ Held(t) /\ turn[s].slot = turn[t].slot => s = t
  /\ \A t \in Token : Held(t) => \A n \in Nat : n < turn[t].slot => DoneAt(n)

\* The granted turns below n are gone.
GoneBelow(n) == \A u \in Token : Held(u) /\ turn[u].slot < n => Gone(u)

\* The granted turn at n is gone.
ClosedAt(n) == \E u \in Token : Held(u) /\ Gone(u) /\ turn[u].slot = n

\* A granted turn is removed after those before it, once the next one is done.
RemovedInOrder ==
  \A u \in Token : Held(u) /\ Gone(u) => GoneBelow(turn[u].slot) /\ DoneAt(turn[u].slot + 1)

\* A turn that was not granted is removed or voided only where another one was granted.
UnheldHasRival ==
  \A t \in Token : ~Held(t) =>
    /\ Gone(t) => ClosedAt(turn[t].slot)
    /\ turn[t].done => DoneAt(turn[t].slot)

\* The last granted turn is in place.
LastIsHere ==
  issued > 0 => \E w \in Token : Held(w) /\ Here1(w) /\
                  \A u \in Token : Held(u) => turn[u].slot <= turn[w].slot

Directory ==
  /\ TokensInOrder /\ OnePerSlot /\ FollowsFinished /\ HeldInOrder
  /\ RemovedInOrder /\ UnheldHasRival /\ LastIsHere

-----------------------------------------------------------------------------
HasTurn == {"pred", "grant", "void", "enter", "section", "record", "release",
            "collect", "candidate", "older", "next", "remove"}
Settling == {"settlepred", "settlegrant", "settledone", "own"}

\* Whose turn is whose: a turn is settled by others only when its caller has lost it.
Ownership ==
  /\ \A a \in Actor : pc[a] = "dead" <=> Home(a) \notin up
  /\ \A c \in Caller : mine[c] # NoTurn <=> pc[c] \in HasTurn
  /\ \A a \in Actor : target[a] # NoTurn <=> pc[a] \in Settling
  /\ \A c \in Caller : mine[c] # NoTurn =>
       /\ Published(mine[c]) /\ turn[mine[c]].by = In[c] /\ turn[mine[c]].after # NoTurn
       /\ \A d \in Caller : mine[d] = mine[c] => d = c
       /\ \A p \in Process : mine[c] \notin gaveUp[p]
       /\ \A a \in Actor : target[a] # mine[c]
  /\ \A c \in Caller : todo[c] # {} => pc[c] \in {"candidate", "older", "next", "remove"}
  /\ \A p \in Process : \A t \in gaveUp[p] : Published(t)
  /\ \A a \in Actor : target[a] # NoTurn => Published(target[a])

\* What readTurn has seen.
Reads ==
  /\ \A a \in Actor : seen[a].step \in {"done", "held"} =>
       seen[a].token # NoTurn /\ Published(seen[a].token)
       /\ turn[seen[a].token].slot = seen[a].slot
  /\ \A a \in Actor : seen[a].done => turn[seen[a].token].done /\ seen[a].step = "held"
  /\ \A a \in Actor : seen[a].step \in {"owner", "none"} => seen[a].token = NoTurn
  /\ \A a \in Actor : seen[a].step = "none" =>
       pc[a] \notin {"latest", "pred", "settlepred", "candidate",
                     "older", "next", "publish", "own"}
  /\ \A a \in Actor : pc[a] \in {"latest", "publish", "pred", "settlepred", "own",
                                 "candidate", "next", "remove", "older"} => seen[a].slot \in Nat
  /\ \A c \in Caller : pc[c] = "publish" =>
       seen[c].step = "held" /\ seen[c].done /\ Held(seen[c].token)

\* The predecessor t names is read, or it is gone.
ReadsPred(a, t) ==
  /\ turn[t].after # NoTurn
  /\ seen[a].slot = turn[turn[t].after].slot
  /\ seen[a].step \in {"done", "held"} => seen[a].token = turn[t].after \/ Gone(turn[t].after)
  /\ seen[a].step = "held" /\ ~seen[a].done => Gone(turn[t].after)

\* The steps of a caller with its own turn.
OwnTurn(c) ==
  LET t == mine[c] IN
  /\ pc[c] \in {"pred", "grant"} => ~Held(t) /\ ~turn[t].done
  /\ pc[c] = "pred" => ReadsPred(c, t)
  /\ pc[c] = "grant" => Here1(t) /\ Here1(turn[t].after)
  /\ pc[c] = "void" => DoneAt(turn[t].slot)
  /\ Holding(c) => Here1(t) /\ Held(t) /\ ~turn[t].done
  /\ pc[c] \in {"collect", "candidate", "older", "next", "remove"} => Held(t) /\ turn[t].done

\* The steps of whoever settles a turn.
Settlement(a) ==
  LET t == target[a] IN
  /\ pc[a] = "settlepred" => ReadsPred(a, t)
  /\ pc[a] = "settlegrant" => turn[t].after # NoTurn /\ (Held(t) \/ Gone(t) \/ Here1(turn[t].after))
  /\ pc[a] = "settledone" => Held(t) \/ Gone(t) \/ DoneAt(turn[t].slot)

\* The steps of a collection at number n.
Collection(c) ==
  LET n == seen[c].slot IN
  /\ pc[c] \in {"candidate", "older", "remove"} => n < turn[mine[c]].slot
  /\ pc[c] = "next" => n <= turn[mine[c]].slot /\ n > 0 /\ GoneBelow(n - 1)
  /\ pc[c] = "candidate" /\ seen[c].step \in {"done", "held"} =>
       Held(seen[c].token) \/ ClosedAt(n)
  /\ pc[c] = "remove" => ClosedAt(n) \/ (GoneBelow(n) /\ DoneAt(n + 1))

\* A turn at a lower number than the first one waited for is done.
Wait(c) == first[c] = NoSlot \/ (first[c] \in Nat /\ \A n \in Nat : n < first[c] => DoneAt(n))

Protocol ==
  /\ \A c \in Caller : OwnTurn(c) /\ Collection(c) /\ Wait(c)
  /\ \A a \in Actor : Settlement(a)

\* The deletion of the profile.
Deletion ==
  /\ erasers \subseteq {t \in Token : Held(t)}
  /\ deletedAt # NoSlot => \E u \in Token : Held(u) /\ turn[u].slot = deletedAt
  /\ \A c \in Caller : overlap[c] = "recorded" =>
       /\ Waiting(c) \/ Holding(c)
       /\ Waiting(c) \/ pc[c] = "enter" => first[c] # NoSlot /\ deletedAt >= first[c]
       /\ pc[c] = "section" => config

Inv == TypeOK /\ Directory /\ Ownership /\ Reads /\ Protocol /\ Deletion

-----------------------------------------------------------------------------
Creates ==
  /\ issued = 0 /\ issued' = 1
  /\ \E p \in Process : turn' = [turn EXCEPT ![1] = [slot |-> 0, by |-> p, after |-> NoTurn,
                                      held |-> TRUE, done |-> TRUE, place |-> "here"]]

Publishes ==
  /\ issued < MaxTurns /\ issued' = issued + 1
  /\ \E a \in Token, p \in Process :
       /\ Held(a) /\ turn[a].done
       /\ Here(turn[a].slot + 1) = {}
       /\ turn' = [turn EXCEPT ![issued + 1] =
            [slot |-> turn[a].slot + 1, by |-> p, after |-> a,
             held |-> FALSE, done |-> FALSE, place |-> "here"]]

Grants(t) ==
  /\ issued' = issued /\ MarkHeld(t)
  /\ Held(t) \/ Gone(t) \/ (turn[t].after # NoTurn /\ Here1(turn[t].after))

Ends(t) ==
  /\ issued' = issued /\ MarkDone(t)
  /\ Held(t) \/ Gone(t) \/ DoneAt(turn[t].slot)

Removes(n) ==
  /\ issued' = issued
  /\ turn' = [t \in Token |-> IF t \in Here(n)
                              THEN [turn[t] EXCEPT !.place = "gone"] ELSE turn[t]]
  /\ \E m \in Token : Held(m) /\ n < turn[m].slot
  /\ ClosedAt(n) \/ (GoneBelow(n) /\ DoneAt(n + 1))

DirectoryStep ==
  \/ UNCHANGED disk \/ Creates \/ Publishes
  \/ \E t \in Token : Published(t) /\ (Grants(t) \/ Ends(t))
  \/ \E n \in Nat : Removes(n)

DirType == turn \in [Token -> Turn] /\ issued \in 0 .. MaxTurns

\* The fields of a turn, and which turns are published.
LEMMA Basics ==
  ASSUME DirType, Directory
  PROVE  /\ \A t \in Token : /\ turn[t].slot \in Nat /\ turn[t].held \in BOOLEAN
                             /\ turn[t].done \in BOOLEAN
                             /\ turn[t].after \in Token \cup {NoTurn}
         /\ \A t \in Token : Published(t) => Here1(t) \/ Gone(t)
         /\ \A t \in Token : Held(t) \/ turn[t].done \/ Here1(t) \/ Gone(t) => Published(t)
         /\ \A t \in Token : ~(Here1(t) /\ Gone(t))
<1>1. \A t \in Token : /\ turn[t].slot \in Nat /\ turn[t].held \in BOOLEAN
                       /\ turn[t].done \in BOOLEAN
                       /\ turn[t].after \in Token \cup {NoTurn}
  BY DEF DirType, Turn
<1>2. \A t \in Token : Published(t) => Here1(t) \/ Gone(t)
  BY DEF Directory, TokensInOrder, Here1, Gone
<1>3. \A t \in Token : Held(t) \/ turn[t].done \/ Here1(t) \/ Gone(t) => Published(t)
  BY DEF Directory, TokensInOrder, Here1, Gone, Held, Unpublished
<1>4. \A t \in Token : ~(Here1(t) /\ Gone(t))
  BY DEF Here1, Gone
<1> QED
  BY <1>1, <1>2, <1>3, <1>4

\* Two granted turns have different numbers.
LEMMA HeldUnique ==
  ASSUME DirType, Directory, NEW s \in Token, NEW t \in Token, Held(s), Held(t),
         turn[s].slot = turn[t].slot
  PROVE  s = t
BY DEF Directory, HeldInOrder

\* Every number below a granted turn's is that of a granted turn that is done.
LEMMA DoneBelow ==
  ASSUME DirType, Directory, NEW t \in Token, Held(t), NEW n \in Nat, n < turn[t].slot
  PROVE  DoneAt(n)
BY DEF Directory, HeldInOrder

\* A turn published after one that is still in place has no rival.
LEMMA NoRival ==
  ASSUME DirType, Directory, NEW t \in Token, Published(t), turn[t].after # NoTurn,
         Here1(turn[t].after), NEW u \in Token, Held(u), u # t
  PROVE  /\ turn[u].slot = turn[t].slot => ~Gone(u) /\ Gone(t)
         /\ turn[u].slot > turn[t].slot => Held(t) \/ Gone(t)
<1> DEFINE a == turn[t].after
<1>1. a \in Token /\ Held(a) /\ turn[a].done /\ turn[t].slot = turn[a].slot + 1 /\ ~Gone(a)
  BY Basics DEF Directory, FollowsFinished
<1>2. ASSUME NEW v \in Token, Held(v), v # t, turn[v].slot = turn[t].slot
      PROVE  ~Gone(v) /\ Gone(t)
  <2>1. ~Gone(v)
    BY <1>1, <1>2, Basics DEF Directory, RemovedInOrder, GoneBelow
  <2>2. Here1(v)
    BY <1>2, <2>1, Basics
  <2>3. ~Here1(t)
    BY <1>2, <2>2 DEF Directory, OnePerSlot
  <2> QED
    BY <2>1, <2>3, Basics
<1>3. ASSUME turn[u].slot > turn[t].slot PROVE Held(t) \/ Gone(t)
  <2>1. DoneAt(turn[t].slot)
    BY <1>3, DoneBelow, Basics
  <2>2. PICK v \in Token : Held(v) /\ turn[v].slot = turn[t].slot
    BY <2>1 DEF DoneAt
  <2> QED
    BY <2>2, <1>2
<1> QED
  BY <1>2, <1>3


\* What a step of the directory never takes back.
Lasts(t) ==
  /\ Published(t)'
  /\ turn'[t].slot = turn[t].slot /\ turn'[t].by = turn[t].by /\ turn'[t].after = turn[t].after
  /\ Held(t) => Held(t)'
  /\ turn[t].done => turn'[t].done
  /\ Gone(t) => Gone(t)'

\* The first turn (createTurnDirectory) is granted and done.
LEMMA CreatesKeeps ==
  ASSUME ConstantsAssumption, DirType, Directory, Creates
  PROVE  DirType' /\ Directory'
<1>1. PICK p \in Process :
        turn' = [turn EXCEPT ![1] = [slot |-> 0, by |-> p, after |-> NoTurn,
                                     held |-> TRUE, done |-> TRUE, place |-> "here"]]
  BY DEF Creates
<1>2. issued = 0 /\ issued' = 1 /\ 1 \in Token /\ MaxTurns \in Nat
  BY DEF Creates, ConstantsAssumption, Token
<1>3. turn'[1] = [slot |-> 0, by |-> p, after |-> NoTurn,
                  held |-> TRUE, done |-> TRUE, place |-> "here"]
  BY <1>1, <1>2 DEF DirType
<1>4. \A t \in Token : t # 1 => turn'[t] = Unpublished
  BY <1>1, <1>2 DEF DirType, Directory, TokensInOrder, Published, Token
<1>5. DirType'
  BY <1>1, <1>2 DEF DirType, Turn, ConstantsAssumption
<1>6. TokensInOrder'
  BY <1>2, <1>3, <1>4 DEF TokensInOrder, Published, Token
<1>7. OnePerSlot'
  BY <1>3, <1>4 DEF OnePerSlot, Here1, Unpublished
<1>8. FollowsFinished'
  BY <1>2, <1>3, <1>4 DEF FollowsFinished, Published, Held, Token
<1>9. HeldInOrder'
  BY <1>3, <1>4 DEF HeldInOrder, Held, Unpublished
<1>10. RemovedInOrder'
  BY <1>3, <1>4 DEF RemovedInOrder, Held, Gone, Unpublished
<1>11. UnheldHasRival'
  BY <1>3, <1>4 DEF UnheldHasRival, Held, Gone, Unpublished
<1>12. LastIsHere'
  BY <1>2, <1>3, <1>4 DEF LastIsHere, Held, Here1, Unpublished
<1> QED
  BY <1>5, <1>6, <1>7, <1>8, <1>9, <1>10, <1>11, <1>12 DEF Directory

\* A turn is published at a free number, after a granted turn that is done.
LEMMA PublishesKeeps ==
  ASSUME ConstantsAssumption, DirType, Directory, Publishes
  PROVE  DirType' /\ Directory'
<1> DEFINE k == issued + 1
<1>1. PICK a \in Token, p \in Process :
        /\ Held(a) /\ turn[a].done /\ Here(turn[a].slot + 1) = {}
        /\ turn' = [turn EXCEPT ![k] =
                     [slot |-> turn[a].slot + 1, by |-> p, after |-> a,
                      held |-> FALSE, done |-> FALSE, place |-> "here"]]
  BY DEF Publishes
<1>2. issued \in Nat /\ k \in Token /\ issued' = k /\ ~Published(k) /\ issued < k
  BY DEF Publishes, ConstantsAssumption, DirType, Token, Published
<1>3. turn'[k] = [slot |-> turn[a].slot + 1, by |-> p, after |-> a,
                  held |-> FALSE, done |-> FALSE, place |-> "here"]
  BY <1>1, <1>2 DEF DirType
<1>4. \A t \in Token : t # k => turn'[t] = turn[t]
  BY <1>1, <1>2 DEF DirType
<1>5. turn[k] = Unpublished
  BY <1>2 DEF Directory, TokensInOrder
<1>6. \A t \in Token : Published(t)' <=> Published(t) \/ t = k
  BY <1>2 DEF Published, Token
<1>7. \A t \in Token : (Held(t)' <=> Held(t)) /\ (Gone(t)' <=> Gone(t))
                       /\ (Held(t) \/ Gone(t) \/ turn[t].done => t # k)
  BY <1>3, <1>4, <1>5 DEF Held, Gone, Unpublished
<1>8. \A n : (DoneAt(n)' <=> DoneAt(n)) /\ (ClosedAt(n)' <=> ClosedAt(n))
             /\ (GoneBelow(n)' <=> GoneBelow(n))
  BY <1>4, <1>7 DEF DoneAt, ClosedAt, GoneBelow
<1>9. DirType'
  <2>1. turn[a].slot + 1 \in Nat
    BY Basics
  <2>2. [slot |-> turn[a].slot + 1, by |-> p, after |-> a,
         held |-> FALSE, done |-> FALSE, place |-> "here"] \in Turn
    BY <2>1 DEF Turn
  <2> QED
    BY <1>1, <1>2, <2>2 DEF DirType, Publishes, ConstantsAssumption
<1>10. TokensInOrder'
  BY <1>3, <1>4, <1>6 DEF Directory, TokensInOrder
<1>11. OnePerSlot'
  BY <1>1, <1>3, <1>4, <1>5 DEF Directory, OnePerSlot, Here1, Here
<1>12. FollowsFinished'
  <2>1. ASSUME NEW t \in Token, Published(t), t # k
        PROVE  IF turn'[t].after = NoTurn
               THEN turn'[t].slot = 0 /\ Held(t)' /\ turn'[t].done
               ELSE /\ Held(turn[t].after)' /\ turn'[turn'[t].after].done
                    /\ turn'[t].slot = turn'[turn'[t].after].slot + 1
    <3>1. CASE turn[t].after = NoTurn
      BY <2>1, <3>1, <1>4, <1>7 DEF Directory, FollowsFinished
    <3>2. CASE turn[t].after # NoTurn
      <4>1. turn[t].after \in Token /\ Held(turn[t].after) /\ turn[turn[t].after].done
            /\ turn[t].slot = turn[turn[t].after].slot + 1
        BY <2>1, <3>2, Basics DEF Directory, FollowsFinished
      <4> QED
        BY <2>1, <3>2, <4>1, <1>4, <1>7
    <3> QED
      BY <3>1, <3>2
  <2>2. a # NoTurn /\ Held(a)' /\ turn'[a].done /\ turn'[k].slot = turn'[a].slot + 1
    BY <1>1, <1>3, <1>4, <1>7 DEF NoTurn, Token
  <2> QED
    BY <2>1, <2>2, <1>2, <1>3, <1>6 DEF FollowsFinished
<1>13. HeldInOrder'
  BY <1>4, <1>7, <1>8 DEF Directory, HeldInOrder
<1>14. RemovedInOrder'
  BY <1>4, <1>7, <1>8 DEF Directory, RemovedInOrder
<1>15. UnheldHasRival'
  BY <1>3, <1>4, <1>7, <1>8 DEF Directory, UnheldHasRival, Held, Gone
<1>16. LastIsHere'
  <2>1. issued > 0
    BY <1>1, Basics, <1>2 DEF Published, Token
  <2>2. PICK w \in Token : Held(w) /\ Here1(w) /\
                           \A u \in Token : Held(u) => turn[u].slot <= turn[w].slot
    BY <2>1 DEF Directory, LastIsHere
  <2> QED
    BY <2>2, <1>4, <1>7 DEF LastIsHere, Here1
<1> QED
  BY <1>9, <1>10, <1>11, <1>12, <1>13, <1>14, <1>15, <1>16 DEF Directory

\* A turn that does not change in more than its markers.
LEMMA MarksKeep ==
  ASSUME ConstantsAssumption, DirType, Directory, issued' = issued,
         NEW t \in Token, Here1(t), NEW h \in BOOLEAN, NEW d \in BOOLEAN,
         Held(t) => h, turn[t].done => d,
         turn' = [turn EXCEPT ![t] = [@ EXCEPT !.held = h, !.done = d]]
  PROVE  /\ DirType' /\ TokensInOrder' /\ OnePerSlot' /\ FollowsFinished'
         /\ turn'[t].held = h /\ turn'[t].done = d
         /\ \A s \in Token : Lasts(s) \/ ~Published(s)
         /\ \A s \in Token : (Gone(s)' <=> Gone(s)) /\ (Here1(s)' <=> Here1(s))
                             /\ turn'[s].slot = turn[s].slot
                             /\ (s # t => turn'[s] = turn[s])
         /\ \A n : (DoneAt(n) => DoneAt(n)') /\ (ClosedAt(n) => ClosedAt(n)')
<1>1. PICK r : r = [turn[t] EXCEPT !.held = h, !.done = d]
  OBVIOUS
<1>2. /\ r = [slot |-> turn[t].slot, by |-> turn[t].by, after |-> turn[t].after,
              held |-> h, done |-> d, place |-> turn[t].place]
      /\ r \in Turn
  BY <1>1 DEF DirType, Turn
<1>3. turn' = [turn EXCEPT ![t] = r]
  BY <1>1
<1>4. turn'[t] = r /\ \A s \in Token : s # t => turn'[s] = turn[s]
  BY <1>3 DEF DirType
<1>5. DirType'
  BY <1>2, <1>3 DEF DirType
<1>6. \A s \in Token : /\ turn'[s].slot = turn[s].slot /\ turn'[s].by = turn[s].by
                       /\ turn'[s].after = turn[s].after /\ turn'[s].place = turn[s].place
                       /\ (turn[s].held => turn'[s].held)
                       /\ (turn[s].done => turn'[s].done)
  BY <1>2, <1>4 DEF Held
<1>7. \A s \in Token : Published(s)' <=> Published(s)
  BY DEF Published
<1>8. Published(t)
  BY Basics
<1>9. TokensInOrder'
  BY <1>4, <1>6, <1>7, <1>8 DEF Directory, TokensInOrder
<1>10. OnePerSlot'
  BY <1>6 DEF Directory, OnePerSlot, Here1
<1>11. FollowsFinished'
  BY <1>6, <1>7, Basics DEF Directory, FollowsFinished, Held
<1>12. \A s \in Token : Lasts(s) \/ ~Published(s)
  BY <1>6, <1>7 DEF Lasts, Held, Gone
<1>13. \A n : (DoneAt(n) => DoneAt(n)') /\ (ClosedAt(n) => ClosedAt(n)')
  BY <1>6 DEF DoneAt, ClosedAt, Held, Gone
<1> QED
  BY <1>2, <1>4, <1>5, <1>6, <1>9, <1>10, <1>11, <1>12, <1>13 DEF Gone, Here1


\* A grant is safe when the turn before it is in place: no rival was granted then.
LEMMA GrantsKeeps ==
  ASSUME ConstantsAssumption, DirType, Directory, NEW t \in Token, Published(t), Grants(t)
  PROVE  DirType' /\ Directory'
<1>1. CASE ~Here1(t)
  <2>1. turn' = turn /\ issued' = issued
    BY <1>1 DEF Grants, MarkHeld, Here1
  <2> QED
    BY <2>1 DEF DirType, Directory, TokensInOrder, OnePerSlot, FollowsFinished, HeldInOrder,
       RemovedInOrder, UnheldHasRival, LastIsHere, Published, Held, Gone, Here1, DoneAt,
       ClosedAt, GoneBelow
<1>2. CASE Here1(t)
  <2>1. turn' = [turn EXCEPT ![t].held = TRUE] /\ issued' = issued
    BY <1>2 DEF Grants, MarkHeld, Here1
  <2>2. turn' = [turn EXCEPT ![t] = [@ EXCEPT !.held = TRUE, !.done = turn[t].done]]
    BY <2>1 DEF DirType, Turn
  <2>3. turn[t].done \in BOOLEAN
    BY Basics
  <2>4. /\ DirType' /\ TokensInOrder' /\ OnePerSlot' /\ FollowsFinished'
        /\ turn'[t].held = TRUE /\ turn'[t].done = turn[t].done
        /\ \A s \in Token : Lasts(s) \/ ~Published(s)
        /\ \A s \in Token : (Gone(s)' <=> Gone(s)) /\ (Here1(s)' <=> Here1(s))
                            /\ turn'[s].slot = turn[s].slot
                            /\ (s # t => turn'[s] = turn[s])
        /\ \A n : (DoneAt(n) => DoneAt(n)') /\ (ClosedAt(n) => ClosedAt(n)')
    BY <2>1, <2>2, <2>3, <1>2, MarksKeep
  <2>5. \A s \in Token : Held(s)' <=> Held(s) \/ s = t
    BY <2>4 DEF Held, Lasts
  <2>6. \A s \in Token : turn'[s].done = turn[s].done
    BY <2>4
  <2>7. CASE Held(t)
    <3>1. \A s \in Token : Held(s)' <=> Held(s)
      BY <2>5, <2>7
    <3>2. \A n : GoneBelow(n)' <=> GoneBelow(n)
      BY <3>1, <2>4 DEF GoneBelow
    <3>3. HeldInOrder'
      BY <3>1, <2>4 DEF Directory, HeldInOrder
    <3>4. RemovedInOrder'
      BY <3>1, <3>2, <2>4 DEF Directory, RemovedInOrder
    <3>5. UnheldHasRival'
      BY <3>1, <2>4, <2>6 DEF Directory, UnheldHasRival
    <3>6. LastIsHere'
      BY <3>1, <2>4, <2>1 DEF Directory, LastIsHere
    <3> QED
      BY <2>4, <3>3, <3>4, <3>5, <3>6 DEF Directory
  <2>8. CASE ~Held(t)
    <3> DEFINE a == turn[t].after
    <3>1. a # NoTurn /\ Here1(a) /\ a \in Token /\ ~Gone(t)
      BY <2>8, <1>2, Basics DEF Grants
    <3>2. Held(a) /\ turn[a].done /\ turn[t].slot = turn[a].slot + 1
      BY <3>1 DEF Directory, FollowsFinished
    <3>3. \A u \in Token : Held(u) => turn[u].slot < turn[t].slot
      <4> SUFFICES ASSUME NEW u \in Token, Held(u) PROVE turn[u].slot < turn[t].slot
        OBVIOUS
      <4>1. turn[u].slot # turn[t].slot /\ ~(turn[u].slot > turn[t].slot)
        BY <3>1, <2>8, NoRival
      <4> QED
        BY <4>1, Basics
    <3>4. \A n \in Nat : n < turn[t].slot => DoneAt(n)
      <4> SUFFICES ASSUME NEW n \in Nat, n < turn[t].slot PROVE DoneAt(n)
        OBVIOUS
      <4>1. CASE n = turn[a].slot
        BY <4>1, <3>1, <3>2 DEF DoneAt
      <4>2. CASE n # turn[a].slot
        BY <4>2, <3>1, <3>2, Basics, DoneBelow
      <4> QED
        BY <4>1, <4>2
    <3>5. HeldInOrder'
      <4>1. \A s, u \in Token : Held(s)' /\ Held(u)' /\ turn'[s].slot = turn'[u].slot => s = u
        BY <2>4, <2>5, <3>3, HeldUnique, Basics
      <4>2. \A s \in Token : Held(s)' => \A n \in Nat : n < turn'[s].slot => DoneAt(n)'
        BY <2>4, <2>5, <3>4, DoneBelow
      <4> QED
        BY <4>1, <4>2 DEF HeldInOrder
    <3>6. RemovedInOrder'
      <4> SUFFICES ASSUME NEW u \in Token, Held(u)', Gone(u)'
                   PROVE  GoneBelow(turn[u].slot)' /\ DoneAt(turn[u].slot + 1)'
        BY DEF RemovedInOrder
      <4>1. Held(u) /\ Gone(u) /\ turn'[u].slot = turn[u].slot
        BY <2>4, <2>5, <3>1
      <4>2. GoneBelow(turn[u].slot) /\ DoneAt(turn[u].slot + 1)
        BY <4>1 DEF Directory, RemovedInOrder
      <4>3. GoneBelow(turn[u].slot)'
        BY <4>1, <4>2, <2>4, <2>5, <3>3, Basics DEF GoneBelow
      <4> QED
        BY <4>1, <4>2, <4>3, <2>4
    <3>7. UnheldHasRival'
      BY <2>4, <2>5, <2>6 DEF Directory, UnheldHasRival
    <3>8. LastIsHere'
      BY <1>2, <2>4, <2>5, <3>3, Basics DEF LastIsHere
    <3> QED
      BY <2>4, <3>5, <3>6, <3>7, <3>8 DEF Directory
  <2> QED
    BY <2>7, <2>8
<1> QED
  BY <1>1, <1>2

\* A turn may be marked done when it was granted, or another one at its number was.
LEMMA EndsKeeps ==
  ASSUME ConstantsAssumption, DirType, Directory, NEW t \in Token, Published(t), Ends(t)
  PROVE  DirType' /\ Directory'
<1>1. CASE ~Here1(t)
  <2>1. turn' = turn /\ issued' = issued
    BY <1>1 DEF Ends, MarkDone, Here1
  <2> QED
    BY <2>1 DEF DirType, Directory, TokensInOrder, OnePerSlot, FollowsFinished, HeldInOrder,
       RemovedInOrder, UnheldHasRival, LastIsHere, Published, Held, Gone, Here1, DoneAt,
       ClosedAt, GoneBelow
<1>2. CASE Here1(t)
  <2>1. turn' = [turn EXCEPT ![t].done = TRUE] /\ issued' = issued
    BY <1>2 DEF Ends, MarkDone, Here1
  <2>2. turn' = [turn EXCEPT ![t] = [@ EXCEPT !.held = turn[t].held, !.done = TRUE]]
    BY <2>1 DEF DirType, Turn
  <2>3. turn[t].held \in BOOLEAN
    BY Basics
  <2>4. /\ DirType' /\ TokensInOrder' /\ OnePerSlot' /\ FollowsFinished'
        /\ turn'[t].held = turn[t].held /\ turn'[t].done = TRUE
        /\ \A s \in Token : (Gone(s)' <=> Gone(s)) /\ (Here1(s)' <=> Here1(s))
                            /\ turn'[s].slot = turn[s].slot
                            /\ (s # t => turn'[s] = turn[s])
        /\ \A n : (DoneAt(n) => DoneAt(n)') /\ (ClosedAt(n) => ClosedAt(n)')
    BY <2>1, <2>2, <2>3, <1>2, MarksKeep DEF Held
  <2>5. \A s \in Token : Held(s)' <=> Held(s)
    BY <2>4 DEF Held
  <2>6. \A n : GoneBelow(n)' <=> GoneBelow(n)
    BY <2>5, <2>4 DEF GoneBelow
  <2>7. Held(t) \/ DoneAt(turn[t].slot)
    BY <1>2, Basics DEF Ends
  <2>8. HeldInOrder'
    BY <2>4, <2>5 DEF Directory, HeldInOrder
  <2>9. RemovedInOrder'
    BY <2>4, <2>5, <2>6 DEF Directory, RemovedInOrder
  <2>10. UnheldHasRival'
    BY <2>4, <2>5, <2>7 DEF Directory, UnheldHasRival
  <2>11. LastIsHere'
    BY <2>1, <2>4, <2>5 DEF Directory, LastIsHere
  <2> QED
    BY <2>4, <2>8, <2>9, <2>10, <2>11 DEF Directory
<1> QED
  BY <1>1, <1>2

\* A number may be removed once the next one is done and those below it are gone.
LEMMA RemovesKeeps ==
  ASSUME ConstantsAssumption, DirType, Directory, NEW n \in Nat, Removes(n)
  PROVE  DirType' /\ Directory'
<1>1. PICK m \in Token : Held(m) /\ n < turn[m].slot
  BY DEF Removes
<1>2. PICK u \in Token : Held(u) /\ turn[u].done /\ turn[u].slot = n
  BY <1>1, DoneBelow DEF DoneAt
<1>3. /\ issued' = issued
      /\ \A t \in Token : turn'[t] = IF Here1(t) /\ turn[t].slot = n
                                     THEN [turn[t] EXCEPT !.place = "gone"] ELSE turn[t]
  BY DEF Removes, Here, Here1
<1>4. DirType'
  <2>1. \A t \in Token : [turn[t] EXCEPT !.place = "gone"] \in Turn
    BY DEF DirType, Turn
  <2> QED
    BY <2>1 DEF DirType, Removes
<1>5. \A t \in Token : /\ turn'[t].slot = turn[t].slot /\ turn'[t].after = turn[t].after
                       /\ (Held(t)' <=> Held(t)) /\ turn'[t].done = turn[t].done
                       /\ (Published(t)' <=> Published(t))
                       /\ (Gone(t)' <=> Gone(t) \/ (Here1(t) /\ turn[t].slot = n))
                       /\ (Here1(t)' <=> Here1(t) /\ turn[t].slot # n)
  <2> SUFFICES ASSUME NEW t \in Token
               PROVE  /\ turn'[t].slot = turn[t].slot /\ turn'[t].after = turn[t].after
                      /\ (Held(t)' <=> Held(t)) /\ turn'[t].done = turn[t].done
                      /\ (Published(t)' <=> Published(t))
                      /\ (Gone(t)' <=> Gone(t) \/ (Here1(t) /\ turn[t].slot = n))
                      /\ (Here1(t)' <=> Here1(t) /\ turn[t].slot # n)
    OBVIOUS
  <2>1. turn[t] \in Turn
    BY DEF DirType
  <2> QED
    BY <1>3, <2>1 DEF Held, Gone, Here1, Published, Turn
<1>6. \A k : (DoneAt(k)' <=> DoneAt(k)) /\ (ClosedAt(k) => ClosedAt(k)')
             /\ (GoneBelow(k) => GoneBelow(k)')
  BY <1>5 DEF DoneAt, ClosedAt, GoneBelow
<1>7. TokensInOrder'
  <2>1. \A t \in Token : ~Published(t) => turn'[t] = turn[t]
    BY <1>3, Basics
  <2>2. \A t \in Token : Published(t) => turn'[t].place \in {"here", "gone"}
    BY <1>5, Basics DEF Here1, Gone
  <2> QED
    BY <2>1, <2>2, <1>5 DEF Directory, TokensInOrder
<1>8. OnePerSlot'
  BY <1>5 DEF Directory, OnePerSlot
<1>9. FollowsFinished'
  BY <1>5, Basics DEF Directory, FollowsFinished
<1>10. HeldInOrder'
  BY <1>5, <1>6 DEF Directory, HeldInOrder
<1>11. RemovedInOrder'
  <2> SUFFICES ASSUME NEW v \in Token, Held(v)', Gone(v)'
               PROVE  GoneBelow(turn[v].slot)' /\ DoneAt(turn[v].slot + 1)'
    BY DEF RemovedInOrder
  <2>1. CASE Gone(v)
    BY <2>1, <1>5, <1>6 DEF Directory, RemovedInOrder
  <2>2. CASE ~Gone(v)
    <3>1. Held(v) /\ Here1(v) /\ turn[v].slot = n
      BY <2>2, <1>5
    <3>2. ~ClosedAt(n)
      BY <3>1, HeldUnique, Basics DEF ClosedAt
    <3> QED
      BY <3>1, <3>2, <1>5, <1>6 DEF Removes
  <2> QED
    BY <2>1, <2>2
<1>12. UnheldHasRival'
  <2> SUFFICES ASSUME NEW t \in Token, ~Held(t)'
               PROVE  /\ Gone(t)' => ClosedAt(turn[t].slot)'
                      /\ turn'[t].done => DoneAt(turn[t].slot)'
    BY DEF UnheldHasRival
  <2>1. turn'[t].done => DoneAt(turn[t].slot)'
    BY <1>5, <1>6 DEF Directory, UnheldHasRival
  <2>2. CASE Gone(t)
    BY <2>1, <2>2, <1>5, <1>6 DEF Directory, UnheldHasRival
  <2>3. CASE Gone(t)' /\ ~Gone(t)
    <3>1. Here1(t) /\ turn[t].slot = n /\ t # u
      BY <2>3, <1>2, <1>5
    <3>2. Gone(u)
      BY <3>1, <1>2, Basics DEF Directory, OnePerSlot
    <3> QED
      BY <2>1, <3>1, <3>2, <1>2, <1>5 DEF ClosedAt
  <2> QED
    BY <2>1, <2>2, <2>3
<1>13. LastIsHere'
  <2>1. PICK w \in Token : Held(w) /\ Here1(w) /\
                           \A v \in Token : Held(v) => turn[v].slot <= turn[w].slot
    BY <1>1, Basics DEF Directory, LastIsHere, Published, DirType, Token
  <2>2. turn[w].slot # n
    BY <2>1, <1>1, Basics
  <2> QED
    BY <2>1, <2>2, <1>5 DEF LastIsHere
<1> QED
  BY <1>4, <1>7, <1>8, <1>9, <1>10, <1>11, <1>12, <1>13 DEF Directory


\* Whatever step is taken, the turn directory stays in order.
LEMMA DirectoryKept ==
  ASSUME ConstantsAssumption, DirType, Directory, DirectoryStep
  PROVE  DirType' /\ Directory'
<1>1. CASE UNCHANGED disk
  BY <1>1 DEF disk, DirType, Directory, TokensInOrder, OnePerSlot, FollowsFinished,
     HeldInOrder, 
     RemovedInOrder, UnheldHasRival, LastIsHere, Published, Held, Gone, Here1, DoneAt,
     ClosedAt, GoneBelow
<1>2. CASE Creates
  BY <1>2, CreatesKeeps
<1>3. CASE Publishes
  BY <1>3, PublishesKeeps
<1>4. ASSUME NEW t \in Token, Published(t), Grants(t) \/ Ends(t) PROVE DirType' /\ Directory'
  BY <1>4, GrantsKeeps, EndsKeeps
<1>5. ASSUME NEW n \in Nat, Removes(n) PROVE DirType' /\ Directory'
  BY <1>5, RemovesKeeps
<1> QED
  BY <1>1, <1>2, <1>3, <1>4, <1>5 DEF DirectoryStep

\* Who was published keeps its number, its creator and its predecessor, and its markers stay.
LEMMA TurnsLast ==
  ASSUME ConstantsAssumption, DirType, Directory, DirectoryStep
  PROVE  \A t \in Token : Published(t) => Lasts(t)
<1> SUFFICES ASSUME NEW t \in Token, Published(t) PROVE Lasts(t)
  OBVIOUS
<1>0. issued \in Nat /\ turn[t] \in Turn
  BY DEF DirType
<1>1. CASE UNCHANGED disk
  BY <1>1 DEF disk, Lasts, Published, Held, Gone
<1>2. CASE Creates
  BY <1>2 DEF Creates, Published, Token
<1>3. CASE Publishes
  <2>1. turn'[t] = turn[t]
    BY <1>0, <1>3 DEF Publishes, Published, Token, DirType
  <2> QED
    BY <2>1, <1>0, <1>3 DEF Lasts, Published, Held, Gone, Publishes, Token
<1>4. ASSUME NEW s \in Token, Grants(s) \/ Ends(s) PROVE Lasts(t)
  <2>1. issued' = issued
    BY <1>4 DEF Grants, Ends
  <2>2. \/ turn' = turn
        \/ turn' = [turn EXCEPT ![s].held = TRUE]
        \/ turn' = [turn EXCEPT ![s].done = TRUE]
    BY <1>4 DEF Grants, Ends, MarkHeld, MarkDone
  <2> QED
    BY <1>0, <2>1, <2>2 DEF Lasts, Published, Held, Gone, DirType, Turn
<1>5. ASSUME NEW n \in Nat, Removes(n) PROVE Lasts(t)
  BY <1>0, <1>5 DEF Removes, Lasts, Published, Held, Gone, Turn
<1> QED
  BY <1>1, <1>2, <1>3, <1>4, <1>5 DEF DirectoryStep

\* What is granted or removed at a number is for good.
LEMMA NumbersLast ==
  ASSUME ConstantsAssumption, DirType, Directory, DirectoryStep
  PROVE  /\ \A n : DoneAt(n) => DoneAt(n)'
         /\ \A n : ClosedAt(n) => ClosedAt(n)'
<1>1. \A t \in Token : Held(t) => Lasts(t)
  BY TurnsLast, Basics
<1> QED
  BY <1>1 DEF DoneAt, ClosedAt, Lasts

\* A turn granted in a step is in place, after one in place, and has no rival.
LEMMA Granted ==
  ASSUME ConstantsAssumption, DirType, Directory, DirectoryStep, issued > 0,
         NEW t \in Token, Held(t)', ~Held(t)
  PROVE  /\ Published(t) /\ Here1(t) /\ turn[t].after # NoTurn /\ Here1(turn[t].after)
         /\ Grants(t)
<1>0. issued \in Nat
  BY DEF DirType
<1>1. ~UNCHANGED disk /\ ~Creates
  BY <1>0 DEF disk, Creates, Held
<1>2. ~Publishes
  <2>1. ASSUME Publishes PROVE FALSE
    <3>1. PICK b \in Token, p \in Process :
            turn' = [turn EXCEPT ![issued + 1] =
                       [slot |-> turn[b].slot + 1, by |-> p, after |-> b,
                        held |-> FALSE, done |-> FALSE, place |-> "here"]]
      BY <2>1 DEF Publishes
    <3>2. turn'[t].held = FALSE \/ turn'[t] = turn[t]
      BY <3>1, <1>0 DEF DirType
    <3> QED
      BY <3>2 DEF Held
  <2> QED
    BY <2>1
<1>3. \A s \in Token : ~Ends(s)
  BY DEF Ends, MarkDone, DirType, Turn, Held
<1>4. \A n \in Nat : ~Removes(n)
  BY DEF Removes, DirType, Turn, Held
<1>5. PICK s \in Token : Published(s) /\ Grants(s)
  BY <1>1, <1>2, <1>3, <1>4 DEF DirectoryStep
<1>6. s = t /\ Here1(t)
  BY <1>5 DEF Grants, MarkHeld, DirType, Turn, Held, Here1
<1> QED
  BY <1>5, <1>6, Basics DEF Grants

\* What is removed below a number stays so: no turn is published or granted there again.
LEMMA GoneBelowLasts ==
  ASSUME ConstantsAssumption, DirType, Directory, DirectoryStep, issued > 0,
         NEW n \in Nat, GoneBelow(n)
  PROVE  GoneBelow(n)'
<1>1. \A u \in Token : Held(u) /\ turn[u].slot < n => Gone(u)'
  BY TurnsLast, Basics DEF GoneBelow, Lasts
<1>2. ASSUME NEW u \in Token, Held(u)', ~Held(u), turn[u].slot < n PROVE FALSE
  <2>1. Published(u) /\ Here1(u) /\ turn[u].after # NoTurn /\ Here1(turn[u].after)
    BY <1>2, Granted
  <2>2. LET a == turn[u].after
        IN a \in Token /\ Held(a) /\ turn[u].slot = turn[a].slot + 1
    BY <2>1, Basics DEF Directory, FollowsFinished
  <2> QED
    BY <1>2, <2>1, <2>2, Basics DEF GoneBelow
<1>3. \A u \in Token : Held(u)' => turn'[u].slot = turn[u].slot
  <2> SUFFICES ASSUME NEW u \in Token, Held(u)' PROVE turn'[u].slot = turn[u].slot
    OBVIOUS
  <2>1. Published(u)
    BY Granted, Basics
  <2> QED
    BY <2>1, TurnsLast DEF Lasts
<1> QED
  BY <1>1, <1>2, <1>3 DEF GoneBelow

\* A turn whose number is to be removed is not open, and not one that can still be granted.
LEMMA OpenStays ==
  ASSUME ConstantsAssumption, DirType, Directory, DirectoryStep,
         NEW t \in Token, Held(t), ~turn[t].done, Here1(t)
  PROVE  Here1(t)'
<1>0. Published(t) /\ turn[t] \in Turn /\ issued \in Nat
  BY Basics DEF DirType
<1>1. CASE UNCHANGED disk
  BY <1>1 DEF disk, Here1
<1>2. CASE Creates
  BY <1>0, <1>2 DEF Creates, Published, Token
<1>3. CASE Publishes
  BY <1>0, <1>3 DEF Publishes, Published, Token, DirType, Here1
<1>4. ASSUME NEW s \in Token, Grants(s) \/ Ends(s) PROVE Here1(t)'
  BY <1>0, <1>4 DEF Grants, Ends, MarkHeld, MarkDone, DirType, Turn, Here1
<1>5. ASSUME NEW n \in Nat, Removes(n) PROVE Here1(t)'
  <2>1. PICK m \in Token : Held(m) /\ n < turn[m].slot
    BY <1>5 DEF Removes
  <2>2. turn[t].slot # n
    BY <2>1, DoneBelow, HeldUnique DEF DoneAt
  <2> QED
    BY <2>2, <1>5 DEF Removes, Here, Here1
<1> QED
  BY <1>1, <1>2, <1>3, <1>4, <1>5 DEF DirectoryStep

\* A turn that can still be granted is not removed, and neither is the one before it.
LEMMA GrantableStays ==
  ASSUME ConstantsAssumption, DirType, Directory, DirectoryStep,
         NEW t \in Token, ~Held(t), Here1(t), turn[t].after # NoTurn, Here1(turn[t].after)
  PROVE  Here1(t)' /\ Here1(turn[t].after)'
<1> DEFINE a == turn[t].after
<1>0. /\ Published(t) /\ turn[t] \in Turn /\ issued \in Nat
      /\ a \in Token /\ Published(a) /\ turn[a] \in Turn /\ ~Gone(t) /\ ~Gone(a)
      /\ Held(a) /\ turn[t].slot = turn[a].slot + 1
  BY Basics DEF DirType, Directory, FollowsFinished
<1>a. turn'[t].after = a
  BY <1>0, TurnsLast DEF Lasts
<1> SUFFICES Here1(t)' /\ turn'[a].place = "here"
  BY <1>a DEF Here1
<1>1. CASE UNCHANGED disk
  BY <1>1 DEF disk, Here1
<1>2. CASE Creates
  BY <1>0, <1>2 DEF Creates, Published, Token
<1>3. CASE Publishes
  BY <1>0, <1>3 DEF Publishes, Published, Token, DirType, Here1
<1>4. ASSUME NEW s \in Token, Grants(s) \/ Ends(s) PROVE Here1(t)' /\ turn'[a].place = "here"
  BY <1>0, <1>4 DEF Grants, Ends, MarkHeld, MarkDone, DirType, Turn, Here1
<1>5. ASSUME NEW n \in Nat, Removes(n) PROVE Here1(t)' /\ turn'[a].place = "here"
  <2>1. turn[a].slot # n
    <3> SUFFICES ASSUME turn[a].slot = n PROVE FALSE
      OBVIOUS
    <3>1. ~ClosedAt(n)
      BY <1>0, HeldUnique DEF ClosedAt
    <3>2. PICK u \in Token : Held(u) /\ turn[u].slot = turn[t].slot
      BY <3>1, <1>0, <1>5 DEF Removes, DoneAt
    <3> QED
      BY <3>2, <1>0, NoRival
  <2>2. turn[t].slot # n
    <3> SUFFICES ASSUME turn[t].slot = n PROVE FALSE
      OBVIOUS
    <3>1. ~GoneBelow(n)
      BY <1>0, Basics DEF GoneBelow
    <3>2. PICK u \in Token : Held(u) /\ Gone(u) /\ turn[u].slot = turn[t].slot
      BY <3>1, <1>0, <1>5 DEF Removes, ClosedAt
    <3> QED
      BY <3>2, <1>0, NoRival
  <2> QED
    BY <2>1, <2>2, <1>0, <1>5 DEF Removes, Here, Here1
<1> QED
  BY <1>1, <1>2, <1>3, <1>4, <1>5 DEF DirectoryStep

\* One granted turn is not done at most.
LEMMA OneOpen ==
  ASSUME DirType, Directory, NEW s \in Token, NEW t \in Token,
         Held(s), ~turn[s].done, Held(t), ~turn[t].done
  PROVE  s = t
<1>1. ASSUME NEW x \in Token, NEW y \in Token, Held(x), ~turn[x].done, Held(y),
             turn[x].slot < turn[y].slot
      PROVE  FALSE
  BY <1>1, DoneBelow, HeldUnique, Basics DEF DoneAt
<1>2. turn[s].slot = turn[t].slot
  BY <1>1, Basics
<1> QED
  BY <1>2, HeldUnique

\* The numbers below a published turn are those of granted turns that are done.
LEMMA AllDoneBelow ==
  ASSUME DirType, Directory, NEW t \in Token, Published(t), NEW n \in Nat,
         n < turn[t].slot \/ (n = turn[t].slot /\ turn[t].done)
  PROVE  DoneAt(n)
<1>1. CASE Held(t)
  BY <1>1, DoneBelow DEF DoneAt
<1>2. CASE ~Held(t) /\ n < turn[t].slot
  <2> DEFINE a == turn[t].after
  <2>1. a \in Token /\ Held(a) /\ turn[a].done /\ turn[t].slot = turn[a].slot + 1
    BY <1>2, Basics DEF Directory, FollowsFinished
  <2>2. CASE n = turn[a].slot
    BY <2>1, <2>2 DEF DoneAt
  <2>3. CASE n # turn[a].slot
    BY <1>2, <2>1, <2>3, DoneBelow, Basics
  <2> QED
    BY <2>2, <2>3
<1>3. CASE ~Held(t) /\ n = turn[t].slot /\ turn[t].done
  BY <1>3 DEF Directory, UnheldHasRival
<1> QED
  BY <1>1, <1>2, <1>3


\* Every step of the callers, of the processes that retry settlements, and of the faults is a
\* directory step: what each has read of the directory before allows its write.
LEMMA DirectorySteps ==
  ASSUME ConstantsAssumption, Inv, [Next]_vars
  PROVE  DirectoryStep
<1>1. ASSUME UNCHANGED <<turn, issued>> PROVE DirectoryStep
  BY <1>1 DEF DirectoryStep, disk
<1>2. ASSUME NEW c \in Caller, Arrive(c) \/ LatestGone(c) \/ LatestFinished(c) \/ LatestBusy(c)
             \/ LatestAbandoned(c) \/ TimeOut(c) \/ PublishLoses(c) \/ PredFinished(c)
             \/ PredChanged(c) \/ Enter(c) \/ WriteStore(c) \/ CreateProfile(c)
             \/ DeleteConfig(c) \/ RecordDeletion(c) \/ SectionFails(c) \/ Collect(c)
             \/ CandidateOpen(c) \/ CandidateVoid(c) \/ CandidateGranted(c) \/ CheckOlder(c)
             \/ NextFinished(c) \/ NextOpen(c) \/ RemoveFails(c) \/ GiveUpTurn(c)
      PROVE  DirectoryStep
  BY <1>1, <1>2 DEF Arrive, disk, wait, profile, ghosts, LatestGone, LatestFinished,
     LatestBusy, LatestAbandoned, TimeOut, PublishLoses, PredFinished, PredChanged, Enter,
     WriteStore, CreateProfile, DeleteConfig, RecordDeletion, SectionFails, Collect, GoOn,
     CandidateOpen, CandidateVoid, CandidateGranted, CheckOlder, NextFinished, NextOpen,
     RemoveFails, GiveUpTurn
<1>3. ASSUME NEW c \in Caller, NEW t \in Token, ListTurns(c, t) PROVE DirectoryStep
  BY <1>1, <1>3 DEF ListTurns, disk, wait, profile, ghosts
<1>4. ASSUME NEW a \in Actor, ReadOwner(a) \/ ReadDone(a) \/ SettlePred(a) \/ FileError(a)
      PROVE  DirectoryStep
  BY <1>1, <1>4 DEF ReadOwner, disk, wait, profile, ghosts, ReadDone, SettlePred, FileError
<1>5. ASSUME NEW p \in Process, NEW t \in Token, Retry(p, t) PROVE DirectoryStep
  BY <1>1, <1>5 DEF Retry, disk, wait, profile, ghosts
<1>6. ASSUME NEW p \in Process, RetryRead(p) \/ Crash(p) PROVE DirectoryStep
  BY <1>1, <1>6 DEF RetryRead, disk, wait, profile, ghosts, Crash
<1>7. ASSUME NEW c \in Caller, CreateTurnDirectory(c) PROVE DirectoryStep
  BY <1>7 DEF CreateTurnDirectory, DirectoryStep, Creates, ConstantsAssumption
<1>8. ASSUME NEW c \in Caller, Publish(c) PROVE DirectoryStep
  <2> DEFINE t == seen[c].token
  <2>1. /\ t \in Token /\ Held(t) /\ turn[t].done /\ turn[t].slot = seen[c].slot
        /\ In[c] \in Process
    BY <1>8 DEF Publish, Inv, Reads, TypeOK, Seen, Actor, Token, NoTurn, ConstantsAssumption
  <2> QED
    BY <1>8, <2>1 DEF Publish, DirectoryStep, Publishes
<1>9. ASSUME NEW c \in Caller, Grant(c) PROVE DirectoryStep
  <2>1. /\ mine[c] \in Token /\ Published(mine[c]) /\ turn[mine[c]].after # NoTurn
        /\ Here1(turn[mine[c]].after)
    BY <1>9 DEF Grant, Inv, Ownership, Protocol, OwnTurn, TypeOK, HasTurn
  <2> QED
    BY <1>9, <2>1 DEF Grant, DirectoryStep, Grants
<1>10. ASSUME NEW c \in Caller, VoidTurn(c) PROVE DirectoryStep
  <2>1. /\ mine[c] \in Token /\ Published(mine[c]) /\ DoneAt(turn[mine[c]].slot)
    BY <1>10 DEF VoidTurn, Inv, Ownership, Protocol, OwnTurn, TypeOK, HasTurn
  <2> QED
    BY <1>10, <2>1 DEF VoidTurn, DirectoryStep, Ends
<1>11. ASSUME NEW a \in Actor, SettleGrant(a) PROVE DirectoryStep
  <2>1. /\ target[a] \in Token /\ Published(target[a]) /\ turn[target[a]].after # NoTurn
        /\ Held(target[a]) \/ Gone(target[a]) \/ Here1(turn[target[a]].after)
    BY <1>11 DEF SettleGrant, Inv, Ownership, Protocol, Settlement, TypeOK, Settling
  <2> QED
    BY <1>11, <2>1 DEF SettleGrant, DirectoryStep, Grants
<1>12. ASSUME NEW a \in Actor, SettleDone(a) PROVE DirectoryStep
  <2>1. /\ target[a] \in Token /\ Published(target[a])
        /\ Held(target[a]) \/ Gone(target[a]) \/ DoneAt(turn[target[a]].slot)
    BY <1>12 DEF SettleDone, Inv, Ownership, Protocol, Settlement, TypeOK, Settling
  <2> QED
    BY <1>12, <2>1 DEF SettleDone, DirectoryStep, Ends
<1>13. ASSUME NEW c \in Caller, Release(c) PROVE DirectoryStep
  <2>1. /\ mine[c] \in Token /\ Published(mine[c]) /\ Held(mine[c])
    BY <1>13 DEF Release, Inv, Ownership, Protocol, OwnTurn, Holding, TypeOK, HasTurn
  <2> QED
    BY <1>13, <2>1 DEF Release, DirectoryStep, Ends
<1>14. ASSUME NEW c \in Caller, Remove(c) PROVE DirectoryStep
  <2> DEFINE n == seen[c].slot
  <2>1. /\ n \in Nat /\ mine[c] \in Token /\ Held(mine[c]) /\ n < turn[mine[c]].slot
        /\ ClosedAt(n) \/ (GoneBelow(n) /\ DoneAt(n + 1))
    BY <1>14 DEF Remove, Inv, Ownership, Reads, Protocol, OwnTurn, Collection, TypeOK, HasTurn,
       Actor
  <2> QED
    BY <1>14, <2>1 DEF Remove, DirectoryStep, Removes
<1> QED
  BY <1>1, <1>2, <1>3, <1>4, <1>5, <1>6, <1>7, <1>8, <1>9, <1>10, <1>11, <1>12, <1>13, <1>14
  DEF Next, Goes, Look, Take, Hold, CollectTurns, SettleTurn, Settles, SettleOwn, Fault, Actor,
      vars, disk, wait, profile, ghosts

\* What readTurn has seen stays well-formed.
LEMMA SeenUpdates ==
  ASSUME NEW s \in Seen
  PROVE  /\ \A t \in Token : [s EXCEPT !.token = t, !.step = "done"] \in Seen
         /\ \A d \in BOOLEAN : [s EXCEPT !.done = d, !.step = "held"] \in Seen
<1>1. ASSUME NEW t \in Token, NEW y, y = [s EXCEPT !.token = t, !.step = "done"]
      PROVE  y = [slot |-> s.slot, token |-> t, done |-> s.done, step |-> "done"]
  BY <1>1 DEF Seen
<1>2. ASSUME NEW d \in BOOLEAN, NEW y, y = [s EXCEPT !.done = d, !.step = "held"]
      PROVE  y = [slot |-> s.slot, token |-> s.token, done |-> d, step |-> "held"]
  BY <1>2 DEF Seen
<1>3. \A t \in Token : [slot |-> s.slot, token |-> t, done |-> s.done, step |-> "done"] \in Seen
  BY DEF Seen
<1>4. \A d \in BOOLEAN :
        [slot |-> s.slot, token |-> s.token, done |-> d, step |-> "held"] \in Seen
  BY DEF Seen
<1> QED
  BY <1>1, <1>2, <1>3, <1>4


\* Every step leads to a step of the protocol, and settles a turn or none.
LEMMA ControlTyped ==
  ASSUME ConstantsAssumption, Inv, [Next]_vars
  PROVE  /\ pc' \in [Actor -> {"idle", "list", "latest", "publish", "pred", "grant", "void",
                                "settlepred", "settlegrant", "settledone", "own",
                                "enter", "section", "record", "release",
                                "collect", "candidate", "older", "next", "remove", "dead"}]
         /\ target' \in [Actor -> Token \cup {NoTurn}]
<1> USE DEF Inv, TypeOK, Actor, ConstantsAssumption
<1> DEFINE Goal == /\ pc' \in [Actor -> {"idle", "list", "latest", "publish", "pred", "grant", "void",
                                          "settlepred", "settlegrant", "settledone", "own",
                                          "enter", "section", "record", "release",
                                          "collect", "candidate", "older", "next", "remove", "dead"}]
                   /\ target' \in [Actor -> Token \cup {NoTurn}]
<1>1. ASSUME UNCHANGED <<pc, target>> PROVE Goal
  BY <1>1
<1>2. ASSUME NEW c \in Caller, CreateTurnDirectory(c) PROVE Goal
  BY <1>1, <1>2 DEF CreateTurnDirectory, wait, profile, ghosts
<1>3. ASSUME NEW a \in Actor, ReadOwner(a) \/ ReadDone(a) PROVE Goal
  BY <1>1, <1>3 DEF ReadOwner, disk, wait, profile, ghosts, ReadDone
<1>4. ASSUME NEW c \in Caller, Arrive(c) PROVE Goal
  BY <1>4 DEF Arrive, disk, wait, profile, ghosts
<1>5. ASSUME NEW c \in Caller, NEW t \in Token, ListTurns(c, t) PROVE Goal
  BY <1>5 DEF ListTurns, disk, wait, profile, ghosts, NoTurn
<1>6. ASSUME NEW c \in Caller, LatestGone(c) PROVE Goal
  BY <1>6 DEF LatestGone, disk, wait, profile, ghosts, NoTurn
<1>7. ASSUME NEW c \in Caller, LatestFinished(c) PROVE Goal
  BY <1>7 DEF LatestFinished, ReadsTurn, FirstWaited, disk, profile, ghosts
<1>8. ASSUME NEW c \in Caller, LatestBusy(c) PROVE Goal
  BY <1>8 DEF LatestBusy, ReadsTurn, Abandoned, FirstWaited, disk, profile, ghosts, NoTurn
<1>9. ASSUME NEW c \in Caller, LatestAbandoned(c) PROVE Goal
  <2>1. seen[c] \in Seen
    OBVIOUS
  <2>2. seen[c].token \in Token \cup {NoTurn}
    BY <2>1 DEF Seen
  <2> QED
    BY <1>9, <2>2 DEF LatestAbandoned, Settle, disk, profile, ghosts
<1>10. ASSUME NEW c \in Caller, TimeOut(c) PROVE Goal
  BY <1>10 DEF TimeOut, disk, profile
<1>11. ASSUME NEW c \in Caller, Publish(c) PROVE Goal
  BY <1>11 DEF Publish, profile, ghosts, NoTurn
<1>12. ASSUME NEW c \in Caller, PublishLoses(c) PROVE Goal
  BY <1>12 DEF PublishLoses, disk, wait, profile, ghosts, NoTurn
<1>13. ASSUME NEW c \in Caller, PredFinished(c) PROVE Goal
  BY <1>13 DEF PredFinished, ReadsFinished, disk, wait, profile, ghosts, ReadsTurn, NoTurn
<1>14. ASSUME NEW c \in Caller, PredChanged(c) PROVE Goal
  BY <1>14 DEF PredChanged, ReadsNotFinished, disk, wait, profile, ghosts, ReadsTurn,
     ReadsFinished, NoTurn
<1>15. ASSUME NEW c \in Caller, Grant(c) PROVE Goal
  BY <1>15 DEF Grant, MarkHeld, PathExists, wait, profile, ghosts
<1>16. ASSUME NEW c \in Caller, VoidTurn(c) PROVE Goal
  BY <1>16 DEF VoidTurn, MarkDone, NoTurn, profile, ghosts
<1>17. ASSUME NEW a \in Actor, SettlePred(a) PROVE Goal
  BY <1>17 DEF SettlePred, ReadsFinished, ReadsNotFinished, disk, wait, profile, ghosts,
     ReadsTurn, NoTurn
<1>18. ASSUME NEW a \in Actor, SettleGrant(a) PROVE Goal
  BY <1>18 DEF SettleGrant, MarkHeld, wait, profile, ghosts
<1>19. ASSUME NEW a \in Actor, SettleDone(a) PROVE Goal
  BY <1>19 DEF SettleDone, MarkDone, OverlapAtEnd, Home, NoTurn, wait, profile, Waiting
<1>20. ASSUME NEW p \in Process, NEW t \in Token, Retry(p, t) PROVE Goal
  BY <1>20 DEF Retry, disk, wait, profile, ghosts, NoTurn
<1>21. ASSUME NEW p \in Process, RetryRead(p) PROVE Goal
  BY <1>21 DEF RetryRead, ReadsTurn, Settle, NoTurn, disk, wait, profile, ghosts
<1>22. ASSUME NEW c \in Caller, Enter(c) PROVE Goal
  BY <1>22 DEF Enter, Refused, disk, profile, ghosts
<1>23. ASSUME NEW c \in Caller, WriteStore(c) PROVE Goal
  BY <1>23 DEF WriteStore, disk, wait, profile, ghosts
<1>24. ASSUME NEW c \in Caller, CreateProfile(c) PROVE Goal
  BY <1>24 DEF CreateProfile, disk, wait, ghosts
<1>25. ASSUME NEW c \in Caller, DeleteConfig(c) PROVE Goal
  BY <1>25 DEF DeleteConfig, disk, wait
<1>26. ASSUME NEW c \in Caller, RecordDeletion(c) PROVE Goal
  BY <1>26 DEF RecordDeletion, disk, wait, ghosts
<1>27. ASSUME NEW c \in Caller, SectionFails(c) PROVE Goal
  BY <1>27 DEF SectionFails, disk, wait, profile, ghosts
<1>28. ASSUME NEW c \in Caller, Release(c) PROVE Goal
  BY <1>28 DEF Release, MarkDone, OverlapAtEnd, wait, profile, Waiting
<1>29. ASSUME NEW c \in Caller, Collect(c) PROVE Goal
  BY <1>29 DEF Collect, GoOn, disk, profile, ghosts, NoTurn
<1>30. ASSUME NEW c \in Caller, CandidateOpen(c) PROVE Goal
  BY <1>30 DEF CandidateOpen, ReadsTurn, Skip, disk, profile, ghosts, GoOn, NoTurn
<1>31. ASSUME NEW c \in Caller, CandidateVoid(c) PROVE Goal
  BY <1>31 DEF CandidateVoid, ReadsTurn, disk, wait, profile, ghosts
<1>32. ASSUME NEW c \in Caller, CandidateGranted(c) PROVE Goal
  BY <1>32 DEF CandidateGranted, ReadsTurn, disk, wait, profile, ghosts
<1>33. ASSUME NEW c \in Caller, CheckOlder(c) PROVE Goal
  <2>1. CASE NoOlder(c)
    BY <1>33, <2>1 DEF CheckOlder
  <2>2. CASE Skip(c)
    BY <1>33, <2>2 DEF CheckOlder, Skip, GoOn
  <2> QED
    BY <1>33, <2>1, <2>2 DEF CheckOlder
<1>34. ASSUME NEW c \in Caller, NextFinished(c) PROVE Goal
  BY <1>34 DEF NextFinished, ReadsTurn, disk, wait, profile, ghosts, NoTurn
<1>35. ASSUME NEW c \in Caller, NextOpen(c) PROVE Goal
  BY <1>35 DEF NextOpen, ReadsTurn, GoOn, disk, profile, ghosts, NoTurn
<1>36. ASSUME NEW c \in Caller, Remove(c) PROVE Goal
  BY <1>36 DEF Remove, Skip, profile, ghosts, GoOn, NoTurn
<1>37. ASSUME NEW c \in Caller, RemoveFails(c) PROVE Goal
  BY <1>37 DEF RemoveFails, Skip, disk, profile, ghosts, GoOn, NoTurn
<1>38. ASSUME NEW c \in Caller, GiveUpTurn(c) PROVE Goal
  BY <1>38 DEF GiveUpTurn, NoTurn, disk, profile
<1>39. ASSUME NEW a \in Actor, FileError(a) PROVE Goal
  BY <1>39 DEF FileError, NoTurn, disk, profile
<1>40. ASSUME NEW p \in Process, Crash(p) PROVE Goal
  BY <1>40 DEF Crash, Actor, Home, NoTurn, disk, profile
<1> QED
  BY <1>1, <1>2, <1>3, <1>4, <1>5, <1>6, <1>7, <1>8, <1>9, <1>10, <1>11, <1>12, <1>13, <1>14,
     <1>15, <1>16, <1>17, <1>18, <1>19, <1>20, <1>21, <1>22, <1>23, <1>24, <1>25, <1>26, <1>27,
     <1>28, <1>29, <1>30, <1>31, <1>32, <1>33, <1>34, <1>35, <1>36, <1>37, <1>38, <1>39, <1>40
  DEF Next, Goes, Look, Take, Hold, CollectTurns, SettleTurn, Settles, SettleOwn, Fault, Actor,
      vars, disk, wait, profile, ghosts

\* Reads have the shape of readTurn's result.
LEMMA SeenTyped ==
  ASSUME ConstantsAssumption, Inv, [Next]_vars
  PROVE  seen' \in [Actor -> Seen]
<1> USE DEF Inv, TypeOK, Actor, ConstantsAssumption
<1>a. NotReading \in Seen /\ \A n \in Int : Reading(n) \in Seen
  BY DEF NotReading, Reading, Seen, NoSlot
<1>b. \A a \in Actor : seen[a] \in Seen /\ seen[a].slot \in Int
  BY DEF Seen
<1>c. \A t \in Token : turn[t].slot \in Nat
  BY DEF Turn
<1>d. \A c \in Caller, slots \in SUBSET Int : GoOn(c, slots) => seen' \in [Actor -> Seen]
  BY <1>a DEF GoOn
<1>f. ASSUME NEW a \in Actor, NEW t \in Token, NEW h, Settle(a, t, h) PROVE seen' \in [Actor -> Seen]
  BY <1>a, <1>c, <1>f DEF Settle
<1>e. \A c \in Caller : Skip(c) => seen' \in [Actor -> Seen]
  BY <1>d DEF Skip
<1> DEFINE Goal == seen' \in [Actor -> Seen]
<1>1. ASSUME UNCHANGED seen PROVE Goal
  BY <1>1
<1>2. ASSUME NEW c \in Caller, Arrive(c) \/ CreateTurnDirectory(c) \/ LatestFinished(c)
             \/ TimeOut(c) \/ Grant(c) \/ VoidTurn(c) \/ Enter(c) \/ WriteStore(c)
             \/ CreateProfile(c) \/ DeleteConfig(c) \/ RecordDeletion(c) \/ SectionFails(c)
             \/ Release(c) \/ CandidateVoid(c) \/ CandidateGranted(c)
      PROVE  Goal
  BY <1>1, <1>2 DEF Arrive, disk, wait, profile, ghosts, CreateTurnDirectory, LatestFinished,
     TimeOut, Grant, VoidTurn, Enter, WriteStore, CreateProfile, DeleteConfig, RecordDeletion,
     SectionFails, Release, CandidateVoid, CandidateGranted
<1>3. ASSUME NEW a \in Actor, SettleGrant(a) \/ SettleDone(a) PROVE Goal
  BY <1>1, <1>3 DEF SettleGrant, wait, profile, ghosts, SettleDone
<1>4. ASSUME NEW c \in Caller, NEW t \in Token, ListTurns(c, t) PROVE Goal
  BY <1>4, <1>a, <1>b, <1>c DEF ListTurns, disk, wait, profile, ghosts, NoTurn
<1>5. ASSUME NEW c \in Caller, LatestGone(c) PROVE Goal
  BY <1>5, <1>a, <1>b, <1>c DEF LatestGone, disk, wait, profile, ghosts, NoTurn
<1>6. ASSUME NEW c \in Caller, LatestBusy(c) PROVE Goal
  BY <1>6, <1>a, <1>b, <1>c DEF LatestBusy, ReadsTurn, Abandoned, FirstWaited, disk, profile,
     ghosts, NoTurn
<1>7. ASSUME NEW c \in Caller, LatestAbandoned(c) PROVE Goal
  <2>1. seen[c].token \in Token
    BY <1>7, <1>b DEF LatestAbandoned, ReadsTurn, Reads, Seen
  <2>2. CASE Settle(c, seen[c].token, ReadsHeld(c))
    BY <2>1, <2>2, <1>f
  <2> QED
    BY <1>7, <2>2 DEF LatestAbandoned
<1>8. ASSUME NEW c \in Caller, Publish(c) PROVE Goal
  BY <1>8, <1>a, <1>b, <1>c DEF Publish, profile, ghosts, NoTurn
<1>9. ASSUME NEW c \in Caller, PublishLoses(c) PROVE Goal
  BY <1>9, <1>a, <1>b, <1>c DEF PublishLoses, disk, wait, profile, ghosts, NoTurn
<1>10. ASSUME NEW c \in Caller, PredFinished(c) PROVE Goal
  BY <1>10, <1>a, <1>b, <1>c DEF PredFinished, ReadsFinished, disk, wait, profile, ghosts,
     ReadsTurn, NoTurn
<1>11. ASSUME NEW c \in Caller, PredChanged(c) PROVE Goal
  BY <1>11, <1>a, <1>b, <1>c DEF PredChanged, ReadsNotFinished, disk, wait, profile, ghosts,
     ReadsTurn, ReadsFinished, NoTurn
<1>12. ASSUME NEW a \in Actor, ReadOwner(a) PROVE Goal
  <2>1. PICK t \in Token : seen' = [seen EXCEPT ![a] = [@ EXCEPT !.token = t, !.step = "done"]]
    BY <1>12 DEF ReadOwner, Here
  <2> QED
    BY <2>1, <1>b, SeenUpdates
<1>13. ASSUME NEW a \in Actor, ReadDone(a) PROVE Goal
  <2> DEFINE d == MarkedDone(seen[a].token)
  <2>1. d \in BOOLEAN
    BY DEF MarkedDone
  <2>2. seen' = [seen EXCEPT ![a] = [@ EXCEPT !.done = d, !.step = "held"]]
    BY <1>13 DEF ReadDone
  <2> HIDE DEF d
  <2>3. [seen[a] EXCEPT !.done = d, !.step = "held"] \in Seen
    BY <2>1, <1>b, SeenUpdates
  <2> QED
    BY <2>2, <2>3
<1>14. ASSUME NEW a \in Actor, SettlePred(a) PROVE Goal
  BY <1>14, <1>a, <1>b, <1>c DEF SettlePred, ReadsFinished, ReadsNotFinished, disk, wait,
     profile, ghosts, ReadsTurn, NoTurn
<1>15. ASSUME NEW p \in Process, NEW t \in Token, Retry(p, t) PROVE Goal
  BY <1>15, <1>a, <1>b, <1>c DEF Retry, disk, wait, profile, ghosts, NoTurn
<1>16. ASSUME NEW p \in Process, RetryRead(p) PROVE Goal
  <2>1. target[p] # NoTurn
    BY <1>16 DEF RetryRead, Ownership, Settling
  <2>2. CASE Settle(p, target[p], ReadsHeld(p))
    BY <2>1, <2>2, <1>f
  <2> QED
    BY <1>16, <2>2, <1>a DEF RetryRead
<1>17. ASSUME NEW c \in Caller, Collect(c) PROVE Goal
  <2>1. OlderTurns(c) \in SUBSET Int
    BY <1>c DEF OlderTurns, Listed
  <2> QED
    BY <1>17, <2>1, <1>d DEF Collect
<1>18. ASSUME NEW c \in Caller, CandidateOpen(c) PROVE Goal
  BY <1>18, <1>e DEF CandidateOpen
<1>19. ASSUME NEW c \in Caller, CheckOlder(c) PROVE Goal
  <2>1. CASE NoOlder(c)
    BY <1>19, <2>1, <1>a, <1>b DEF CheckOlder
  <2> QED
    BY <1>19, <2>1, <1>e DEF CheckOlder
<1>20. ASSUME NEW c \in Caller, NextFinished(c) PROVE Goal
  BY <1>20, <1>a, <1>b, <1>c DEF NextFinished, ReadsTurn, disk, wait, profile, ghosts, NoTurn
<1>21. ASSUME NEW c \in Caller, NextOpen(c) PROVE Goal
  <2>1. {n \in todo[c] : n >= seen[c].slot} \in SUBSET Int
    OBVIOUS
  <2> QED
    BY <1>21, <2>1, <1>d DEF NextOpen
<1>22. ASSUME NEW c \in Caller, Remove(c) PROVE Goal
  BY <1>22, <1>e DEF Remove
<1>23. ASSUME NEW c \in Caller, RemoveFails(c) PROVE Goal
  BY <1>23, <1>e DEF RemoveFails
<1>24. ASSUME NEW c \in Caller, GiveUpTurn(c) PROVE Goal
  BY <1>24, <1>a, <1>b, <1>c DEF GiveUpTurn, NoTurn, disk, profile
<1>25. ASSUME NEW a \in Actor, FileError(a) PROVE Goal
  BY <1>25, <1>a, <1>b, <1>c DEF FileError, NoTurn, disk, profile
<1>26. ASSUME NEW p \in Process, Crash(p) PROVE Goal
  BY <1>26, <1>a, <1>b, <1>c DEF Crash, Actor, Home, NoTurn, disk, profile
<1> QED
  BY <1>1, <1>2, <1>3, <1>4, <1>5, <1>6, <1>7, <1>8, <1>9, <1>10, <1>11, <1>12, <1>13, <1>14,
     <1>15, <1>16, <1>17, <1>18, <1>19, <1>20, <1>21, <1>22, <1>23, <1>24, <1>25, <1>26
  DEF Next, Goes, Look, Take, Hold, CollectTurns, SettleTurn, Settles, SettleOwn, Fault, Actor,
      vars, disk, wait, profile, ghosts

\* Turns, the first number waited for, and the numbers to collect keep their types.
LEMMA WaitTyped ==
  ASSUME ConstantsAssumption, Inv, [Next]_vars
  PROVE  /\ mine' \in [Caller -> Token \cup {NoTurn}]
         /\ first' \in [Caller -> Int]
         /\ todo' \in [Caller -> SUBSET Nat]
<1> USE DEF Inv, TypeOK, Actor, ConstantsAssumption
<1> DEFINE Goal == /\ mine' \in [Caller -> Token \cup {NoTurn}]
                   /\ first' \in [Caller -> Int]
                   /\ todo' \in [Caller -> SUBSET Nat]
<1>1. ASSUME UNCHANGED <<mine, first, todo>> PROVE Goal
  BY <1>1 DEF Turn, Seen, Token, NoTurn
<1>2. ASSUME NEW c \in Caller, Arrive(c) \/ CreateTurnDirectory(c) \/ LatestGone(c)
             \/ PublishLoses(c) \/ PredFinished(c) \/ PredChanged(c) \/ Grant(c)
             \/ WriteStore(c) \/ CreateProfile(c) \/ DeleteConfig(c) \/ RecordDeletion(c)
             \/ SectionFails(c) \/ Release(c) \/ CandidateVoid(c) \/ CandidateGranted(c)
             \/ NextFinished(c)
      PROVE  Goal
  BY <1>1, <1>2 DEF Arrive, disk, wait, profile, ghosts, CreateTurnDirectory, LatestGone,
     PublishLoses, PredFinished, PredChanged, Grant, WriteStore, CreateProfile, DeleteConfig,
     RecordDeletion, SectionFails, Release, CandidateVoid, CandidateGranted, NextFinished
<1>3. ASSUME NEW c \in Caller, NEW t \in Token, ListTurns(c, t) PROVE Goal
  BY <1>1, <1>3 DEF ListTurns, disk, wait, profile, ghosts
<1>4. ASSUME NEW a \in Actor, ReadOwner(a) \/ ReadDone(a) \/ SettlePred(a) \/ SettleGrant(a)
             \/ SettleDone(a)
      PROVE  Goal
  BY <1>1, <1>4 DEF ReadOwner, disk, wait, profile, ghosts, ReadDone, SettlePred, SettleGrant,
     SettleDone
<1>5. ASSUME NEW p \in Process, NEW t \in Token, Retry(p, t) PROVE Goal
  BY <1>1, <1>5 DEF Retry, disk, wait, profile, ghosts
<1>6. ASSUME NEW p \in Process, RetryRead(p) PROVE Goal
  BY <1>1, <1>6 DEF RetryRead, disk, wait, profile, ghosts
<1>7. ASSUME NEW c \in Caller, LatestFinished(c) PROVE Goal
  BY <1>7 DEF LatestFinished, ReadsTurn, ReadsHeld, FirstWaited, disk, profile, ghosts,
     MarkedHeld, NoSlot, Turn, Seen, Token, NoTurn
<1>8. ASSUME NEW c \in Caller, LatestBusy(c) PROVE Goal
  BY <1>8 DEF LatestBusy, ReadsTurn, ReadsHeld, Abandoned, FirstWaited, NotReading, disk,
     profile, ghosts, MarkedHeld, NoSlot, NoTurn, Turn, Seen, Token
<1>9. ASSUME NEW c \in Caller, LatestAbandoned(c) PROVE Goal
  BY <1>9 DEF LatestAbandoned, ReadsTurn, Abandoned, FirstWaited, Settle, ReadsHeld, disk,
     profile, ghosts, NoSlot, NoTurn, NotReading, Reading, MarkedHeld, Turn, Seen, Token
<1>10. ASSUME NEW c \in Caller, TimeOut(c) PROVE Goal
  BY <1>10 DEF TimeOut, NoSlot, disk, profile, Turn, Seen, Token, NoTurn
<1>11. ASSUME NEW c \in Caller, Publish(c) PROVE Goal
  BY <1>11 DEF Publish, Here, Reading, profile, ghosts, Token, NoTurn, Turn, Seen
<1>12. ASSUME NEW c \in Caller, VoidTurn(c) PROVE Goal
  BY <1>12 DEF VoidTurn, MarkDone, NoTurn, profile, ghosts, Turn, Seen, Token
<1>13. ASSUME NEW c \in Caller, Enter(c) PROVE Goal
  BY <1>13 DEF Enter, Refused, NoSlot, disk, profile, ghosts, Turn, Seen, Token, NoTurn
<1>14. ASSUME NEW c \in Caller, Collect(c) PROVE Goal
  BY <1>14 DEF Collect, GoOn, OlderTurns, disk, profile, ghosts, NotReading, NoTurn, Reading,
     Listed, NoSlot, Token, Turn, Seen
<1>15. ASSUME NEW c \in Caller, CandidateOpen(c) PROVE Goal
  BY <1>15 DEF CandidateOpen, ReadsGone, ReadsTurn, Skip, disk, profile, ghosts, Here, GoOn,
     Token, NotReading, NoTurn, Reading, NoSlot, Turn, Seen
<1>16. ASSUME NEW c \in Caller, CheckOlder(c) PROVE Goal
  <2>1. CASE NoOlder(c)
    BY <1>16, <2>1 DEF CheckOlder, disk
  <2>2. CASE Skip(c)
    BY <1>16, <2>2 DEF CheckOlder, Skip, GoOn
  <2> QED
    BY <1>16, <2>1, <2>2 DEF CheckOlder
<1>17. ASSUME NEW c \in Caller, NextOpen(c) PROVE Goal
  BY <1>17 DEF NextOpen, ReadsGone, ReadsTurn, ReadsHeld, GoOn, disk, profile, ghosts, Here,
     MarkedHeld, NotReading, NoTurn, Reading, Token, NoSlot, Turn, Seen
<1>18. ASSUME NEW c \in Caller, Remove(c) PROVE Goal
  BY <1>18 DEF Remove, Token, Here, Skip, profile, ghosts, GoOn, NotReading, NoTurn, Reading,
     NoSlot, Turn, Seen
<1>19. ASSUME NEW c \in Caller, RemoveFails(c) PROVE Goal
  BY <1>19 DEF RemoveFails, Skip, disk, profile, ghosts, GoOn, NotReading, NoTurn, Reading,
     NoSlot, Turn, Seen, Token
<1>20. ASSUME NEW c \in Caller, GiveUpTurn(c) PROVE Goal
  BY <1>20 DEF GiveUpTurn, NoTurn, NotReading, NoSlot, disk, profile, Turn, Seen, Token
<1>21. ASSUME NEW a \in Actor, FileError(a) PROVE Goal
  BY <1>21 DEF FileError, NotReading, NoTurn, NoSlot, disk, profile, Turn, Seen, Token
<1>22. ASSUME NEW p \in Process, Crash(p) PROVE Goal
  BY <1>22 DEF Crash, Actor, Home, NotReading, NoTurn, NoSlot, disk, profile, Turn, Seen, Token
<1> QED
  BY <1>1, <1>2, <1>3, <1>4, <1>5, <1>6, <1>7, <1>8, <1>9, <1>10, <1>11, <1>12, <1>13, <1>14,
     <1>15, <1>16, <1>17, <1>18, <1>19, <1>20, <1>21, <1>22
  DEF Next, Goes, Look, Take, Hold, CollectTurns, SettleTurn, Settles, SettleOwn, Fault, Actor,
      vars, disk, wait, profile, ghosts

\* So do the processes, the settlements given up, the profile and the ghosts.
LEMMA RestTyped ==
  ASSUME ConstantsAssumption, Inv, [Next]_vars
  PROVE  /\ up' \subseteq Process
         /\ gaveUp' \in [Process -> SUBSET Token]
         /\ config' \in BOOLEAN
         /\ deletedAt' \in Int
         /\ faults' \in Nat
         /\ erasers' \subseteq Token
         /\ overlap' \in [Caller -> {"no", "removed", "recorded"}]
<1> USE DEF Inv, TypeOK, Actor, ConstantsAssumption
<1> DEFINE Goal == /\ up' \subseteq Process
                   /\ gaveUp' \in [Process -> SUBSET Token]
                   /\ config' \in BOOLEAN
                   /\ deletedAt' \in Int
                   /\ faults' \in Nat
                   /\ erasers' \subseteq Token
                   /\ overlap' \in [Caller -> {"no", "removed", "recorded"}]
<1>1. ASSUME UNCHANGED <<up, gaveUp, config, deletedAt, faults, erasers, overlap>> PROVE Goal
  BY <1>1 DEF Turn, Token, NoTurn
<1>2. ASSUME NEW c \in Caller, Arrive(c) \/ CreateTurnDirectory(c) \/ LatestGone(c)
             \/ LatestFinished(c) \/ LatestBusy(c) \/ LatestAbandoned(c) \/ Publish(c)
             \/ PublishLoses(c) \/ PredFinished(c) \/ PredChanged(c) \/ Grant(c) \/ VoidTurn(c)
             \/ Enter(c) \/ WriteStore(c) \/ Collect(c) \/ CandidateOpen(c) \/ CandidateVoid(c)
             \/ CandidateGranted(c) \/ CheckOlder(c) \/ NextFinished(c) \/ NextOpen(c)
             \/ Remove(c)
      PROVE  Goal
  BY <1>1, <1>2 DEF Arrive, disk, wait, profile, ghosts, CreateTurnDirectory, LatestGone,
     LatestFinished, LatestBusy, LatestAbandoned, Publish, PublishLoses, PredFinished,
     PredChanged, Grant, VoidTurn, Enter, WriteStore, Collect, GoOn, CandidateOpen,
     CandidateVoid, CandidateGranted, CheckOlder, NextFinished, NextOpen, Remove
<1>3. ASSUME NEW c \in Caller, NEW t \in Token, ListTurns(c, t) PROVE Goal
  BY <1>1, <1>3 DEF ListTurns, disk, wait, profile, ghosts
<1>4. ASSUME NEW a \in Actor, ReadOwner(a) \/ ReadDone(a) \/ SettlePred(a) \/ SettleGrant(a)
      PROVE  Goal
  BY <1>1, <1>4 DEF ReadOwner, disk, wait, profile, ghosts, ReadDone, SettlePred, SettleGrant
<1>5. ASSUME NEW p \in Process, NEW t \in Token, Retry(p, t) PROVE Goal
  BY <1>1, <1>5 DEF Retry, disk, wait, profile, ghosts
<1>6. ASSUME NEW c \in Caller, TimeOut(c) PROVE Goal
  BY <1>6 DEF TimeOut, NoSlot, disk, profile, Turn, Token, NoTurn
<1>7. ASSUME NEW a \in Actor, SettleDone(a) PROVE Goal
  BY <1>7 DEF SettleDone, MarkDone, OverlapAtEnd, Home, NoTurn, wait, profile, Waiting, NoSlot,
     Turn, Token
<1>8. ASSUME NEW p \in Process, RetryRead(p) PROVE Goal
  BY <1>8 DEF RetryRead, disk, wait, profile, ghosts
<1>9. ASSUME NEW c \in Caller, CreateProfile(c) PROVE Goal
  BY <1>9 DEF CreateProfile, disk, wait, ghosts, Turn, Token, NoTurn
<1>10. ASSUME NEW c \in Caller, DeleteConfig(c) PROVE Goal
  <2>1. mine[c] \in Token
    BY <1>10 DEF DeleteConfig, Ownership, HasTurn
  <2> QED
    BY <1>10, <2>1 DEF DeleteConfig, disk, wait
<1>11. ASSUME NEW c \in Caller, RecordDeletion(c) PROVE Goal
  BY <1>11 DEF RecordDeletion, disk, wait, ghosts, Turn, Token, NoTurn
<1>12. ASSUME NEW c \in Caller, SectionFails(c) PROVE Goal
  BY <1>12 DEF SectionFails, disk, wait, profile, ghosts, Turn, Token, NoTurn
<1>13. ASSUME NEW c \in Caller, Release(c) PROVE Goal
  BY <1>13 DEF Release, MarkDone, OverlapAtEnd, wait, profile, Waiting, NoSlot, Turn, Token,
     NoTurn
<1>14. ASSUME NEW c \in Caller, RemoveFails(c) PROVE Goal
  BY <1>14 DEF RemoveFails, Skip, disk, profile, ghosts, GoOn, NotReading, NoTurn, Reading,
     NoSlot, Turn, Token
<1>15. ASSUME NEW c \in Caller, GiveUpTurn(c) PROVE Goal
  <2>1. mine[c] \in Token
    BY <1>15 DEF GiveUpTurn, Ownership, HasTurn
  <2> QED
    BY <1>15, <2>1 DEF GiveUpTurn, disk, profile
<1>16. ASSUME NEW a \in Actor, FileError(a) PROVE Goal
  BY <1>16 DEF FileError, NotReading, NoTurn, NoSlot, disk, profile, Turn, Token
<1>17. ASSUME NEW p \in Process, Crash(p) PROVE Goal
  BY <1>17 DEF Crash, Actor, Home, NotReading, NoTurn, NoSlot, disk, profile, Turn, Token
<1> QED
  BY <1>1, <1>2, <1>3, <1>4, <1>5, <1>6, <1>7, <1>8, <1>9, <1>10, <1>11, <1>12, <1>13, <1>14,
     <1>15, <1>16, <1>17
  DEF Next, Goes, Look, Take, Hold, CollectTurns, SettleTurn, Settles, SettleOwn, Fault, Actor,
      vars, disk, wait, profile, ghosts

\* The actors of a process end with it.
LEMMA DeadStep ==
  ASSUME ConstantsAssumption, Inv, [Next]_vars
  PROVE  \A a \in Actor : pc'[a] = "dead" <=> Home(a) \notin up'
<1> USE DEF Inv, TypeOK, Actor, ConstantsAssumption, Ownership
<1> DEFINE Goal == \A a \in Actor : pc'[a] = "dead" <=> Home(a) \notin up'
<1>1. ASSUME UNCHANGED <<pc, up>> PROVE Goal
  BY <1>1 DEF Home
<1>2. ASSUME NEW c \in Caller, CreateTurnDirectory(c) PROVE Goal
  BY <1>1, <1>2 DEF CreateTurnDirectory, wait, profile, ghosts
<1>3. ASSUME NEW a \in Actor, ReadOwner(a) \/ ReadDone(a) PROVE Goal
  BY <1>1, <1>3 DEF ReadOwner, disk, wait, profile, ghosts, ReadDone
<1>4. ASSUME NEW c \in Caller, Arrive(c) PROVE Goal
  BY <1>4 DEF Arrive, disk, wait, profile, ghosts, Home
<1>5. ASSUME NEW c \in Caller, NEW t \in Token, ListTurns(c, t) PROVE Goal
  BY <1>5 DEF ListTurns, disk, wait, profile, ghosts, NoTurn, Home
<1>6. ASSUME NEW c \in Caller, LatestGone(c) PROVE Goal
  BY <1>6 DEF LatestGone, disk, wait, profile, ghosts, NoTurn, Home
<1>7. ASSUME NEW c \in Caller, LatestFinished(c) PROVE Goal
  BY <1>7 DEF LatestFinished, disk, profile, ghosts, Home
<1>8. ASSUME NEW c \in Caller, LatestBusy(c) PROVE Goal
  BY <1>8 DEF LatestBusy, disk, profile, ghosts, NoTurn, Home
<1>9. ASSUME NEW c \in Caller, LatestAbandoned(c) PROVE Goal
  BY <1>9 DEF LatestAbandoned, Settle, disk, profile, ghosts, NoTurn, Home
<1>10. ASSUME NEW c \in Caller, TimeOut(c) PROVE Goal
  BY <1>10 DEF TimeOut, disk, profile, Home
<1>11. ASSUME NEW c \in Caller, Publish(c) PROVE Goal
  BY <1>11 DEF Publish, profile, ghosts, NoTurn, Home
<1>12. ASSUME NEW c \in Caller, PublishLoses(c) PROVE Goal
  BY <1>12 DEF PublishLoses, disk, wait, profile, ghosts, NoTurn, Home
<1>13. ASSUME NEW c \in Caller, PredFinished(c) PROVE Goal
  BY <1>13 DEF PredFinished, disk, wait, profile, ghosts, NoTurn, Home
<1>14. ASSUME NEW c \in Caller, PredChanged(c) PROVE Goal
  BY <1>14 DEF PredChanged, disk, wait, profile, ghosts, NoTurn, Home
<1>15. ASSUME NEW c \in Caller, Grant(c) PROVE Goal
  BY <1>15 DEF Grant, MarkHeld, PathExists, wait, profile, ghosts, Home
<1>16. ASSUME NEW c \in Caller, VoidTurn(c) PROVE Goal
  BY <1>16 DEF VoidTurn, MarkDone, NoTurn, profile, ghosts, Home
<1>17. ASSUME NEW a \in Actor, SettlePred(a) PROVE Goal
  BY <1>17 DEF SettlePred, disk, wait, profile, ghosts, NoTurn, Home
<1>18. ASSUME NEW a \in Actor, SettleGrant(a) PROVE Goal
  BY <1>18 DEF SettleGrant, MarkHeld, wait, profile, ghosts, Home
<1>19. ASSUME NEW a \in Actor, SettleDone(a) PROVE Goal
  BY <1>19 DEF SettleDone, MarkDone, OverlapAtEnd, Home, NoTurn, wait, profile, Waiting
<1>20. ASSUME NEW p \in Process, NEW t \in Token, Retry(p, t) PROVE Goal
  BY <1>20 DEF Retry, disk, wait, profile, ghosts, NoTurn, Home
<1>21. ASSUME NEW p \in Process, RetryRead(p) PROVE Goal
  BY <1>21 DEF RetryRead, Settle, NoTurn, disk, wait, profile, ghosts, Home
<1>22. ASSUME NEW c \in Caller, Enter(c) PROVE Goal
  BY <1>22 DEF Enter, Refused, disk, profile, ghosts, Home
<1>23. ASSUME NEW c \in Caller, WriteStore(c) PROVE Goal
  BY <1>23 DEF WriteStore, disk, wait, profile, ghosts, Home
<1>24. ASSUME NEW c \in Caller, CreateProfile(c) PROVE Goal
  BY <1>24 DEF CreateProfile, disk, wait, ghosts, Home
<1>25. ASSUME NEW c \in Caller, DeleteConfig(c) PROVE Goal
  BY <1>25 DEF DeleteConfig, disk, wait, Home
<1>26. ASSUME NEW c \in Caller, RecordDeletion(c) PROVE Goal
  BY <1>26 DEF RecordDeletion, disk, wait, ghosts, Home
<1>27. ASSUME NEW c \in Caller, SectionFails(c) PROVE Goal
  BY <1>27 DEF SectionFails, disk, wait, profile, ghosts, Home
<1>28. ASSUME NEW c \in Caller, Release(c) PROVE Goal
  BY <1>28 DEF Release, MarkDone, OverlapAtEnd, wait, profile, Waiting, Home
<1>29. ASSUME NEW c \in Caller, Collect(c) PROVE Goal
  BY <1>29 DEF Collect, GoOn, disk, profile, ghosts, NoTurn, Home
<1>30. ASSUME NEW c \in Caller, CandidateOpen(c) PROVE Goal
  BY <1>30 DEF CandidateOpen, Skip, disk, profile, ghosts, GoOn, NoTurn, Home
<1>31. ASSUME NEW c \in Caller, CandidateVoid(c) PROVE Goal
  BY <1>31 DEF CandidateVoid, disk, wait, profile, ghosts, Home
<1>32. ASSUME NEW c \in Caller, CandidateGranted(c) PROVE Goal
  BY <1>32 DEF CandidateGranted, disk, wait, profile, ghosts, Home
<1>33. ASSUME NEW c \in Caller, CheckOlder(c) PROVE Goal
  <2>1. CASE NoOlder(c)
    BY <1>33, <2>1 DEF CheckOlder, disk
  <2>2. CASE Skip(c)
    BY <1>33, <2>2 DEF CheckOlder, Skip, GoOn, disk
  <2> QED
    BY <1>33, <2>1, <2>2 DEF CheckOlder
<1>34. ASSUME NEW c \in Caller, NextFinished(c) PROVE Goal
  BY <1>34 DEF NextFinished, disk, wait, profile, ghosts, NoTurn, Home
<1>35. ASSUME NEW c \in Caller, NextOpen(c) PROVE Goal
  BY <1>35 DEF NextOpen, GoOn, disk, profile, ghosts, NoTurn, Home
<1>36. ASSUME NEW c \in Caller, Remove(c) PROVE Goal
  BY <1>36 DEF Remove, Skip, profile, ghosts, GoOn, NoTurn, Home
<1>37. ASSUME NEW c \in Caller, RemoveFails(c) PROVE Goal
  BY <1>37 DEF RemoveFails, Skip, disk, profile, ghosts, GoOn, NoTurn, Home
<1>38. ASSUME NEW c \in Caller, GiveUpTurn(c) PROVE Goal
  BY <1>38 DEF GiveUpTurn, NoTurn, disk, profile, Home
<1>39. ASSUME NEW a \in Actor, FileError(a) PROVE Goal
  BY <1>39 DEF FileError, NoTurn, disk, profile, Home
<1>40. ASSUME NEW p \in Process, Crash(p) PROVE Goal
  BY <1>40 DEF Crash, Actor, Home, NoTurn, disk, profile
<1> QED
  BY <1>1, <1>2, <1>3, <1>4, <1>5, <1>6, <1>7, <1>8, <1>9, <1>10, <1>11, <1>12, <1>13, <1>14,
     <1>15, <1>16, <1>17, <1>18, <1>19, <1>20, <1>21, <1>22, <1>23, <1>24, <1>25, <1>26, <1>27,
     <1>28, <1>29, <1>30, <1>31, <1>32, <1>33, <1>34, <1>35, <1>36, <1>37, <1>38, <1>39, <1>40
  DEF Next, Goes, Look, Take, Hold, CollectTurns, SettleTurn, Settles, SettleOwn, Fault, Actor,
      vars, disk, wait, profile, ghosts

\* A caller has a turn from its publication to the end of its collection.
LEMMA MineStep ==
  ASSUME ConstantsAssumption, Inv, [Next]_vars
  PROVE  \A c \in Caller : mine'[c] # NoTurn <=> pc'[c] \in HasTurn
<1> USE DEF Inv, TypeOK, Actor, ConstantsAssumption, Ownership
<1>p. NoTurn \notin Token /\ \A p \in Process : p \notin Caller
  BY DEF NoTurn, Token
<1> DEFINE Goal == \A c \in Caller : mine'[c] # NoTurn <=> pc'[c] \in HasTurn
<1>1. ASSUME UNCHANGED <<pc, mine>> PROVE Goal
  BY <1>1 DEF HasTurn, NoTurn
<1>2. ASSUME NEW c \in Caller, CreateTurnDirectory(c) PROVE Goal
  BY <1>1, <1>2 DEF CreateTurnDirectory, wait, profile, ghosts
<1>3. ASSUME NEW a \in Actor, ReadOwner(a) \/ ReadDone(a) PROVE Goal
  BY <1>1, <1>3 DEF ReadOwner, disk, wait, profile, ghosts, ReadDone
<1>4. ASSUME NEW c \in Caller, Arrive(c) PROVE Goal
  BY <1>4, <1>p DEF Arrive, disk, wait, profile, ghosts, HasTurn, NoTurn
<1>5. ASSUME NEW c \in Caller, NEW t \in Token, ListTurns(c, t) PROVE Goal
  BY <1>5, <1>p DEF ListTurns, disk, wait, profile, ghosts, NoTurn, HasTurn
<1>6. ASSUME NEW c \in Caller, LatestGone(c) PROVE Goal
  BY <1>6, <1>p DEF LatestGone, disk, wait, profile, ghosts, NoTurn, HasTurn
<1>7. ASSUME NEW c \in Caller, LatestFinished(c) PROVE Goal
  BY <1>7, <1>p DEF LatestFinished, disk, profile, ghosts, HasTurn, NoTurn
<1>8. ASSUME NEW c \in Caller, LatestBusy(c) PROVE Goal
  BY <1>8, <1>p DEF LatestBusy, disk, profile, ghosts, NoTurn, HasTurn
<1>9. ASSUME NEW c \in Caller, LatestAbandoned(c) PROVE Goal
  BY <1>9, <1>p DEF LatestAbandoned, Settle, disk, profile, ghosts, NoTurn, HasTurn
<1>10. ASSUME NEW c \in Caller, TimeOut(c) PROVE Goal
  BY <1>10, <1>p DEF TimeOut, disk, profile, HasTurn, NoTurn
<1>11. ASSUME NEW c \in Caller, Publish(c) PROVE Goal
  BY <1>11, <1>p DEF Publish, profile, ghosts, NoTurn, HasTurn
<1>12. ASSUME NEW c \in Caller, PublishLoses(c) PROVE Goal
  BY <1>12, <1>p DEF PublishLoses, disk, wait, profile, ghosts, NoTurn, HasTurn
<1>13. ASSUME NEW c \in Caller, PredFinished(c) PROVE Goal
  BY <1>13, <1>p DEF PredFinished, disk, wait, profile, ghosts, NoTurn, HasTurn
<1>14. ASSUME NEW c \in Caller, PredChanged(c) PROVE Goal
  BY <1>14, <1>p DEF PredChanged, disk, wait, profile, ghosts, NoTurn, HasTurn
<1>15. ASSUME NEW c \in Caller, Grant(c) PROVE Goal
  BY <1>15, <1>p DEF Grant, MarkHeld, PathExists, wait, profile, ghosts, HasTurn, NoTurn
<1>16. ASSUME NEW c \in Caller, VoidTurn(c) PROVE Goal
  BY <1>16, <1>p DEF VoidTurn, MarkDone, NoTurn, profile, ghosts, HasTurn
<1>17. ASSUME NEW a \in Actor, SettlePred(a) PROVE Goal
  BY <1>17, <1>p DEF SettlePred, disk, wait, profile, ghosts, NoTurn, HasTurn
<1>18. ASSUME NEW a \in Actor, SettleGrant(a) PROVE Goal
  BY <1>18, <1>p DEF SettleGrant, MarkHeld, wait, profile, ghosts, HasTurn, NoTurn
<1>19. ASSUME NEW a \in Actor, SettleDone(a) PROVE Goal
  BY <1>19, <1>p DEF SettleDone, MarkDone, OverlapAtEnd, Home, NoTurn, wait, profile, Waiting,
     HasTurn
<1>20. ASSUME NEW p \in Process, NEW t \in Token, Retry(p, t) PROVE Goal
  BY <1>20, <1>p DEF Retry, disk, wait, profile, ghosts, NoTurn, HasTurn
<1>21. ASSUME NEW p \in Process, RetryRead(p) PROVE Goal
  BY <1>21, <1>p DEF RetryRead, Settle, NoTurn, disk, wait, profile, ghosts, HasTurn
<1>22. ASSUME NEW c \in Caller, Enter(c) PROVE Goal
  BY <1>22, <1>p DEF Enter, Refused, disk, profile, ghosts, HasTurn, NoTurn
<1>23. ASSUME NEW c \in Caller, WriteStore(c) PROVE Goal
  BY <1>23, <1>p DEF WriteStore, disk, wait, profile, ghosts, HasTurn, NoTurn
<1>24. ASSUME NEW c \in Caller, CreateProfile(c) PROVE Goal
  BY <1>24, <1>p DEF CreateProfile, disk, wait, ghosts, HasTurn, NoTurn
<1>25. ASSUME NEW c \in Caller, DeleteConfig(c) PROVE Goal
  BY <1>25, <1>p DEF DeleteConfig, disk, wait, HasTurn, NoTurn
<1>26. ASSUME NEW c \in Caller, RecordDeletion(c) PROVE Goal
  BY <1>26, <1>p DEF RecordDeletion, disk, wait, ghosts, HasTurn, NoTurn
<1>27. ASSUME NEW c \in Caller, SectionFails(c) PROVE Goal
  BY <1>27, <1>p DEF SectionFails, disk, wait, profile, ghosts, HasTurn, NoTurn
<1>28. ASSUME NEW c \in Caller, Release(c) PROVE Goal
  BY <1>28, <1>p DEF Release, MarkDone, OverlapAtEnd, wait, profile, Waiting, HasTurn, NoTurn
<1>29. ASSUME NEW c \in Caller, Collect(c) PROVE Goal
  BY <1>29, <1>p DEF Collect, GoOn, disk, profile, ghosts, NoTurn, HasTurn
<1>30. ASSUME NEW c \in Caller, CandidateOpen(c) PROVE Goal
  BY <1>30, <1>p DEF CandidateOpen, Skip, disk, profile, ghosts, GoOn, NoTurn, HasTurn
<1>31. ASSUME NEW c \in Caller, CandidateVoid(c) PROVE Goal
  BY <1>31, <1>p DEF CandidateVoid, disk, wait, profile, ghosts, HasTurn, NoTurn
<1>32. ASSUME NEW c \in Caller, CandidateGranted(c) PROVE Goal
  BY <1>32, <1>p DEF CandidateGranted, disk, wait, profile, ghosts, HasTurn, NoTurn
<1>33. ASSUME NEW c \in Caller, CheckOlder(c) PROVE Goal
  <2>1. CASE NoOlder(c)
    BY <1>33, <2>1 DEF CheckOlder, HasTurn
  <2>2. CASE Skip(c)
    BY <1>33, <2>2 DEF CheckOlder, Skip, GoOn, HasTurn
  <2> QED
    BY <1>33, <2>1, <2>2 DEF CheckOlder
<1>34. ASSUME NEW c \in Caller, NextFinished(c) PROVE Goal
  BY <1>34, <1>p DEF NextFinished, disk, wait, profile, ghosts, NoTurn, HasTurn
<1>35. ASSUME NEW c \in Caller, NextOpen(c) PROVE Goal
  BY <1>35, <1>p DEF NextOpen, GoOn, disk, profile, ghosts, NoTurn, HasTurn
<1>36. ASSUME NEW c \in Caller, Remove(c) PROVE Goal
  BY <1>36, <1>p DEF Remove, Skip, profile, ghosts, GoOn, NoTurn, HasTurn
<1>37. ASSUME NEW c \in Caller, RemoveFails(c) PROVE Goal
  BY <1>37, <1>p DEF RemoveFails, Skip, disk, profile, ghosts, GoOn, NoTurn, HasTurn
<1>38. ASSUME NEW c \in Caller, GiveUpTurn(c) PROVE Goal
  BY <1>38, <1>p DEF GiveUpTurn, NoTurn, disk, profile, HasTurn
<1>39. ASSUME NEW a \in Actor, FileError(a) PROVE Goal
  BY <1>39, <1>p DEF FileError, NoTurn, disk, profile, HasTurn
<1>40. ASSUME NEW p \in Process, Crash(p) PROVE Goal
  BY <1>40, <1>p DEF Crash, Actor, Home, NoTurn, disk, profile, HasTurn
<1> QED
  BY <1>1, <1>2, <1>3, <1>4, <1>5, <1>6, <1>7, <1>8, <1>9, <1>10, <1>11, <1>12, <1>13, <1>14,
     <1>15, <1>16, <1>17, <1>18, <1>19, <1>20, <1>21, <1>22, <1>23, <1>24, <1>25, <1>26, <1>27,
     <1>28, <1>29, <1>30, <1>31, <1>32, <1>33, <1>34, <1>35, <1>36, <1>37, <1>38, <1>39, <1>40
  DEF Next, Goes, Look, Take, Hold, CollectTurns, SettleTurn, Settles, SettleOwn, Fault, Actor,
      vars, disk, wait, profile, ghosts

\* Who settles a turn has one to settle.
LEMMA TargetStep ==
  ASSUME ConstantsAssumption, Inv, [Next]_vars
  PROVE  \A a \in Actor : target'[a] # NoTurn <=> pc'[a] \in Settling
<1> USE DEF Inv, TypeOK, Actor, ConstantsAssumption, Ownership
<1>p. NoTurn \notin Token /\ \A p \in Process : p \notin Caller
  BY DEF NoTurn, Token
<1> DEFINE Goal == \A a \in Actor : target'[a] # NoTurn <=> pc'[a] \in Settling
<1>1. ASSUME UNCHANGED <<pc, target>> PROVE Goal
  BY <1>1 DEF Settling, NoTurn
<1>2. ASSUME NEW c \in Caller, CreateTurnDirectory(c) PROVE Goal
  BY <1>1, <1>2 DEF CreateTurnDirectory, wait, profile, ghosts
<1>3. ASSUME NEW a \in Actor, ReadOwner(a) \/ ReadDone(a) PROVE Goal
  BY <1>1, <1>3 DEF ReadOwner, disk, wait, profile, ghosts, ReadDone
<1>4. ASSUME NEW c \in Caller, Arrive(c) PROVE Goal
  BY <1>4, <1>p DEF Arrive, disk, wait, profile, ghosts, Settling, NoTurn
<1>5. ASSUME NEW c \in Caller, NEW t \in Token, ListTurns(c, t) PROVE Goal
  BY <1>5, <1>p DEF ListTurns, disk, wait, profile, ghosts, NoTurn, Settling
<1>6. ASSUME NEW c \in Caller, LatestGone(c) PROVE Goal
  BY <1>6, <1>p DEF LatestGone, disk, wait, profile, ghosts, NoTurn, Settling
<1>7. ASSUME NEW c \in Caller, LatestFinished(c) PROVE Goal
  BY <1>7, <1>p DEF LatestFinished, disk, profile, ghosts, Settling, NoTurn
<1>8. ASSUME NEW c \in Caller, LatestBusy(c) PROVE Goal
  BY <1>8, <1>p DEF LatestBusy, disk, profile, ghosts, NoTurn, Settling
<1>9. ASSUME NEW c \in Caller, LatestAbandoned(c) PROVE Goal
  <2>1. seen[c].token # NoTurn
    BY <1>9 DEF LatestAbandoned, ReadsTurn, Reads
  <2> QED
    BY <1>9, <2>1 DEF LatestAbandoned, Settle, Settling
<1>10. ASSUME NEW c \in Caller, TimeOut(c) PROVE Goal
  BY <1>10, <1>p DEF TimeOut, disk, profile, Settling, NoTurn
<1>11. ASSUME NEW c \in Caller, Publish(c) PROVE Goal
  BY <1>11, <1>p DEF Publish, profile, ghosts, NoTurn, Settling
<1>12. ASSUME NEW c \in Caller, PublishLoses(c) PROVE Goal
  BY <1>12, <1>p DEF PublishLoses, disk, wait, profile, ghosts, NoTurn, Settling
<1>13. ASSUME NEW c \in Caller, PredFinished(c) PROVE Goal
  BY <1>13, <1>p DEF PredFinished, disk, wait, profile, ghosts, NoTurn, Settling
<1>14. ASSUME NEW c \in Caller, PredChanged(c) PROVE Goal
  BY <1>14, <1>p DEF PredChanged, disk, wait, profile, ghosts, NoTurn, Settling
<1>15. ASSUME NEW c \in Caller, Grant(c) PROVE Goal
  BY <1>15, <1>p DEF Grant, MarkHeld, PathExists, wait, profile, ghosts, Settling, NoTurn
<1>16. ASSUME NEW c \in Caller, VoidTurn(c) PROVE Goal
  BY <1>16, <1>p DEF VoidTurn, MarkDone, NoTurn, profile, ghosts, Settling
<1>17. ASSUME NEW a \in Actor, SettlePred(a) PROVE Goal
  BY <1>17, <1>p DEF SettlePred, disk, wait, profile, ghosts, NoTurn, Settling
<1>18. ASSUME NEW a \in Actor, SettleGrant(a) PROVE Goal
  BY <1>18, <1>p DEF SettleGrant, MarkHeld, wait, profile, ghosts, Settling, NoTurn
<1>19. ASSUME NEW a \in Actor, SettleDone(a) PROVE Goal
  BY <1>19, <1>p DEF SettleDone, MarkDone, OverlapAtEnd, Home, NoTurn, wait, profile, Waiting,
     Settling
<1>20. ASSUME NEW p \in Process, NEW t \in Token, Retry(p, t) PROVE Goal
  BY <1>20, <1>p DEF Retry, disk, wait, profile, ghosts, NoTurn, Settling
<1>21. ASSUME NEW p \in Process, RetryRead(p) PROVE Goal
  BY <1>21, <1>p DEF RetryRead, Settle, NoTurn, disk, wait, profile, ghosts, Settling
<1>22. ASSUME NEW c \in Caller, Enter(c) PROVE Goal
  BY <1>22, <1>p DEF Enter, Refused, disk, profile, ghosts, Settling, NoTurn
<1>23. ASSUME NEW c \in Caller, WriteStore(c) PROVE Goal
  BY <1>23, <1>p DEF WriteStore, disk, wait, profile, ghosts, Settling, NoTurn
<1>24. ASSUME NEW c \in Caller, CreateProfile(c) PROVE Goal
  BY <1>24, <1>p DEF CreateProfile, disk, wait, ghosts, Settling, NoTurn
<1>25. ASSUME NEW c \in Caller, DeleteConfig(c) PROVE Goal
  BY <1>25, <1>p DEF DeleteConfig, disk, wait, Settling, NoTurn
<1>26. ASSUME NEW c \in Caller, RecordDeletion(c) PROVE Goal
  BY <1>26, <1>p DEF RecordDeletion, disk, wait, ghosts, Settling, NoTurn
<1>27. ASSUME NEW c \in Caller, SectionFails(c) PROVE Goal
  BY <1>27, <1>p DEF SectionFails, disk, wait, profile, ghosts, Settling, NoTurn
<1>28. ASSUME NEW c \in Caller, Release(c) PROVE Goal
  BY <1>28, <1>p DEF Release, MarkDone, OverlapAtEnd, wait, profile, Waiting, Settling, NoTurn
<1>29. ASSUME NEW c \in Caller, Collect(c) PROVE Goal
  BY <1>29, <1>p DEF Collect, GoOn, disk, profile, ghosts, NoTurn, Settling
<1>30. ASSUME NEW c \in Caller, CandidateOpen(c) PROVE Goal
  BY <1>30, <1>p DEF CandidateOpen, Skip, disk, profile, ghosts, GoOn, NoTurn, Settling
<1>31. ASSUME NEW c \in Caller, CandidateVoid(c) PROVE Goal
  BY <1>31, <1>p DEF CandidateVoid, disk, wait, profile, ghosts, Settling, NoTurn
<1>32. ASSUME NEW c \in Caller, CandidateGranted(c) PROVE Goal
  BY <1>32, <1>p DEF CandidateGranted, disk, wait, profile, ghosts, Settling, NoTurn
<1>33. ASSUME NEW c \in Caller, CheckOlder(c) PROVE Goal
  <2>1. CASE NoOlder(c)
    BY <1>33, <2>1 DEF CheckOlder, Settling
  <2>2. CASE Skip(c)
    BY <1>33, <2>2 DEF CheckOlder, Skip, GoOn, Settling
  <2> QED
    BY <1>33, <2>1, <2>2 DEF CheckOlder
<1>34. ASSUME NEW c \in Caller, NextFinished(c) PROVE Goal
  BY <1>34, <1>p DEF NextFinished, disk, wait, profile, ghosts, NoTurn, Settling
<1>35. ASSUME NEW c \in Caller, NextOpen(c) PROVE Goal
  BY <1>35, <1>p DEF NextOpen, GoOn, disk, profile, ghosts, NoTurn, Settling
<1>36. ASSUME NEW c \in Caller, Remove(c) PROVE Goal
  BY <1>36, <1>p DEF Remove, Skip, profile, ghosts, GoOn, NoTurn, Settling
<1>37. ASSUME NEW c \in Caller, RemoveFails(c) PROVE Goal
  BY <1>37, <1>p DEF RemoveFails, Skip, disk, profile, ghosts, GoOn, NoTurn, Settling
<1>38. ASSUME NEW c \in Caller, GiveUpTurn(c) PROVE Goal
  BY <1>38, <1>p DEF GiveUpTurn, NoTurn, disk, profile, Settling
<1>39. ASSUME NEW a \in Actor, FileError(a) PROVE Goal
  BY <1>39, <1>p DEF FileError, NoTurn, disk, profile, Settling
<1>40. ASSUME NEW p \in Process, Crash(p) PROVE Goal
  BY <1>40, <1>p DEF Crash, Actor, Home, NoTurn, disk, profile, Settling
<1> QED
  BY <1>1, <1>2, <1>3, <1>4, <1>5, <1>6, <1>7, <1>8, <1>9, <1>10, <1>11, <1>12, <1>13, <1>14,
     <1>15, <1>16, <1>17, <1>18, <1>19, <1>20, <1>21, <1>22, <1>23, <1>24, <1>25, <1>26, <1>27,
     <1>28, <1>29, <1>30, <1>31, <1>32, <1>33, <1>34, <1>35, <1>36, <1>37, <1>38, <1>39, <1>40
  DEF Next, Goes, Look, Take, Hold, CollectTurns, SettleTurn, Settles, SettleOwn, Fault, Actor,
      vars, disk, wait, profile, ghosts

\* Numbers are left to collect in a collection only.
LEMMA TodoEmpty ==
  ASSUME ConstantsAssumption, Inv, [Next]_vars
  PROVE  \A c \in Caller : todo'[c] # {} => pc'[c] \in {"candidate", "older", "next", "remove"}
<1> USE DEF Inv, TypeOK, Actor, ConstantsAssumption, Ownership
<1> DEFINE Goal == \A c \in Caller : todo'[c] # {} =>
                       pc'[c] \in {"candidate", "older", "next", "remove"}
<1>1. ASSUME UNCHANGED <<pc, todo>> PROVE Goal
  BY <1>1
<1>2. ASSUME NEW c \in Caller, CreateTurnDirectory(c) PROVE Goal
  BY <1>1, <1>2 DEF CreateTurnDirectory, wait, profile, ghosts
<1>3. ASSUME NEW a \in Actor, ReadOwner(a) \/ ReadDone(a) PROVE Goal
  BY <1>1, <1>3 DEF ReadOwner, disk, wait, profile, ghosts, ReadDone
<1>4. ASSUME NEW c \in Caller, Arrive(c) PROVE Goal
  BY <1>4 DEF Arrive, disk, wait, profile, ghosts
<1>5. ASSUME NEW c \in Caller, NEW t \in Token, ListTurns(c, t) PROVE Goal
  BY <1>5 DEF ListTurns, disk, wait, profile, ghosts, NoTurn
<1>6. ASSUME NEW c \in Caller, LatestGone(c) PROVE Goal
  BY <1>6 DEF LatestGone, disk, wait, profile, ghosts, NoTurn
<1>7. ASSUME NEW c \in Caller, LatestFinished(c) PROVE Goal
  BY <1>7 DEF LatestFinished, disk, profile, ghosts
<1>8. ASSUME NEW c \in Caller, LatestBusy(c) PROVE Goal
  BY <1>8 DEF LatestBusy, disk, profile, ghosts, NoTurn
<1>9. ASSUME NEW c \in Caller, LatestAbandoned(c) PROVE Goal
  BY <1>9 DEF LatestAbandoned, Settle, disk, profile, ghosts, NoTurn
<1>10. ASSUME NEW c \in Caller, TimeOut(c) PROVE Goal
  BY <1>10 DEF TimeOut, disk, profile
<1>11. ASSUME NEW c \in Caller, Publish(c) PROVE Goal
  BY <1>11 DEF Publish, profile, ghosts, NoTurn
<1>12. ASSUME NEW c \in Caller, PublishLoses(c) PROVE Goal
  BY <1>12 DEF PublishLoses, disk, wait, profile, ghosts, NoTurn
<1>13. ASSUME NEW c \in Caller, PredFinished(c) PROVE Goal
  BY <1>13 DEF PredFinished, disk, wait, profile, ghosts, NoTurn
<1>14. ASSUME NEW c \in Caller, PredChanged(c) PROVE Goal
  BY <1>14 DEF PredChanged, disk, wait, profile, ghosts, NoTurn
<1>15. ASSUME NEW c \in Caller, Grant(c) PROVE Goal
  BY <1>15 DEF Grant, MarkHeld, PathExists, wait, profile, ghosts
<1>16. ASSUME NEW c \in Caller, VoidTurn(c) PROVE Goal
  BY <1>16 DEF VoidTurn, MarkDone, NoTurn, profile, ghosts
<1>17. ASSUME NEW a \in Actor, SettlePred(a) PROVE Goal
  BY <1>17 DEF SettlePred, disk, wait, profile, ghosts, NoTurn
<1>18. ASSUME NEW a \in Actor, SettleGrant(a) PROVE Goal
  BY <1>18 DEF SettleGrant, MarkHeld, wait, profile, ghosts
<1>19. ASSUME NEW a \in Actor, SettleDone(a) PROVE Goal
  BY <1>19 DEF SettleDone, MarkDone, OverlapAtEnd, Home, NoTurn, wait, profile, Waiting
<1>20. ASSUME NEW p \in Process, NEW t \in Token, Retry(p, t) PROVE Goal
  BY <1>20 DEF Retry, disk, wait, profile, ghosts, NoTurn
<1>21. ASSUME NEW p \in Process, RetryRead(p) PROVE Goal
  BY <1>21 DEF RetryRead, Settle, NoTurn, disk, wait, profile, ghosts
<1>22. ASSUME NEW c \in Caller, Enter(c) PROVE Goal
  BY <1>22 DEF Enter, Refused, disk, profile, ghosts
<1>23. ASSUME NEW c \in Caller, WriteStore(c) PROVE Goal
  BY <1>23 DEF WriteStore, disk, wait, profile, ghosts
<1>24. ASSUME NEW c \in Caller, CreateProfile(c) PROVE Goal
  BY <1>24 DEF CreateProfile, disk, wait, ghosts
<1>25. ASSUME NEW c \in Caller, DeleteConfig(c) PROVE Goal
  BY <1>25 DEF DeleteConfig, disk, wait
<1>26. ASSUME NEW c \in Caller, RecordDeletion(c) PROVE Goal
  BY <1>26 DEF RecordDeletion, disk, wait, ghosts
<1>27. ASSUME NEW c \in Caller, SectionFails(c) PROVE Goal
  BY <1>27 DEF SectionFails, disk, wait, profile, ghosts
<1>28. ASSUME NEW c \in Caller, Release(c) PROVE Goal
  BY <1>28 DEF Release, MarkDone, OverlapAtEnd, wait, profile, Waiting
<1>29. ASSUME NEW c \in Caller, Collect(c) PROVE Goal
  BY <1>29 DEF Collect, GoOn, disk, profile, ghosts, NoTurn
<1>30. ASSUME NEW c \in Caller, CandidateOpen(c) PROVE Goal
  BY <1>30 DEF CandidateOpen, Skip, disk, profile, ghosts, GoOn, NoTurn
<1>31. ASSUME NEW c \in Caller, CandidateVoid(c) PROVE Goal
  BY <1>31 DEF CandidateVoid, disk, wait, profile, ghosts
<1>32. ASSUME NEW c \in Caller, CandidateGranted(c) PROVE Goal
  BY <1>32 DEF CandidateGranted, disk, wait, profile, ghosts
<1>33. ASSUME NEW c \in Caller, CheckOlder(c) PROVE Goal
  <2>1. CASE NoOlder(c)
    BY <1>33, <2>1 DEF CheckOlder, disk
  <2>2. CASE Skip(c)
    BY <1>33, <2>2 DEF CheckOlder, Skip, GoOn, disk
  <2> QED
    BY <1>33, <2>1, <2>2 DEF CheckOlder
<1>34. ASSUME NEW c \in Caller, NextFinished(c) PROVE Goal
  BY <1>34 DEF NextFinished, disk, wait, profile, ghosts, NoTurn
<1>35. ASSUME NEW c \in Caller, NextOpen(c) PROVE Goal
  BY <1>35 DEF NextOpen, GoOn, disk, profile, ghosts, NoTurn
<1>36. ASSUME NEW c \in Caller, Remove(c) PROVE Goal
  BY <1>36 DEF Remove, Skip, profile, ghosts, GoOn, NoTurn
<1>37. ASSUME NEW c \in Caller, RemoveFails(c) PROVE Goal
  BY <1>37 DEF RemoveFails, Skip, disk, profile, ghosts, GoOn, NoTurn
<1>38. ASSUME NEW c \in Caller, GiveUpTurn(c) PROVE Goal
  BY <1>38 DEF GiveUpTurn, NoTurn, disk, profile
<1>39. ASSUME NEW a \in Actor, FileError(a) PROVE Goal
  BY <1>39 DEF FileError, NoTurn, disk, profile
<1>40. ASSUME NEW p \in Process, Crash(p) PROVE Goal
  BY <1>40 DEF Crash, Actor, Home, NoTurn, disk, profile
<1> QED
  BY <1>1, <1>2, <1>3, <1>4, <1>5, <1>6, <1>7, <1>8, <1>9, <1>10, <1>11, <1>12, <1>13, <1>14,
     <1>15, <1>16, <1>17, <1>18, <1>19, <1>20, <1>21, <1>22, <1>23, <1>24, <1>25, <1>26, <1>27,
     <1>28, <1>29, <1>30, <1>31, <1>32, <1>33, <1>34, <1>35, <1>36, <1>37, <1>38, <1>39, <1>40
  DEF Next, Goes, Look, Take, Hold, CollectTurns, SettleTurn, Settles, SettleOwn, Fault, Actor,
      vars, disk, wait, profile, ghosts

\* A caller's turn is published by it, and it parts with it; nothing else.
LEMMA MineChanges ==
  ASSUME ConstantsAssumption, Inv, [Next]_vars
  PROVE  \A c \in Caller :
           \/ mine'[c] = mine[c]
           \/ mine'[c] = NoTurn
           \/ Publish(c) /\ mine' = [mine EXCEPT ![c] = issued']
<1> USE DEF Inv, TypeOK, Actor, ConstantsAssumption
<1> DEFINE Goal == \A c \in Caller :
                     \/ mine'[c] = mine[c]
                     \/ mine'[c] = NoTurn
                     \/ Publish(c) /\ mine' = [mine EXCEPT ![c] = issued']
<1>1. ASSUME UNCHANGED mine PROVE Goal
  BY <1>1
<1>2. ASSUME NEW c \in Caller, Arrive(c) \/ CreateTurnDirectory(c) \/ LatestGone(c)
             \/ LatestFinished(c) \/ LatestBusy(c) \/ LatestAbandoned(c) \/ TimeOut(c)
             \/ PublishLoses(c) \/ PredFinished(c) \/ PredChanged(c) \/ Grant(c) \/ Enter(c)
             \/ WriteStore(c) \/ CreateProfile(c) \/ DeleteConfig(c) \/ RecordDeletion(c)
             \/ SectionFails(c) \/ Release(c) \/ CandidateVoid(c) \/ CandidateGranted(c)
             \/ NextFinished(c)
      PROVE  Goal
  BY <1>1, <1>2 DEF Arrive, disk, wait, profile, ghosts, CreateTurnDirectory, LatestGone,
     LatestFinished, LatestBusy, LatestAbandoned, TimeOut, PublishLoses, PredFinished,
     PredChanged, Grant, Enter, WriteStore, CreateProfile, DeleteConfig, RecordDeletion,
     SectionFails, Release, CandidateVoid, CandidateGranted, NextFinished
<1>3. ASSUME NEW c \in Caller, NEW t \in Token, ListTurns(c, t) PROVE Goal
  BY <1>1, <1>3 DEF ListTurns, disk, wait, profile, ghosts
<1>4. ASSUME NEW a \in Actor, ReadOwner(a) \/ ReadDone(a) \/ SettlePred(a) \/ SettleGrant(a)
             \/ SettleDone(a)
      PROVE  Goal
  BY <1>1, <1>4 DEF ReadOwner, disk, wait, profile, ghosts, ReadDone, SettlePred, SettleGrant,
     SettleDone
<1>5. ASSUME NEW p \in Process, NEW t \in Token, Retry(p, t) PROVE Goal
  BY <1>1, <1>5 DEF Retry, disk, wait, profile, ghosts
<1>6. ASSUME NEW p \in Process, RetryRead(p) PROVE Goal
  BY <1>1, <1>6 DEF RetryRead, disk, wait, profile, ghosts
<1>7. ASSUME NEW c \in Caller, Publish(c) PROVE Goal
  BY <1>7 DEF Publish
<1>8. ASSUME NEW c \in Caller, VoidTurn(c) PROVE Goal
  BY <1>8 DEF VoidTurn, MarkDone, NoTurn, profile, ghosts
<1>9. ASSUME NEW c \in Caller, Collect(c) PROVE Goal
  BY <1>9 DEF Collect, GoOn, disk, profile, ghosts, NoTurn
<1>10. ASSUME NEW c \in Caller, CandidateOpen(c) PROVE Goal
  BY <1>10 DEF CandidateOpen, Skip, disk, profile, ghosts, GoOn, NoTurn
<1>11. ASSUME NEW c \in Caller, CheckOlder(c) PROVE Goal
  <2>1. CASE NoOlder(c)
    BY <1>11, <2>1 DEF CheckOlder, disk
  <2>2. CASE Skip(c)
    BY <1>11, <2>2 DEF CheckOlder, Skip, GoOn, disk
  <2> QED
    BY <1>11, <2>1, <2>2 DEF CheckOlder
<1>12. ASSUME NEW c \in Caller, NextOpen(c) PROVE Goal
  BY <1>12 DEF NextOpen, GoOn, disk, profile, ghosts, NoTurn
<1>13. ASSUME NEW c \in Caller, Remove(c) PROVE Goal
  BY <1>13 DEF Remove, Skip, profile, ghosts, GoOn, NoTurn
<1>14. ASSUME NEW c \in Caller, RemoveFails(c) PROVE Goal
  BY <1>14 DEF RemoveFails, Skip, disk, profile, ghosts, GoOn, NoTurn
<1>15. ASSUME NEW c \in Caller, GiveUpTurn(c) PROVE Goal
  BY <1>15 DEF GiveUpTurn, NoTurn, disk, profile
<1>16. ASSUME NEW a \in Actor, FileError(a) PROVE Goal
  BY <1>16 DEF FileError, NoTurn, disk, profile
<1>17. ASSUME NEW p \in Process, Crash(p) PROVE Goal
  BY <1>17 DEF Crash, Actor, Home, NoTurn, disk, profile
<1> QED
  BY <1>1, <1>2, <1>3, <1>4, <1>5, <1>6, <1>7, <1>8, <1>9, <1>10, <1>11, <1>12, <1>13, <1>14,
     <1>15, <1>16, <1>17
  DEF Next, Goes, Look, Take, Hold, CollectTurns, SettleTurn, Settles, SettleOwn, Fault, Actor,
      vars, disk, wait, profile, ghosts

\* A turn is settled when its process is seen dead, or its caller gave it up.
LEMMA TargetChanges ==
  ASSUME ConstantsAssumption, Inv, [Next]_vars
  PROVE  \A a \in Actor :
           \/ target'[a] = target[a]
           \/ target'[a] = NoTurn
           \/ /\ a \in Caller /\ ReadsTurn(a) /\ Abandoned(a, seen[a].token)
              /\ target'[a] = seen[a].token
           \/ a \in Process /\ target'[a] \in gaveUp[a]
<1> USE DEF Inv, TypeOK, Actor, ConstantsAssumption
<1>p. NoTurn \notin Token /\ \A p \in Process : p \notin Caller
  BY DEF NoTurn, Token
<1> DEFINE Goal == \A a \in Actor :
                     \/ target'[a] = target[a]
                     \/ target'[a] = NoTurn
                     \/ /\ a \in Caller /\ ReadsTurn(a) /\ Abandoned(a, seen[a].token)
                        /\ target'[a] = seen[a].token
                     \/ a \in Process /\ target'[a] \in gaveUp[a]
<1>1. ASSUME UNCHANGED target PROVE Goal
  BY <1>1
<1>2. ASSUME NEW c \in Caller, Arrive(c) \/ CreateTurnDirectory(c) \/ LatestGone(c)
             \/ LatestFinished(c) \/ LatestBusy(c) \/ TimeOut(c) \/ Publish(c)
             \/ PublishLoses(c) \/ PredFinished(c) \/ PredChanged(c) \/ Grant(c) \/ VoidTurn(c)
             \/ Enter(c) \/ WriteStore(c) \/ CreateProfile(c) \/ DeleteConfig(c)
             \/ RecordDeletion(c) \/ SectionFails(c) \/ Release(c) \/ Collect(c)
             \/ CandidateOpen(c) \/ CandidateVoid(c) \/ CandidateGranted(c) \/ CheckOlder(c)
             \/ NextFinished(c) \/ NextOpen(c) \/ Remove(c) \/ RemoveFails(c) \/ GiveUpTurn(c)
      PROVE  Goal
  BY <1>1, <1>2 DEF Arrive, disk, wait, profile, ghosts, CreateTurnDirectory, LatestGone,
     LatestFinished, LatestBusy, TimeOut, Publish, PublishLoses, PredFinished, PredChanged,
     Grant, VoidTurn, Enter, WriteStore, CreateProfile, DeleteConfig, RecordDeletion,
     SectionFails, Release, Collect, GoOn, CandidateOpen, CandidateVoid, CandidateGranted,
     CheckOlder, NextFinished, NextOpen, Remove, RemoveFails, GiveUpTurn
<1>3. ASSUME NEW c \in Caller, NEW t \in Token, ListTurns(c, t) PROVE Goal
  BY <1>1, <1>3 DEF ListTurns, disk, wait, profile, ghosts
<1>4. ASSUME NEW a \in Actor, ReadOwner(a) \/ ReadDone(a) \/ SettlePred(a) \/ SettleGrant(a)
      PROVE  Goal
  BY <1>1, <1>4 DEF ReadOwner, disk, wait, profile, ghosts, ReadDone, SettlePred, SettleGrant
<1>5. ASSUME NEW c \in Caller, LatestAbandoned(c) PROVE Goal
  BY <1>5 DEF LatestAbandoned, Settle
<1>6. ASSUME NEW a \in Actor, SettleDone(a) PROVE Goal
  BY <1>6, <1>p DEF SettleDone, MarkDone, OverlapAtEnd, Home, NoTurn, wait, profile, Waiting
<1>7. ASSUME NEW p \in Process, NEW t \in Token, Retry(p, t) PROVE Goal
  BY <1>7, <1>p DEF Retry, disk, wait, profile, ghosts, NoTurn
<1>8. ASSUME NEW p \in Process, RetryRead(p) PROVE Goal
  BY <1>8 DEF RetryRead, Settle
<1>9. ASSUME NEW a \in Actor, FileError(a) PROVE Goal
  BY <1>9, <1>p DEF FileError, NoTurn, disk, profile
<1>10. ASSUME NEW p \in Process, Crash(p) PROVE Goal
  BY <1>10, <1>p DEF Crash, Actor, Home, NoTurn, disk, profile
<1> QED
  BY <1>1, <1>2, <1>3, <1>4, <1>5, <1>6, <1>7, <1>8, <1>9, <1>10
  DEF Next, Goes, Look, Take, Hold, CollectTurns, SettleTurn, Settles, SettleOwn, Fault, Actor,
      vars, disk, wait, profile, ghosts

\* A turn is given up by the caller that loses it in that step.
LEMMA GaveUpChanges ==
  ASSUME ConstantsAssumption, Inv, [Next]_vars
  PROVE  \A p \in Process : \A t \in gaveUp'[p] :
           \/ t \in gaveUp[p]
           \/ \E c \in Caller : /\ t = mine[c] /\ mine[c] # NoTurn
                                  /\ mine' = [mine EXCEPT ![c] = NoTurn]
<1> USE DEF Inv, TypeOK, Actor, ConstantsAssumption
<1>p. NoTurn \notin Token /\ \A p \in Process : p \notin Caller
  BY DEF NoTurn, Token
<1> DEFINE Goal == \A p \in Process : \A t \in gaveUp'[p] :
                     \/ t \in gaveUp[p]
                     \/ \E c \in Caller : /\ t = mine[c] /\ mine[c] # NoTurn
                                            /\ mine' = [mine EXCEPT ![c] = NoTurn]
<1>1. ASSUME UNCHANGED gaveUp PROVE Goal
  BY <1>1
<1>2. ASSUME NEW c \in Caller, Arrive(c) \/ CreateTurnDirectory(c) \/ LatestGone(c)
             \/ LatestFinished(c) \/ LatestBusy(c) \/ LatestAbandoned(c) \/ TimeOut(c)
             \/ Publish(c) \/ PublishLoses(c) \/ PredFinished(c) \/ PredChanged(c) \/ Grant(c)
             \/ VoidTurn(c) \/ Enter(c) \/ WriteStore(c) \/ CreateProfile(c) \/ DeleteConfig(c)
             \/ RecordDeletion(c) \/ SectionFails(c) \/ Release(c) \/ Collect(c)
             \/ CandidateOpen(c) \/ CandidateVoid(c) \/ CandidateGranted(c) \/ CheckOlder(c)
             \/ NextFinished(c) \/ NextOpen(c) \/ Remove(c) \/ RemoveFails(c)
      PROVE  Goal
  BY <1>1, <1>2 DEF Arrive, disk, wait, profile, ghosts, CreateTurnDirectory, LatestGone,
     LatestFinished, LatestBusy, LatestAbandoned, TimeOut, Publish, PublishLoses, PredFinished,
     PredChanged, Grant, VoidTurn, Enter, WriteStore, CreateProfile, DeleteConfig,
     RecordDeletion, SectionFails, Release, Collect, GoOn, CandidateOpen, CandidateVoid,
     CandidateGranted, CheckOlder, NextFinished, NextOpen, Remove, RemoveFails
<1>3. ASSUME NEW c \in Caller, NEW t \in Token, ListTurns(c, t) PROVE Goal
  BY <1>1, <1>3 DEF ListTurns, disk, wait, profile, ghosts
<1>4. ASSUME NEW a \in Actor, ReadOwner(a) \/ ReadDone(a) \/ SettlePred(a) \/ SettleGrant(a)
             \/ FileError(a)
      PROVE  Goal
  BY <1>1, <1>4 DEF ReadOwner, disk, wait, profile, ghosts, ReadDone, SettlePred, SettleGrant,
     FileError
<1>5. ASSUME NEW p \in Process, NEW t \in Token, Retry(p, t) PROVE Goal
  BY <1>1, <1>5 DEF Retry, disk, wait, profile, ghosts
<1>6. ASSUME NEW a \in Actor, SettleDone(a) PROVE Goal
  BY <1>6, <1>p DEF SettleDone, MarkDone, OverlapAtEnd, Home, NoTurn, wait, profile, Waiting
<1>7. ASSUME NEW p \in Process, RetryRead(p) PROVE Goal
  BY <1>7 DEF RetryRead
<1>8. ASSUME NEW c \in Caller, GiveUpTurn(c) PROVE Goal
  <2>1. mine[c] # NoTurn
    BY <1>8 DEF GiveUpTurn, Ownership, HasTurn
  <2> QED
    BY <1>8, <2>1 DEF GiveUpTurn
<1>9. ASSUME NEW p \in Process, Crash(p) PROVE Goal
  BY <1>9, <1>p DEF Crash, Actor, Home, NoTurn, disk, profile
<1> QED
  BY <1>1, <1>2, <1>3, <1>4, <1>5, <1>6, <1>7, <1>8, <1>9
  DEF Next, Goes, Look, Take, Hold, CollectTurns, SettleTurn, Settles, SettleOwn, Fault, Actor,
      vars, disk, wait, profile, ghosts


\* Nobody settles the turn of a live caller that has not given it up.
LEMMA OwnershipStep ==
  ASSUME ConstantsAssumption, Inv, [Next]_vars
  PROVE  Ownership'
<1> USE DEF Actor
<1>0. TypeOK /\ Directory /\ Ownership /\ DirType /\ DirectoryStep /\ NoTurn \notin Token
  BY DirectorySteps DEF Inv, TypeOK, DirType, NoTurn, Token
<1>1. mine' \in [Caller -> Token \cup {NoTurn}] /\ target' \in [Actor -> Token \cup {NoTurn}]
      /\ gaveUp' \in [Process -> SUBSET Token]
  BY ControlTyped, WaitTyped, RestTyped
<1>2. \A t \in Token : Published(t) =>
        Published(t)' /\ turn'[t].by = turn[t].by /\ turn'[t].after = turn[t].after
  BY <1>0, TurnsLast DEF Lasts
<1>3. \A c \in Caller : mine[c] # NoTurn => mine[c] \in Token /\ Published(mine[c])
  BY <1>0 DEF Ownership, TypeOK
<1>4. ASSUME NEW c \in Caller, Publish(c), mine' = [mine EXCEPT ![c] = issued']
      PROVE  /\ issued' \in Token /\ mine'[c] = issued' /\ ~Published(issued')
             /\ \A d \in Caller : d # c => mine'[d] = mine[d]
             /\ issued' \in Token => /\ Published(mine[c])' /\ turn'[mine'[c]].by = In[c]
                                     /\ turn'[mine'[c]].after # NoTurn
  <2>1. issued \in 0 .. MaxTurns /\ issued' = issued + 1 /\ issued < MaxTurns /\ MaxTurns \in Nat
    BY <1>0, <1>4 DEF TypeOK, Publish, ConstantsAssumption
  <2>2. issued' \in Token /\ ~Published(issued')
    BY <2>1 DEF Token, Published
  <2>3. mine'[c] = issued' /\ \A d \in Caller : d # c => mine'[d] = mine[d]
    BY <1>0, <1>4 DEF TypeOK
  <2>4. seen[c].token # NoTurn
    BY <1>4 DEF Publish, Inv, Reads
  <2>5. turn'[issued'].by = In[c] /\ turn'[issued'].after # NoTurn
    BY <1>0, <1>4, <2>2, <2>4 DEF TypeOK, Publish
  <2>6. Published(mine[c])'
    BY <2>1, <2>3 DEF Published
  <2> QED
    BY <2>2, <2>3, <2>5, <2>6
<1>5. \A c \in Caller : mine'[c] # NoTurn =>
        Published(mine[c])' /\ turn'[mine'[c]].by = In[c] /\ turn'[mine'[c]].after # NoTurn
  <2> SUFFICES ASSUME NEW c \in Caller, mine'[c] # NoTurn
               PROVE  Published(mine[c])' /\ turn'[mine'[c]].by = In[c]
                      /\ turn'[mine'[c]].after # NoTurn
    OBVIOUS
  <2>1. CASE mine'[c] = mine[c]
    <3>1. Published(mine[c])'
      BY <2>1, <1>2, <1>3 DEF Published
    <3> QED
      BY <2>1, <3>1, <1>0, <1>2, <1>3 DEF Ownership, Published
  <2>2. CASE Publish(c) /\ mine' = [mine EXCEPT ![c] = issued']
    BY <2>2, <1>4
  <2> QED
    BY <2>1, <2>2, MineChanges
<1>6. \A c, d \in Caller : mine'[c] # NoTurn /\ mine'[d] = mine'[c] => d = c
  <2> SUFFICES ASSUME NEW c \in Caller, NEW d \in Caller, mine'[c] # NoTurn, mine'[d] = mine'[c],
                      c # d
               PROVE  FALSE
    OBVIOUS
  <2>1. CASE mine'[c] = mine[c] /\ mine'[d] = mine[d]
    BY <2>1, <1>0 DEF Ownership
  <2>2. ASSUME NEW e \in Caller, Publish(e), mine' = [mine EXCEPT ![e] = issued'] PROVE FALSE
    BY <2>1, <2>2, <1>3, <1>4 DEF Published
  <2> QED
    BY <2>1, <2>2, MineChanges
<1>7. \A c \in Caller : mine'[c] # NoTurn => \A p \in Process : mine'[c] \notin gaveUp'[p]
  <2> SUFFICES ASSUME NEW c \in Caller, mine'[c] # NoTurn, NEW p \in Process,
                      mine'[c] \in gaveUp'[p]
               PROVE  FALSE
    OBVIOUS
  <2>1. CASE mine'[c] \in gaveUp[p]
    <3>1. CASE mine'[c] = mine[c]
      BY <2>1, <3>1, <1>0 DEF Ownership
    <3>2. CASE Publish(c) /\ mine' = [mine EXCEPT ![c] = issued']
      <4>1. mine'[c] = issued' /\ ~(issued' <= issued)
        BY <3>2, <1>4 DEF Published
      <4>2. \A t \in gaveUp[p] : t <= issued
        BY <1>0 DEF Ownership, Published
      <4> QED
        BY <2>1, <4>1, <4>2
    <3> QED
      BY <3>1, <3>2, MineChanges
  <2>2. ASSUME NEW d \in Caller, mine'[c] = mine[d], mine[d] # NoTurn,
               mine' = [mine EXCEPT ![d] = NoTurn]
        PROVE  FALSE
    BY <2>2, <1>0 DEF Ownership, TypeOK
  <2> QED
    BY <2>1, <2>2, GaveUpChanges
<1>8. \A p \in Process : \A t \in gaveUp'[p] : Published(t)'
  <2> SUFFICES ASSUME NEW p \in Process, NEW t \in gaveUp'[p] PROVE Published(t)'
    OBVIOUS
  <2>1. t \in Token /\ Published(t)
    BY GaveUpChanges, <1>0, <1>1, <1>3 DEF Ownership
  <2> QED
    BY <2>1, <1>2
<1>9. ASSUME NEW a \in Actor, target'[a] # NoTurn
      PROVE  target'[a] \in Token /\ Published(target'[a])
  <2>1. target'[a] \in Token
    BY <1>9, <1>1
  <2>2. CASE target'[a] = target[a]
    BY <1>9, <2>1, <2>2, <1>0 DEF Ownership
  <2>3. CASE target'[a] = seen[a].token /\ ReadsTurn(a)
    BY <1>9, <2>1, <2>3 DEF Inv, Reads, ReadsTurn
  <2>4. CASE a \in Process /\ target'[a] \in gaveUp[a]
    BY <2>1, <2>4, <1>0 DEF Ownership
  <2> QED
    BY <1>9, <2>1, <2>2, <2>3, <2>4, TargetChanges
<1>10. \A a \in Actor : target'[a] # NoTurn => Published(target[a])'
  <2> SUFFICES ASSUME NEW a \in Actor, target'[a] # NoTurn PROVE Published(target[a])'
    OBVIOUS
  <2>1. target'[a] \in Token /\ Published(target'[a])
    BY <1>9
  <2> QED
    BY <2>1, <1>2 DEF Published
<1>11. \A c \in Caller : mine'[c] # NoTurn => \A a \in Actor : target'[a] # mine'[c]
  <2> SUFFICES ASSUME NEW c \in Caller, mine'[c] # NoTurn, NEW a \in Actor,
                      target'[a] = mine'[c]
               PROVE  FALSE
    OBVIOUS
  <2>1. Published(mine'[c])
    BY <1>9
  <2>2. mine'[c] = mine[c]
    BY <2>1, <1>4, MineChanges
  <2>3. mine[c] \in Token /\ turn[mine[c]].by = In[c] /\ In[c] \in up
        /\ \A p \in Process : mine[c] \notin gaveUp[p]
    BY <2>2, <1>0, <1>3 DEF Ownership, HasTurn, Home
  <2>4. target'[a] # target[a]
    BY <2>2, <1>0 DEF Ownership
  <2>5. ~(a \in Process /\ target'[a] \in gaveUp[a])
    BY <2>2, <2>3
  <2>6. ~(a \in Caller /\ Abandoned(a, seen[a].token) /\ target'[a] = seen[a].token)
    BY <2>2, <2>3 DEF Abandoned, ConstantsAssumption
  <2> QED
    BY <2>4, <2>5, <2>6, TargetChanges
<1> QED
  BY <1>5, <1>6, <1>7, <1>8, <1>10, <1>11, DeadStep, MineStep, TargetStep, TodoEmpty
     DEF Ownership, Home

\* What is collected lies below the caller's own number.
LEMMA TodoStep ==
  ASSUME ConstantsAssumption, Inv, [Next]_vars
  PROVE  \A c \in Caller : \A n \in todo'[c] : mine'[c] # NoTurn /\ n < turn'[mine'[c]].slot
<1> USE DEF Actor
<1>a. /\ TypeOK /\ Directory /\ Ownership /\ DirType /\ DirectoryStep
      /\ \A t \in Token : Published(t) => turn'[t].slot = turn[t].slot
  BY DirectorySteps, TurnsLast DEF Inv, TypeOK, DirType, Lasts
<1>b. \A c \in Caller : mine[c] # NoTurn => turn'[mine[c]].slot = turn[mine[c]].slot
  BY <1>a DEF Ownership, TypeOK
<1>c. \A c \in Caller : \A n \in todo[c] : mine[c] # NoTurn /\ n < turn[mine[c]].slot
  BY <1>a DEF TypeOK
<1>d. /\ mine \in [Caller -> Token \cup {NoTurn}] /\ todo \in [Caller -> SUBSET Nat]
      /\ \A c \in Caller : mine[c] # NoTurn <=> pc[c] \in HasTurn
      /\ \A c \in Caller : todo[c] # {} => pc[c] \in {"candidate", "older", "next", "remove"}
  BY <1>a DEF TypeOK, Ownership
<1>e. ASSUME NEW c \in Caller, NEW slots, mine[c] # NoTurn, GoOn(c, slots),
             \A n \in slots : n < turn[mine[c]].slot
      PROVE  \A d \in Caller : \A n \in todo'[d] : mine'[d] # NoTurn /\ n < turn'[mine'[d]].slot
  BY <1>b, <1>c, <1>d, <1>e DEF GoOn
<1>f. ASSUME NEW c \in Caller, pc[c] \in HasTurn, Skip(c)
      PROVE  \A d \in Caller : \A n \in todo'[d] : mine'[d] # NoTurn /\ n < turn'[mine'[d]].slot
  BY <1>c, <1>d, <1>e, <1>f DEF Skip
<1> DEFINE Goal == \A c \in Caller : \A n \in todo'[c] : mine'[c] # NoTurn /\ n < turn'[mine'[c]].slot
<1>1. ASSUME UNCHANGED <<todo, mine>> PROVE Goal
  BY <1>1, <1>b, <1>c
<1>2. ASSUME NEW c \in Caller, Arrive(c) \/ CreateTurnDirectory(c) \/ LatestGone(c)
             \/ LatestFinished(c) \/ LatestBusy(c) \/ LatestAbandoned(c) \/ TimeOut(c)
             \/ PublishLoses(c) \/ PredFinished(c) \/ PredChanged(c) \/ Grant(c) \/ Enter(c)
             \/ WriteStore(c) \/ CreateProfile(c) \/ DeleteConfig(c) \/ RecordDeletion(c)
             \/ SectionFails(c) \/ Release(c) \/ CandidateVoid(c) \/ CandidateGranted(c)
             \/ NextFinished(c)
      PROVE  Goal
  BY <1>1, <1>2 DEF Arrive, disk, wait, profile, ghosts, CreateTurnDirectory, LatestGone,
     LatestFinished, LatestBusy, LatestAbandoned, TimeOut, PublishLoses, PredFinished,
     PredChanged, Grant, Enter, WriteStore, CreateProfile, DeleteConfig, RecordDeletion,
     SectionFails, Release, CandidateVoid, CandidateGranted, NextFinished
<1>3. ASSUME NEW c \in Caller, NEW t \in Token, ListTurns(c, t) PROVE Goal
  BY <1>1, <1>3 DEF ListTurns, disk, wait, profile, ghosts
<1>4. ASSUME NEW a \in Actor, ReadOwner(a) \/ ReadDone(a) \/ SettlePred(a) \/ SettleGrant(a)
             \/ SettleDone(a)
      PROVE  Goal
  BY <1>1, <1>4 DEF ReadOwner, disk, wait, profile, ghosts, ReadDone, SettlePred, SettleGrant,
     SettleDone
<1>5. ASSUME NEW p \in Process, NEW t \in Token, Retry(p, t) PROVE Goal
  BY <1>1, <1>5 DEF Retry, disk, wait, profile, ghosts
<1>6. ASSUME NEW p \in Process, RetryRead(p) PROVE Goal
  BY <1>1, <1>6 DEF RetryRead, disk, wait, profile, ghosts
<1>7. ASSUME NEW c \in Caller, Publish(c) PROVE Goal
  BY <1>7, <1>b, <1>c, <1>d DEF Publish, HasTurn
<1>8. ASSUME NEW c \in Caller, VoidTurn(c) PROVE Goal
  BY <1>8, <1>b, <1>c, <1>d DEF VoidTurn, MarkDone, NoTurn, profile, ghosts
<1>9. ASSUME NEW c \in Caller, Collect(c) PROVE Goal
  <2>1. mine[c] # NoTurn /\ \A n \in OlderTurns(c) : n < turn[mine[c]].slot
    BY <1>9, <1>d DEF Collect, OlderTurns, HasTurn
  <2> QED
    BY <1>9, <2>1, <1>e DEF Collect
<1>10. ASSUME NEW c \in Caller, CandidateOpen(c) PROVE Goal
  BY <1>10, <1>f DEF CandidateOpen, HasTurn
<1>11. ASSUME NEW c \in Caller, CheckOlder(c) PROVE Goal
  <2>1. CASE NoOlder(c)
    BY <1>11, <2>1, <1>b, <1>c DEF CheckOlder
  <2>2. CASE Skip(c)
    BY <1>11, <2>2, <1>f DEF CheckOlder, HasTurn
  <2> QED
    BY <1>11, <2>1, <2>2 DEF CheckOlder
<1>12. ASSUME NEW c \in Caller, NextOpen(c) PROVE Goal
  <2>1. mine[c] # NoTurn
    BY <1>12, <1>d DEF NextOpen, HasTurn
  <2> QED
    BY <1>12, <2>1, <1>c, <1>e DEF NextOpen
<1>13. ASSUME NEW c \in Caller, Remove(c) PROVE Goal
  BY <1>13, <1>f DEF Remove, HasTurn
<1>14. ASSUME NEW c \in Caller, RemoveFails(c) PROVE Goal
  BY <1>14, <1>f DEF RemoveFails, HasTurn
<1>15. ASSUME NEW c \in Caller, GiveUpTurn(c) PROVE Goal
  BY <1>15, <1>b, <1>c, <1>d DEF GiveUpTurn, NoTurn, disk, profile
<1>16. ASSUME NEW a \in Actor, FileError(a) PROVE Goal
  BY <1>16, <1>b, <1>c, <1>d DEF FileError, NoTurn, disk, profile
<1>17. ASSUME NEW p \in Process, Crash(p) PROVE Goal
  BY <1>17, <1>b, <1>c, <1>d DEF Crash, Actor, Home, NoTurn, disk, profile
<1> QED
  BY <1>1, <1>2, <1>3, <1>4, <1>5, <1>6, <1>7, <1>8, <1>9, <1>10, <1>11, <1>12, <1>13, <1>14,
     <1>15, <1>16, <1>17
  DEF Next, Goes, Look, Take, Hold, CollectTurns, SettleTurn, Settles, SettleOwn, Fault, Actor,
      vars, disk, wait, profile, ghosts


\* Every step keeps the types.
LEMMA TypeStep ==
  ASSUME ConstantsAssumption, Inv, [Next]_vars
  PROVE  TypeOK'
<1>1. DirType'
  BY DirectorySteps, DirectoryKept DEF Inv, TypeOK, DirType
<1> QED
  BY <1>1, ControlTyped, SeenTyped, WaitTyped, RestTyped, TodoStep DEF TypeOK, DirType


\* One step of readTurn.
SeesOwner(a) ==
  /\ seen[a].step = "owner"
  /\ \E t \in Here(seen[a].slot) :
       seen'[a] = [slot |-> seen[a].slot, token |-> t, done |-> seen[a].done, step |-> "done"]
SeesDone(a) ==
  /\ seen[a].step = "done"
  /\ UNCHANGED turn
  /\ \E d \in BOOLEAN :
       /\ d <=> MarkedDone(seen[a].token)
       /\ seen'[a] = [slot |-> seen[a].slot, token |-> seen[a].token, done |-> d, step |-> "held"]

\* A read starts, goes one file further, or is as it was.
LEMMA SeenChanges ==
  ASSUME ConstantsAssumption, Inv, [Next]_vars
  PROVE  \A a \in Actor :
           \/ seen'[a] = seen[a]
           \/ seen'[a] = NotReading
           \/ \E n : seen'[a] = Reading(n)
           \/ SeesOwner(a)
           \/ SeesDone(a)
<1> DEFINE Goal == \A a \in Actor :
                     \/ seen'[a] = seen[a]
                     \/ seen'[a] = NotReading
                     \/ \E n : seen'[a] = Reading(n)
                     \/ SeesOwner(a)
                     \/ SeesDone(a)
<1> USE DEF Inv, TypeOK, Actor
<1>a. \A slots : \A c \in Caller : GoOn(c, slots) => Goal
  BY DEF GoOn
<1>b. \A c \in Caller : Skip(c) => Goal
  BY <1>a DEF Skip
<1>1. ASSUME UNCHANGED seen PROVE Goal
  BY <1>1
<1>2. ASSUME NEW c \in Caller, Arrive(c) \/ CreateTurnDirectory(c) \/ LatestFinished(c)
             \/ TimeOut(c) \/ Grant(c) \/ VoidTurn(c) \/ Enter(c) \/ WriteStore(c)
             \/ CreateProfile(c) \/ DeleteConfig(c) \/ RecordDeletion(c) \/ SectionFails(c)
             \/ Release(c) \/ CandidateVoid(c) \/ CandidateGranted(c)
      PROVE  Goal
  BY <1>1, <1>2 DEF Arrive, disk, wait, profile, ghosts, CreateTurnDirectory, LatestFinished,
     TimeOut, Grant, VoidTurn, Enter, WriteStore, CreateProfile, DeleteConfig, RecordDeletion,
     SectionFails, Release, CandidateVoid, CandidateGranted
<1>3. ASSUME NEW a \in Actor, SettleGrant(a) \/ SettleDone(a) PROVE Goal
  BY <1>1, <1>3 DEF SettleGrant, wait, profile, ghosts, SettleDone
<1>4. ASSUME NEW c \in Caller, NEW t \in Token, ListTurns(c, t) PROVE Goal
  BY <1>4 DEF ListTurns, disk, wait, profile, ghosts, NoTurn
<1>5. ASSUME NEW c \in Caller, LatestGone(c) PROVE Goal
  BY <1>5 DEF LatestGone, disk, wait, profile, ghosts, NoTurn
<1>6. ASSUME NEW c \in Caller, LatestBusy(c) PROVE Goal
  BY <1>6 DEF LatestBusy, disk, profile, ghosts, NoTurn
<1>7. ASSUME NEW c \in Caller, LatestAbandoned(c) PROVE Goal
  BY <1>7 DEF LatestAbandoned, Settle, disk, profile, ghosts, NoTurn
<1>8. ASSUME NEW c \in Caller, Publish(c) PROVE Goal
  BY <1>8 DEF Publish, profile, ghosts, NoTurn
<1>9. ASSUME NEW c \in Caller, PublishLoses(c) PROVE Goal
  BY <1>9 DEF PublishLoses, disk, wait, profile, ghosts, NoTurn
<1>10. ASSUME NEW c \in Caller, PredFinished(c) PROVE Goal
  BY <1>10 DEF PredFinished, disk, wait, profile, ghosts, NoTurn
<1>11. ASSUME NEW c \in Caller, PredChanged(c) PROVE Goal
  BY <1>11 DEF PredChanged, disk, wait, profile, ghosts, NoTurn
<1>12. ASSUME NEW a \in Actor, ReadOwner(a) PROVE Goal
  <2>1. PICK t \in Token :
          /\ turn[t].place = "here" /\ turn[t].slot = seen[a].slot
          /\ seen' = [seen EXCEPT ![a] = [@ EXCEPT !.token = t, !.step = "done"]]
    BY <1>12 DEF ReadOwner, Here
  <2>2. ASSUME NEW s \in Seen, NEW y, y = [s EXCEPT !.token = t, !.step = "done"]
        PROVE  y = [slot |-> s.slot, token |-> t, done |-> s.done, step |-> "done"]
    BY <2>2 DEF Seen
  <2>3. seen'[a] = [seen[a] EXCEPT !.token = t, !.step = "done"]
    BY <2>1
  <2>6. t \in Here(seen[a].slot) /\ seen[a].step = "owner"
    BY <1>12, <2>1 DEF ReadOwner, Here
  <2>7. seen'[a] = [slot |-> seen[a].slot, token |-> t, done |-> seen[a].done, step |-> "done"]
    BY <2>2, <2>3
  <2>4. SeesOwner(a)
    BY <2>6, <2>7 DEF SeesOwner
  <2>5. \A b \in Actor : b # a => seen'[b] = seen[b]
    BY <2>1
  <2> QED
    BY <2>4, <2>5
<1>13. ASSUME NEW a \in Actor, ReadDone(a) PROVE Goal
  <2> DEFINE d == MarkedDone(seen[a].token)
  <2>1. seen' = [seen EXCEPT ![a] = [@ EXCEPT !.done = d, !.step = "held"]]
    BY <1>13 DEF ReadDone
  <2>2. d \in BOOLEAN
    BY DEF MarkedDone
  <2>3. ASSUME NEW s \in Seen, NEW x, NEW y, y = [s EXCEPT !.done = x, !.step = "held"]
        PROVE  y = [slot |-> s.slot, token |-> s.token, done |-> x, step |-> "held"]
    BY <2>3 DEF Seen
  <2>4. seen'[a] = [seen[a] EXCEPT !.done = d, !.step = "held"]
    BY <2>1
  <2>5. \A b \in Actor : b # a => seen'[b] = seen[b]
    BY <2>1
  <2>6. seen[a].step = "done" /\ UNCHANGED turn /\ (d <=> MarkedDone(seen[a].token))
    BY <1>13 DEF ReadDone, disk
  <2> HIDE DEF d
  <2>7. seen'[a] = [slot |-> seen[a].slot, token |-> seen[a].token, done |-> d, step |-> "held"]
    BY <2>3, <2>4
  <2>8. SeesDone(a)
    BY <2>2, <2>6, <2>7 DEF SeesDone
  <2> QED
    BY <2>5, <2>8
<1>14. ASSUME NEW a \in Actor, SettlePred(a) PROVE Goal
  BY <1>14 DEF SettlePred, disk, wait, profile, ghosts, NoTurn
<1>15. ASSUME NEW p \in Process, NEW t \in Token, Retry(p, t) PROVE Goal
  BY <1>15 DEF Retry, disk, wait, profile, ghosts, NoTurn
<1>16. ASSUME NEW p \in Process, RetryRead(p) PROVE Goal
  BY <1>16 DEF RetryRead, Settle, NoTurn, disk, wait, profile, ghosts
<1>17. ASSUME NEW c \in Caller, Collect(c) PROVE Goal
  BY <1>17, <1>a DEF Collect
<1>18. ASSUME NEW c \in Caller, CandidateOpen(c) PROVE Goal
  BY <1>18, <1>b DEF CandidateOpen
<1>19. ASSUME NEW c \in Caller, CheckOlder(c) PROVE Goal
  BY <1>19, <1>b DEF CheckOlder
<1>20. ASSUME NEW c \in Caller, NextFinished(c) PROVE Goal
  BY <1>20 DEF NextFinished, disk, wait, profile, ghosts, NoTurn
<1>21. ASSUME NEW c \in Caller, NextOpen(c) PROVE Goal
  BY <1>21, <1>a DEF NextOpen
<1>22. ASSUME NEW c \in Caller, Remove(c) PROVE Goal
  BY <1>22, <1>b DEF Remove
<1>23. ASSUME NEW c \in Caller, RemoveFails(c) PROVE Goal
  BY <1>23, <1>b DEF RemoveFails
<1>24. ASSUME NEW c \in Caller, GiveUpTurn(c) PROVE Goal
  BY <1>24 DEF GiveUpTurn, NoTurn, disk, profile
<1>25. ASSUME NEW a \in Actor, FileError(a) PROVE Goal
  BY <1>25 DEF FileError, NoTurn, disk, profile
<1>26. ASSUME NEW p \in Process, Crash(p) PROVE Goal
  BY <1>26 DEF Crash, Actor, Home, NoTurn, disk, profile
<1> QED
  BY <1>1, <1>2, <1>3, <1>4, <1>5, <1>6, <1>7, <1>8, <1>9, <1>10, <1>11, <1>12, <1>13, <1>14,
     <1>15, <1>16, <1>17, <1>18, <1>19, <1>20, <1>21, <1>22, <1>23, <1>24, <1>25, <1>26
  DEF Next, Goes, Look, Take, Hold, CollectTurns, SettleTurn, Settles, SettleOwn, Fault, Actor,
      vars, disk, wait, profile, ghosts


\* What was read of a published turn remains true of it, since its markers stay.
LEMMA ReadsSeen ==
  ASSUME ConstantsAssumption, Inv, [Next]_vars
  PROVE  /\ \A a \in Actor : seen'[a].step \in {"done", "held"} =>
              seen'[a].token # NoTurn /\ Published(seen[a].token)'
              /\ turn'[seen'[a].token].slot = seen'[a].slot
         /\ \A a \in Actor : seen'[a].done => turn'[seen'[a].token].done /\ seen'[a].step = "held"
         /\ \A a \in Actor : seen'[a].step \in {"owner", "none"} => seen'[a].token = NoTurn
<1> SUFFICES ASSUME NEW a \in Actor
             PROVE  /\ seen'[a].step \in {"done", "held"} =>
                         seen'[a].token # NoTurn /\ Published(seen[a].token)'
                         /\ turn'[seen'[a].token].slot = seen'[a].slot
                    /\ seen'[a].done => turn'[seen'[a].token].done /\ seen'[a].step = "held"
                    /\ seen'[a].step \in {"owner", "none"} => seen'[a].token = NoTurn
  OBVIOUS
<1>1. /\ DirType /\ Directory /\ seen[a] \in Seen
      /\ \A t \in Token : Published(t) => Published(t)' /\ turn'[t].slot = turn[t].slot
                                          /\ (turn[t].done => turn'[t].done)
  BY DirectorySteps, TurnsLast DEF Inv, TypeOK, DirType, Lasts
<1>2. /\ seen[a].step \in {"done", "held"} => /\ seen[a].token \in Token
                                              /\ seen[a].token # NoTurn
                                              /\ Published(seen[a].token)
                                              /\ turn[seen[a].token].slot = seen[a].slot
      /\ seen[a].done => turn[seen[a].token].done /\ seen[a].step = "held"
      /\ seen[a].step \in {"owner", "none"} => seen[a].token = NoTurn
  BY <1>1 DEF Inv, Reads, Seen
<1>3. CASE seen'[a] = seen[a]
  BY <1>1, <1>2, <1>3 DEF Published
<1>4. CASE seen'[a] = NotReading \/ \E n : seen'[a] = Reading(n)
  <2>1. seen'[a].step \in {"none", "owner"} /\ seen'[a].token = NoTurn /\ seen'[a].done = FALSE
    <3>1. CASE seen'[a] = NotReading
      BY <3>1 DEF NotReading
    <3>2. ASSUME NEW n, seen'[a] = Reading(n)
          PROVE  seen'[a].step = "owner" /\ seen'[a].token = NoTurn /\ seen'[a].done = FALSE
      BY <3>2 DEF Reading
    <3> QED
      BY <1>4, <3>1, <3>2
  <2> QED
    BY <2>1
<1>5. CASE SeesOwner(a)
  <2>1. PICK t \in Token : /\ Here1(t) /\ turn[t].slot = seen[a].slot
                           /\ seen'[a] = [slot |-> seen[a].slot, token |-> t,
                                          done |-> seen[a].done, step |-> "done"]
    BY <1>5 DEF SeesOwner, Here, Here1
  <2>2. Published(t) /\ t # NoTurn /\ ~seen[a].done
    BY <2>1, <1>1, <1>2, <1>5, Basics DEF Token, NoTurn, SeesOwner
  <2> QED
    BY <2>1, <2>2, <1>1 DEF Published
<1>6. CASE SeesDone(a)
  BY <1>1, <1>2, <1>6 DEF SeesDone, MarkedDone, Published
<1> QED
  BY <1>3, <1>4, <1>5, <1>6, SeenChanges

\* A step that decides on a read has one.
LEMMA ReadingStep ==
  ASSUME ConstantsAssumption, Inv, [Next]_vars
  PROVE  \A a \in Actor : seen'[a].step = "none" =>
           pc'[a] \notin {"latest", "pred", "settlepred", "candidate",
                          "older", "next", "publish", "own"}
<1> USE DEF Inv, TypeOK, Actor
<1>p. \A p \in Process : p \notin Caller
  BY DEF ConstantsAssumption
<1>r. \A a \in Actor : seen[a].step = "none" =>
        pc[a] \notin {"latest", "pred", "settlepred", "candidate",
                      "older", "next", "publish", "own"}
  BY DEF Reads
<1>s. NotReading.step = "none" /\ \A n : Reading(n).step = "owner"
  BY DEF NotReading, Reading
<1> DEFINE Goal == \A a \in Actor : seen'[a].step = "none" =>
                     pc'[a] \notin {"latest", "pred", "settlepred", "candidate",
                                    "older", "next", "publish", "own"}
<1>a. ASSUME NEW c \in Caller, NEW slots, GoOn(c, slots) PROVE Goal
  BY <1>a, <1>r, <1>s DEF GoOn
<1>b. \A c \in Caller : Skip(c) => Goal
  BY <1>a DEF Skip
<1>1. ASSUME UNCHANGED <<pc, seen>> PROVE Goal
  BY <1>1, <1>r
<1>2. ASSUME NEW c \in Caller, CreateTurnDirectory(c) PROVE Goal
  BY <1>1, <1>2 DEF CreateTurnDirectory, wait, profile, ghosts
<1>3. ASSUME NEW c \in Caller, Arrive(c) PROVE Goal
  BY <1>3, <1>p, <1>r, <1>s DEF Arrive, disk, wait, profile, ghosts
<1>4. ASSUME NEW c \in Caller, NEW t \in Token, ListTurns(c, t) PROVE Goal
  BY <1>4, <1>p, <1>r, <1>s DEF ListTurns, disk, wait, profile, ghosts
<1>5. ASSUME NEW c \in Caller, LatestGone(c) PROVE Goal
  BY <1>5, <1>p, <1>r, <1>s DEF LatestGone, disk, wait, profile, ghosts
<1>6. ASSUME NEW c \in Caller, LatestFinished(c) PROVE Goal
  BY <1>6, <1>p, <1>r, <1>s DEF LatestFinished, disk, profile, ghosts
<1>7. ASSUME NEW c \in Caller, LatestBusy(c) PROVE Goal
  BY <1>7, <1>p, <1>r, <1>s DEF LatestBusy, disk, profile, ghosts
<1>8. ASSUME NEW c \in Caller, LatestAbandoned(c) PROVE Goal
  <2>1. \/ pc' = [pc EXCEPT ![c] = "settledone"] /\ seen' = [seen EXCEPT ![c] = NotReading]
        \/ /\ pc' = [pc EXCEPT ![c] = "settlepred"]
           /\ seen' = [seen EXCEPT ![c] = Reading(turn[seen[c].token].slot - 1)]
    BY <1>8 DEF LatestAbandoned, Settle
  <2> QED
    BY <2>1, <1>r, <1>s
<1>9. ASSUME NEW c \in Caller, TimeOut(c) PROVE Goal
  BY <1>9, <1>p, <1>r, <1>s DEF TimeOut, disk, profile
<1>10. ASSUME NEW c \in Caller, Publish(c) PROVE Goal
  BY <1>10, <1>p, <1>r, <1>s DEF Publish, profile, ghosts
<1>11. ASSUME NEW c \in Caller, PublishLoses(c) PROVE Goal
  BY <1>11, <1>p, <1>r, <1>s DEF PublishLoses, disk, wait, profile, ghosts
<1>12. ASSUME NEW c \in Caller, PredFinished(c) PROVE Goal
  BY <1>12, <1>p, <1>r, <1>s DEF PredFinished, disk, wait, profile, ghosts
<1>13. ASSUME NEW c \in Caller, PredChanged(c) PROVE Goal
  BY <1>13, <1>p, <1>r, <1>s DEF PredChanged, disk, wait, profile, ghosts
<1>14. ASSUME NEW c \in Caller, Grant(c) PROVE Goal
  BY <1>14, <1>p, <1>r, <1>s DEF Grant, wait, profile, ghosts
<1>15. ASSUME NEW c \in Caller, VoidTurn(c) PROVE Goal
  BY <1>15, <1>p, <1>r, <1>s DEF VoidTurn, profile, ghosts
<1>16. ASSUME NEW a \in Actor, ReadOwner(a) PROVE Goal
  BY <1>16, <1>r DEF ReadOwner, Here, disk
<1>17. ASSUME NEW a \in Actor, ReadDone(a) PROVE Goal
  BY <1>17, <1>r DEF ReadDone, disk
<1>18. ASSUME NEW a \in Actor, SettlePred(a) PROVE Goal
  BY <1>18, <1>p, <1>r, <1>s DEF SettlePred, disk, wait, profile, ghosts
<1>19. ASSUME NEW a \in Actor, SettleGrant(a) PROVE Goal
  BY <1>19, <1>p, <1>r, <1>s DEF SettleGrant, wait, profile, ghosts
<1>20. ASSUME NEW a \in Actor, SettleDone(a) PROVE Goal
  BY <1>20, <1>p, <1>r, <1>s DEF SettleDone, Home, wait, profile, Waiting
<1>21. ASSUME NEW p \in Process, NEW t \in Token, Retry(p, t) PROVE Goal
  BY <1>21, <1>p, <1>r, <1>s DEF Retry, disk, wait, profile, ghosts
<1>22. ASSUME NEW p \in Process, RetryRead(p) PROVE Goal
  BY <1>22, <1>p, <1>r, <1>s DEF RetryRead, Settle, disk, wait, profile, ghosts
<1>23. ASSUME NEW c \in Caller, Enter(c) PROVE Goal
  BY <1>23, <1>p, <1>r, <1>s DEF Enter, disk, profile, ghosts
<1>24. ASSUME NEW c \in Caller, WriteStore(c) PROVE Goal
  BY <1>24, <1>p, <1>r, <1>s DEF WriteStore, disk, wait, profile, ghosts
<1>25. ASSUME NEW c \in Caller, CreateProfile(c) PROVE Goal
  BY <1>25, <1>p, <1>r, <1>s DEF CreateProfile, disk, wait, ghosts
<1>26. ASSUME NEW c \in Caller, DeleteConfig(c) PROVE Goal
  BY <1>26, <1>p, <1>r, <1>s DEF DeleteConfig, disk, wait
<1>27. ASSUME NEW c \in Caller, RecordDeletion(c) PROVE Goal
  BY <1>27, <1>p, <1>r, <1>s DEF RecordDeletion, disk, wait, ghosts
<1>28. ASSUME NEW c \in Caller, SectionFails(c) PROVE Goal
  BY <1>28, <1>p, <1>r, <1>s DEF SectionFails, disk, wait, profile, ghosts
<1>29. ASSUME NEW c \in Caller, Release(c) PROVE Goal
  BY <1>29, <1>p, <1>r, <1>s DEF Release, wait, profile, Waiting
<1>30. ASSUME NEW c \in Caller, Collect(c) PROVE Goal
  BY <1>30, <1>a DEF Collect
<1>31. ASSUME NEW c \in Caller, CandidateOpen(c) PROVE Goal
  BY <1>31, <1>b DEF CandidateOpen
<1>32. ASSUME NEW c \in Caller, CandidateVoid(c) PROVE Goal
  BY <1>32, <1>p, <1>r, <1>s DEF CandidateVoid, disk, wait, profile, ghosts
<1>33. ASSUME NEW c \in Caller, CandidateGranted(c) PROVE Goal
  BY <1>33, <1>p, <1>r, <1>s DEF CandidateGranted, disk, wait, profile, ghosts
<1>34. ASSUME NEW c \in Caller, CheckOlder(c) PROVE Goal
  <2>1. CASE NoOlder(c)
    BY <1>34, <2>1, <1>r, <1>s DEF CheckOlder
  <2> QED
    BY <1>34, <2>1, <1>b DEF CheckOlder
<1>35. ASSUME NEW c \in Caller, NextFinished(c) PROVE Goal
  BY <1>35, <1>p, <1>r, <1>s DEF NextFinished, disk, wait, profile, ghosts
<1>36. ASSUME NEW c \in Caller, NextOpen(c) PROVE Goal
  BY <1>36, <1>a DEF NextOpen
<1>37. ASSUME NEW c \in Caller, Remove(c) PROVE Goal
  BY <1>37, <1>b DEF Remove
<1>38. ASSUME NEW c \in Caller, RemoveFails(c) PROVE Goal
  BY <1>38, <1>b DEF RemoveFails
<1>39. ASSUME NEW c \in Caller, GiveUpTurn(c) PROVE Goal
  BY <1>39, <1>p, <1>r, <1>s DEF GiveUpTurn, disk, profile
<1>40. ASSUME NEW a \in Actor, FileError(a) PROVE Goal
  BY <1>40, <1>p, <1>r, <1>s DEF FileError, disk, profile
<1>41. ASSUME NEW p \in Process, Crash(p) PROVE Goal
  BY <1>41, <1>p, <1>r, <1>s DEF Crash, Actor, Home, disk, profile
<1> QED
  BY <1>1, <1>2, <1>3, <1>4, <1>5, <1>6, <1>7, <1>8, <1>9, <1>10, <1>11, <1>12, <1>13, <1>14,
     <1>15, <1>16, <1>17, <1>18, <1>19, <1>20, <1>21, <1>22, <1>23, <1>24, <1>25, <1>26, <1>27,
     <1>28, <1>29, <1>30, <1>31, <1>32, <1>33, <1>34, <1>35, <1>36, <1>37, <1>38, <1>39, <1>40,
     <1>41
  DEF Next, Goes, Look, Take, Hold, CollectTurns, SettleTurn, Settles, SettleOwn, Fault, Actor,
      vars, disk, wait, profile, ghosts

\* The number read is one a turn can have.
LEMMA SlotStep ==
  ASSUME ConstantsAssumption, Inv, [Next]_vars
  PROVE  \A a \in Actor :
           pc'[a] \in {"latest", "publish", "pred", "settlepred", "own",
                      "candidate", "next", "remove", "older"} => seen'[a].slot \in Nat
<1> USE DEF Inv, TypeOK, Actor
<1>p. DirType /\ Directory /\ ConstantsAssumption /\ \A p \in Process : p \notin Caller
  BY DEF ConstantsAssumption, DirType
<1>r. \A a \in Actor :
        pc[a] \in {"latest", "publish", "pred", "settlepred", "own",
                  "candidate", "next", "remove", "older"} => seen[a].slot \in Nat
  BY DEF Reads
<1>s. \A n : Reading(n).slot = n
  BY DEF Reading
<1>t. \A t \in Token : turn[t].slot \in Nat
  BY <1>p, Basics
<1> DEFINE Goal == \A a \in Actor :
                     pc'[a] \in {"latest", "publish", "pred", "settlepred", "own",
                                "candidate", "next", "remove", "older"} => seen'[a].slot \in Nat
<1>a. ASSUME NEW c \in Caller, NEW slots \in SUBSET Nat, GoOn(c, slots) PROVE Goal
  BY <1>a, <1>r, <1>s DEF GoOn
<1>b. ASSUME NEW c \in Caller, Skip(c) PROVE Goal
  <2>1. {n \in todo[c] : n > seen[c].slot} \in SUBSET Nat
    OBVIOUS
  <2> QED
    BY <1>a, <1>b, <2>1 DEF Skip
<1>c. ASSUME NEW a \in Actor, NEW t \in Token, NEW h, Published(t), Settle(a, t, h) PROVE Goal
  <2>1. CASE h \/ turn[t].after = NoTurn
    BY <1>c, <2>1, <1>r DEF Settle
  <2>2. CASE ~(h \/ turn[t].after = NoTurn)
    <3>1. turn[t].slot - 1 \in Nat
      BY <1>c, <2>2, <1>p, Basics DEF Directory, FollowsFinished
    <3> QED
      BY <1>c, <2>2, <3>1, <1>r, <1>s DEF Settle
  <2> QED
    BY <2>1, <2>2
<1>1. ASSUME UNCHANGED <<pc, seen>> PROVE Goal
  BY <1>1, <1>r
<1>2. ASSUME NEW c \in Caller, CreateTurnDirectory(c) PROVE Goal
  BY <1>1, <1>2 DEF CreateTurnDirectory, wait, profile, ghosts
<1>3. ASSUME NEW c \in Caller, Arrive(c) PROVE Goal
  BY <1>3, <1>p, <1>r, <1>s, <1>t DEF Arrive, disk, wait, profile, ghosts
<1>4. ASSUME NEW c \in Caller, NEW t \in Token, ListTurns(c, t) PROVE Goal
  BY <1>4, <1>p, <1>r, <1>s, <1>t DEF ListTurns, disk, wait, profile, ghosts
<1>5. ASSUME NEW c \in Caller, LatestGone(c) PROVE Goal
  BY <1>5, <1>p, <1>r, <1>s, <1>t DEF LatestGone, disk, wait, profile, ghosts
<1>6. ASSUME NEW c \in Caller, LatestFinished(c) PROVE Goal
  BY <1>6, <1>p, <1>r, <1>s, <1>t DEF LatestFinished, disk, profile, ghosts
<1>7. ASSUME NEW c \in Caller, LatestBusy(c) PROVE Goal
  BY <1>7, <1>p, <1>r, <1>s, <1>t DEF LatestBusy, disk, profile, ghosts
<1>8. ASSUME NEW c \in Caller, LatestAbandoned(c) PROVE Goal
  <2>1. seen[c].token \in Token /\ Published(seen[c].token)
    BY <1>8 DEF LatestAbandoned, ReadsTurn, Reads, Seen
  <2> QED
    BY <1>8, <2>1, <1>c DEF LatestAbandoned
<1>9. ASSUME NEW c \in Caller, TimeOut(c) PROVE Goal
  BY <1>9, <1>p, <1>r, <1>s, <1>t DEF TimeOut, disk, profile
<1>10. ASSUME NEW c \in Caller, Publish(c) PROVE Goal
  BY <1>10, <1>p, <1>r, <1>s, <1>t DEF Publish, profile, ghosts
<1>11. ASSUME NEW c \in Caller, PublishLoses(c) PROVE Goal
  BY <1>11, <1>p, <1>r, <1>s, <1>t DEF PublishLoses, disk, wait, profile, ghosts
<1>12. ASSUME NEW c \in Caller, PredFinished(c) PROVE Goal
  BY <1>12, <1>p, <1>r, <1>s, <1>t DEF PredFinished, disk, wait, profile, ghosts
<1>13. ASSUME NEW c \in Caller, PredChanged(c) PROVE Goal
  BY <1>13, <1>p, <1>r, <1>s, <1>t DEF PredChanged, disk, wait, profile, ghosts
<1>14. ASSUME NEW c \in Caller, Grant(c) PROVE Goal
  BY <1>14, <1>p, <1>r, <1>s, <1>t DEF Grant, wait, profile, ghosts
<1>15. ASSUME NEW c \in Caller, VoidTurn(c) PROVE Goal
  BY <1>15, <1>p, <1>r, <1>s, <1>t DEF VoidTurn, profile, ghosts
<1>16. ASSUME NEW a \in Actor, ReadOwner(a) PROVE Goal
  <2>1. pc' = pc /\ \A b \in Actor : seen'[b].slot = seen[b].slot
    BY <1>16 DEF ReadOwner, Here, Seen
  <2> QED
    BY <2>1, <1>r
<1>17. ASSUME NEW a \in Actor, ReadDone(a) PROVE Goal
  <2>1. pc' = pc /\ \A b \in Actor : seen'[b].slot = seen[b].slot
    BY <1>17 DEF ReadDone, Seen
  <2> QED
    BY <2>1, <1>r
<1>18. ASSUME NEW a \in Actor, SettlePred(a) PROVE Goal
  BY <1>18, <1>p, <1>r, <1>s, <1>t DEF SettlePred, disk, wait, profile, ghosts
<1>19. ASSUME NEW a \in Actor, SettleGrant(a) PROVE Goal
  BY <1>19, <1>p, <1>r, <1>s, <1>t DEF SettleGrant, wait, profile, ghosts
<1>20. ASSUME NEW a \in Actor, SettleDone(a) PROVE Goal
  BY <1>20, <1>p, <1>r, <1>s, <1>t DEF SettleDone, Home, wait, profile, Waiting
<1>21. ASSUME NEW p \in Process, NEW t \in Token, Retry(p, t) PROVE Goal
  BY <1>21, <1>p, <1>r, <1>s, <1>t DEF Retry, disk, wait, profile, ghosts
<1>22. ASSUME NEW p \in Process, RetryRead(p) PROVE Goal
  <2>1. target[p] \in Token /\ Published(target[p])
    BY <1>22 DEF RetryRead, Ownership, Settling
  <2>2. CASE Settle(p, target[p], ReadsHeld(p))
    BY <2>1, <2>2, <1>c
  <2> QED
    BY <1>22, <2>2, <1>r DEF RetryRead
<1>23. ASSUME NEW c \in Caller, Enter(c) PROVE Goal
  BY <1>23, <1>p, <1>r, <1>s, <1>t DEF Enter, disk, profile, ghosts
<1>24. ASSUME NEW c \in Caller, WriteStore(c) PROVE Goal
  BY <1>24, <1>p, <1>r, <1>s, <1>t DEF WriteStore, disk, wait, profile, ghosts
<1>25. ASSUME NEW c \in Caller, CreateProfile(c) PROVE Goal
  BY <1>25, <1>p, <1>r, <1>s, <1>t DEF CreateProfile, disk, wait, ghosts
<1>26. ASSUME NEW c \in Caller, DeleteConfig(c) PROVE Goal
  BY <1>26, <1>p, <1>r, <1>s, <1>t DEF DeleteConfig, disk, wait
<1>27. ASSUME NEW c \in Caller, RecordDeletion(c) PROVE Goal
  BY <1>27, <1>p, <1>r, <1>s, <1>t DEF RecordDeletion, disk, wait, ghosts
<1>28. ASSUME NEW c \in Caller, SectionFails(c) PROVE Goal
  BY <1>28, <1>p, <1>r, <1>s, <1>t DEF SectionFails, disk, wait, profile, ghosts
<1>29. ASSUME NEW c \in Caller, Release(c) PROVE Goal
  BY <1>29, <1>p, <1>r, <1>s, <1>t DEF Release, wait, profile, Waiting
<1>30. ASSUME NEW c \in Caller, Collect(c) PROVE Goal
  <2>1. OlderTurns(c) \in SUBSET Nat
    BY <1>t DEF OlderTurns, Listed
  <2> QED
    BY <1>30, <2>1, <1>a DEF Collect
<1>31. ASSUME NEW c \in Caller, CandidateOpen(c) PROVE Goal
  BY <1>31, <1>b DEF CandidateOpen
<1>32. ASSUME NEW c \in Caller, CandidateVoid(c) PROVE Goal
  BY <1>32, <1>p, <1>r, <1>s, <1>t DEF CandidateVoid, disk, wait, profile, ghosts
<1>33. ASSUME NEW c \in Caller, CandidateGranted(c) PROVE Goal
  BY <1>33, <1>p, <1>r, <1>s, <1>t DEF CandidateGranted, disk, wait, profile, ghosts
<1>34. ASSUME NEW c \in Caller, CheckOlder(c) PROVE Goal
  <2>1. CASE NoOlder(c)
    BY <1>34, <2>1, <1>r, <1>s DEF CheckOlder
  <2> QED
    BY <1>34, <2>1, <1>b DEF CheckOlder
<1>35. ASSUME NEW c \in Caller, NextFinished(c) PROVE Goal
  <2>1. seen[c].slot - 1 \in Nat
    BY <1>35, <1>r DEF NextFinished, Protocol, Collection
  <2> QED
    BY <1>35, <2>1, <1>r, <1>s DEF NextFinished
<1>36. ASSUME NEW c \in Caller, NextOpen(c) PROVE Goal
  <2>1. {n \in todo[c] : n >= seen[c].slot} \in SUBSET Nat
    OBVIOUS
  <2> QED
    BY <1>36, <2>1, <1>a DEF NextOpen
<1>37. ASSUME NEW c \in Caller, Remove(c) PROVE Goal
  BY <1>37, <1>b DEF Remove
<1>38. ASSUME NEW c \in Caller, RemoveFails(c) PROVE Goal
  BY <1>38, <1>b DEF RemoveFails
<1>39. ASSUME NEW c \in Caller, GiveUpTurn(c) PROVE Goal
  BY <1>39, <1>p, <1>r, <1>s, <1>t DEF GiveUpTurn, disk, profile
<1>40. ASSUME NEW a \in Actor, FileError(a) PROVE Goal
  BY <1>40, <1>p, <1>r, <1>s, <1>t DEF FileError, disk, profile
<1>41. ASSUME NEW p \in Process, Crash(p) PROVE Goal
  BY <1>41, <1>p, <1>r, <1>s, <1>t DEF Crash, Actor, Home, disk, profile
<1> QED
  BY <1>1, <1>2, <1>3, <1>4, <1>5, <1>6, <1>7, <1>8, <1>9, <1>10, <1>11, <1>12, <1>13, <1>14,
     <1>15, <1>16, <1>17, <1>18, <1>19, <1>20, <1>21, <1>22, <1>23, <1>24, <1>25, <1>26, <1>27,
     <1>28, <1>29, <1>30, <1>31, <1>32, <1>33, <1>34, <1>35, <1>36, <1>37, <1>38, <1>39, <1>40,
     <1>41
  DEF Next, Goes, Look, Take, Hold, CollectTurns, SettleTurn, Settles, SettleOwn, Fault, Actor,
      vars, disk, wait, profile, ghosts

\* Who publishes has read a granted turn that is done.
LEMMA PublisherStep ==
  ASSUME ConstantsAssumption, Inv, [Next]_vars
  PROVE  \A c \in Caller : pc'[c] = "publish" =>
           seen'[c].step = "held" /\ seen'[c].done /\ Held(seen[c].token)'
<1> USE DEF Inv, TypeOK, Actor
<1>p. DirType /\ Directory /\ DirectoryStep /\ ConstantsAssumption
      /\ \A p \in Process : p \notin Caller
  BY DirectorySteps DEF ConstantsAssumption, DirType
<1>r. \A c \in Caller : pc[c] = "publish" =>
        seen[c].step = "held" /\ seen[c].done /\ turn[seen[c].token].held /\ turn'[seen[c].token].held
  <2>1. \A t \in Token : Held(t) => Held(t)'
    BY <1>p, TurnsLast, Basics DEF Lasts
  <2> QED
    BY <2>1 DEF Reads, Seen, Held
<1> DEFINE Goal == \A c \in Caller : pc'[c] = "publish" =>
                     seen'[c].step = "held" /\ seen'[c].done /\ Held(seen[c].token)'
<1>a. ASSUME NEW c \in Caller, NEW slots, GoOn(c, slots) PROVE Goal
  BY <1>a, <1>r DEF GoOn, Held
<1>b. \A c \in Caller : Skip(c) => Goal
  BY <1>a DEF Skip
<1>1. ASSUME UNCHANGED <<pc, seen>> PROVE Goal
  BY <1>1, <1>r DEF Held
<1>2. ASSUME NEW c \in Caller, CreateTurnDirectory(c) PROVE Goal
  BY <1>1, <1>2 DEF CreateTurnDirectory, wait, profile, ghosts
<1>3. ASSUME NEW c \in Caller, Arrive(c) PROVE Goal
  BY <1>3, <1>p, <1>r DEF Arrive, disk, wait, profile, ghosts, Held
<1>4. ASSUME NEW c \in Caller, NEW t \in Token, ListTurns(c, t) PROVE Goal
  BY <1>4, <1>p, <1>r DEF ListTurns, disk, wait, profile, ghosts, Held
<1>5. ASSUME NEW c \in Caller, LatestGone(c) PROVE Goal
  BY <1>5, <1>p, <1>r DEF LatestGone, disk, wait, profile, ghosts, Held
<1>6. ASSUME NEW c \in Caller, LatestFinished(c) PROVE Goal
  <2>1. seen[c].step = "held" /\ seen[c].done /\ turn'[seen[c].token].held /\ seen' = seen
    BY <1>6 DEF LatestFinished, ReadsTurn, ReadsHeld, MarkedHeld, disk
  <2> QED
    BY <1>6, <2>1, <1>r DEF LatestFinished, Held
<1>7. ASSUME NEW c \in Caller, LatestBusy(c) PROVE Goal
  BY <1>7, <1>p, <1>r DEF LatestBusy, disk, profile, ghosts, Held
<1>8. ASSUME NEW c \in Caller, LatestAbandoned(c) PROVE Goal
  BY <1>8, <1>p, <1>r DEF LatestAbandoned, Settle, disk, profile, ghosts, Held
<1>9. ASSUME NEW c \in Caller, TimeOut(c) PROVE Goal
  BY <1>9, <1>p, <1>r DEF TimeOut, disk, profile, Held
<1>10. ASSUME NEW c \in Caller, Publish(c) PROVE Goal
  BY <1>10, <1>p, <1>r DEF Publish, profile, ghosts, Held
<1>11. ASSUME NEW c \in Caller, PublishLoses(c) PROVE Goal
  BY <1>11, <1>p, <1>r DEF PublishLoses, disk, wait, profile, ghosts, Held
<1>12. ASSUME NEW c \in Caller, PredFinished(c) PROVE Goal
  BY <1>12, <1>p, <1>r DEF PredFinished, disk, wait, profile, ghosts, Held
<1>13. ASSUME NEW c \in Caller, PredChanged(c) PROVE Goal
  BY <1>13, <1>p, <1>r DEF PredChanged, disk, wait, profile, ghosts, Held
<1>14. ASSUME NEW c \in Caller, Grant(c) PROVE Goal
  BY <1>14, <1>p, <1>r DEF Grant, wait, profile, ghosts, Held
<1>15. ASSUME NEW c \in Caller, VoidTurn(c) PROVE Goal
  BY <1>15, <1>p, <1>r DEF VoidTurn, profile, ghosts, Held
<1>16. ASSUME NEW a \in Actor, ReadOwner(a) PROVE Goal
  BY <1>16, <1>r DEF ReadOwner, Here, disk, Held
<1>17. ASSUME NEW a \in Actor, ReadDone(a) PROVE Goal
  BY <1>17, <1>r DEF ReadDone, disk, Held
<1>18. ASSUME NEW a \in Actor, SettlePred(a) PROVE Goal
  BY <1>18, <1>p, <1>r DEF SettlePred, disk, wait, profile, ghosts, Held
<1>19. ASSUME NEW a \in Actor, SettleGrant(a) PROVE Goal
  BY <1>19, <1>p, <1>r DEF SettleGrant, wait, profile, ghosts, Held
<1>20. ASSUME NEW a \in Actor, SettleDone(a) PROVE Goal
  BY <1>20, <1>p, <1>r DEF SettleDone, Home, wait, profile, Waiting, Held
<1>21. ASSUME NEW p \in Process, NEW t \in Token, Retry(p, t) PROVE Goal
  BY <1>21, <1>p, <1>r DEF Retry, disk, wait, profile, ghosts, Held
<1>22. ASSUME NEW p \in Process, RetryRead(p) PROVE Goal
  BY <1>22, <1>p, <1>r DEF RetryRead, Settle, disk, wait, profile, ghosts, Held
<1>23. ASSUME NEW c \in Caller, Enter(c) PROVE Goal
  BY <1>23, <1>p, <1>r DEF Enter, disk, profile, ghosts, Held
<1>24. ASSUME NEW c \in Caller, WriteStore(c) PROVE Goal
  BY <1>24, <1>p, <1>r DEF WriteStore, disk, wait, profile, ghosts, Held
<1>25. ASSUME NEW c \in Caller, CreateProfile(c) PROVE Goal
  BY <1>25, <1>p, <1>r DEF CreateProfile, disk, wait, ghosts, Held
<1>26. ASSUME NEW c \in Caller, DeleteConfig(c) PROVE Goal
  BY <1>26, <1>p, <1>r DEF DeleteConfig, disk, wait, Held
<1>27. ASSUME NEW c \in Caller, RecordDeletion(c) PROVE Goal
  BY <1>27, <1>p, <1>r DEF RecordDeletion, disk, wait, ghosts, Held
<1>28. ASSUME NEW c \in Caller, SectionFails(c) PROVE Goal
  BY <1>28, <1>p, <1>r DEF SectionFails, disk, wait, profile, ghosts, Held
<1>29. ASSUME NEW c \in Caller, Release(c) PROVE Goal
  BY <1>29, <1>p, <1>r DEF Release, wait, profile, Waiting, Held
<1>30. ASSUME NEW c \in Caller, Collect(c) PROVE Goal
  BY <1>30, <1>a DEF Collect
<1>31. ASSUME NEW c \in Caller, CandidateOpen(c) PROVE Goal
  BY <1>31, <1>b DEF CandidateOpen
<1>32. ASSUME NEW c \in Caller, CandidateVoid(c) PROVE Goal
  BY <1>32, <1>p, <1>r DEF CandidateVoid, disk, wait, profile, ghosts, Held
<1>33. ASSUME NEW c \in Caller, CandidateGranted(c) PROVE Goal
  BY <1>33, <1>p, <1>r DEF CandidateGranted, disk, wait, profile, ghosts, Held
<1>34. ASSUME NEW c \in Caller, CheckOlder(c) PROVE Goal
  <2>1. CASE NoOlder(c)
    BY <1>34, <2>1, <1>r DEF CheckOlder, Held
  <2> QED
    BY <1>34, <2>1, <1>b DEF CheckOlder
<1>35. ASSUME NEW c \in Caller, NextFinished(c) PROVE Goal
  BY <1>35, <1>p, <1>r DEF NextFinished, disk, wait, profile, ghosts, Held
<1>36. ASSUME NEW c \in Caller, NextOpen(c) PROVE Goal
  BY <1>36, <1>a DEF NextOpen
<1>37. ASSUME NEW c \in Caller, Remove(c) PROVE Goal
  BY <1>37, <1>b DEF Remove
<1>38. ASSUME NEW c \in Caller, RemoveFails(c) PROVE Goal
  BY <1>38, <1>b DEF RemoveFails
<1>39. ASSUME NEW c \in Caller, GiveUpTurn(c) PROVE Goal
  BY <1>39, <1>p, <1>r DEF GiveUpTurn, disk, profile, Held
<1>40. ASSUME NEW a \in Actor, FileError(a) PROVE Goal
  BY <1>40, <1>p, <1>r DEF FileError, disk, profile, Held
<1>41. ASSUME NEW p \in Process, Crash(p) PROVE Goal
  BY <1>41, <1>p, <1>r DEF Crash, Actor, Home, disk, profile, Held
<1> QED
  BY <1>1, <1>2, <1>3, <1>4, <1>5, <1>6, <1>7, <1>8, <1>9, <1>10, <1>11, <1>12, <1>13, <1>14,
     <1>15, <1>16, <1>17, <1>18, <1>19, <1>20, <1>21, <1>22, <1>23, <1>24, <1>25, <1>26, <1>27,
     <1>28, <1>29, <1>30, <1>31, <1>32, <1>33, <1>34, <1>35, <1>36, <1>37, <1>38, <1>39, <1>40,
     <1>41
  DEF Next, Goes, Look, Take, Hold, CollectTurns, SettleTurn, Settles, SettleOwn, Fault, Actor,
      vars, disk, wait, profile, ghosts


\* What the three reads of readTurn may be trusted for is kept.
LEMMA ReadsStep ==
  ASSUME ConstantsAssumption, Inv, [Next]_vars
  PROVE  Reads'
BY ReadsSeen, ReadingStep, SlotStep, PublisherStep DEF Reads


\* Each step is one of a single caller or process, or a crash; the others rest.
CallerStep(c) ==
  \/ Arrive(c) \/ TimeOut(c) \/ Goes(c)
  \/ SectionFails(c) \/ RemoveFails(c) \/ GiveUpTurn(c) \/ FileError(c) \/ (\E p \in {In[c]} : Crash(p))
ProcessStep(p) == Settles(p) \/ FileError(p) \/ Crash(p)

Rests(a) == pc'[a] = pc[a] /\ seen'[a] = seen[a] /\ target'[a] = target[a]
CallerRests(c) ==
  Rests(c) /\ mine'[c] = mine[c] /\ first'[c] = first[c] /\ todo'[c] = todo[c]

\* An actor takes a step, or its place in the protocol and its reads stay as they are.
LEMMA OthersRest ==
  ASSUME ConstantsAssumption, Inv, [Next]_vars
  PROVE  /\ \A c \in Caller : CallerStep(c) \/ CallerRests(c)
         /\ \A p \in Process : ProcessStep(p) \/ Rests(p)
<1> USE DEF Actor
<1>t. /\ pc \in [Actor -> {"idle", "list", "latest", "publish", "pred", "grant", "void",
                       "settlepred", "settlegrant", "settledone", "own",
                       "enter", "section", "record", "release",
                       "collect", "candidate", "older", "next", "remove", "dead"}]
      /\ seen \in [Actor -> Seen]
      /\ target \in [Actor -> Token \cup {NoTurn}] /\ mine \in [Caller -> Token \cup {NoTurn}]
      /\ first \in [Caller -> Int] /\ todo \in [Caller -> SUBSET Nat]
  BY DEF Inv, TypeOK
<1>p. \A p \in Process : p \notin Caller
  BY DEF ConstantsAssumption
<1> DEFINE Goal == /\ \A c \in Caller : CallerStep(c) \/ CallerRests(c)
                   /\ \A p \in Process : ProcessStep(p) \/ Rests(p)
<1>1. ASSUME UNCHANGED <<pc, seen, target, mine, first, todo>> PROVE Goal
  BY <1>1 DEF CallerRests, Rests
<1>2. ASSUME NEW c \in Caller, Arrive(c) PROVE Goal
  <2>1. CallerStep(c)
    BY <1>2 DEF CallerStep
  <2>2. /\ \A d \in Caller : d # c => CallerRests(d)
        /\ \A p \in Process : Rests(p)
    BY <1>2, <1>t, <1>p DEF Arrive, disk, wait, profile, ghosts, CallerRests, Rests
  <2> QED
    BY <2>1, <2>2
<1>3. ASSUME NEW c \in Caller, CreateTurnDirectory(c) PROVE Goal
  <2>1. CallerStep(c)
    BY <1>3 DEF CallerStep, Goes, Look
  <2>2. /\ \A d \in Caller : d # c => CallerRests(d)
        /\ \A p \in Process : Rests(p)
    BY <1>3, <1>t, <1>p DEF CreateTurnDirectory, wait, profile, ghosts, CallerRests, Rests
  <2> QED
    BY <2>1, <2>2
<1>4. ASSUME NEW c \in Caller, NEW t \in Token, ListTurns(c, t) PROVE Goal
  <2>1. CallerStep(c)
    BY <1>4 DEF CallerStep, Goes, Look
  <2>2. /\ \A d \in Caller : d # c => CallerRests(d)
        /\ \A p \in Process : Rests(p)
    BY <1>4, <1>t, <1>p DEF ListTurns, disk, wait, profile, ghosts, CallerRests, Rests
  <2> QED
    BY <2>1, <2>2
<1>5. ASSUME NEW c \in Caller, LatestGone(c) PROVE Goal
  <2>1. CallerStep(c)
    BY <1>5 DEF CallerStep, Goes, Look
  <2>2. /\ \A d \in Caller : d # c => CallerRests(d)
        /\ \A p \in Process : Rests(p)
    BY <1>5, <1>t, <1>p DEF LatestGone, disk, wait, profile, ghosts, CallerRests, Rests
  <2> QED
    BY <2>1, <2>2
<1>6. ASSUME NEW c \in Caller, LatestFinished(c) PROVE Goal
  <2>1. CallerStep(c)
    BY <1>6 DEF CallerStep, Goes, Look
  <2>2. /\ \A d \in Caller : d # c => CallerRests(d)
        /\ \A p \in Process : Rests(p)
    BY <1>6, <1>t, <1>p DEF LatestFinished, disk, profile, ghosts, CallerRests, Rests
  <2> QED
    BY <2>1, <2>2
<1>7. ASSUME NEW c \in Caller, LatestBusy(c) PROVE Goal
  <2>1. CallerStep(c)
    BY <1>7 DEF CallerStep, Goes, Look
  <2>2. /\ \A d \in Caller : d # c => CallerRests(d)
        /\ \A p \in Process : Rests(p)
    BY <1>7, <1>t, <1>p DEF LatestBusy, disk, profile, ghosts, CallerRests, Rests
  <2> QED
    BY <2>1, <2>2
<1>8. ASSUME NEW c \in Caller, LatestAbandoned(c) PROVE Goal
  <2>1. CallerStep(c)
    BY <1>8 DEF CallerStep, Goes, Look
  <2>2. /\ \A d \in Caller : d # c => CallerRests(d)
        /\ \A p \in Process : Rests(p)
    BY <1>8, <1>t, <1>p DEF LatestAbandoned, Settle, disk, profile, ghosts, CallerRests, Rests
  <2> QED
    BY <2>1, <2>2
<1>9. ASSUME NEW c \in Caller, TimeOut(c) PROVE Goal
  <2>1. CallerStep(c)
    BY <1>9 DEF CallerStep
  <2>2. /\ \A d \in Caller : d # c => CallerRests(d)
        /\ \A p \in Process : Rests(p)
    BY <1>9, <1>t, <1>p DEF TimeOut, disk, profile, CallerRests, Rests
  <2> QED
    BY <2>1, <2>2
<1>10. ASSUME NEW c \in Caller, Publish(c) PROVE Goal
  <2>1. CallerStep(c)
    BY <1>10 DEF CallerStep, Goes, Take
  <2>2. /\ \A d \in Caller : d # c => CallerRests(d)
        /\ \A p \in Process : Rests(p)
    BY <1>10, <1>t, <1>p DEF Publish, profile, ghosts, CallerRests, Rests
  <2> QED
    BY <2>1, <2>2
<1>11. ASSUME NEW c \in Caller, PublishLoses(c) PROVE Goal
  <2>1. CallerStep(c)
    BY <1>11 DEF CallerStep, Goes, Take
  <2>2. /\ \A d \in Caller : d # c => CallerRests(d)
        /\ \A p \in Process : Rests(p)
    BY <1>11, <1>t, <1>p DEF PublishLoses, disk, wait, profile, ghosts, CallerRests, Rests
  <2> QED
    BY <2>1, <2>2
<1>12. ASSUME NEW c \in Caller, PredFinished(c) PROVE Goal
  <2>1. CallerStep(c)
    BY <1>12 DEF CallerStep, Goes, Take
  <2>2. /\ \A d \in Caller : d # c => CallerRests(d)
        /\ \A p \in Process : Rests(p)
    BY <1>12, <1>t, <1>p DEF PredFinished, disk, wait, profile, ghosts, CallerRests, Rests
  <2> QED
    BY <2>1, <2>2
<1>13. ASSUME NEW c \in Caller, PredChanged(c) PROVE Goal
  <2>1. CallerStep(c)
    BY <1>13 DEF CallerStep, Goes, Take
  <2>2. /\ \A d \in Caller : d # c => CallerRests(d)
        /\ \A p \in Process : Rests(p)
    BY <1>13, <1>t, <1>p DEF PredChanged, disk, wait, profile, ghosts, CallerRests, Rests
  <2> QED
    BY <2>1, <2>2
<1>14. ASSUME NEW c \in Caller, Grant(c) PROVE Goal
  <2>1. CallerStep(c)
    BY <1>14 DEF CallerStep, Goes, Take
  <2>2. /\ \A d \in Caller : d # c => CallerRests(d)
        /\ \A p \in Process : Rests(p)
    BY <1>14, <1>t, <1>p DEF Grant, wait, profile, ghosts, CallerRests, Rests
  <2> QED
    BY <2>1, <2>2
<1>15. ASSUME NEW c \in Caller, VoidTurn(c) PROVE Goal
  <2>1. CallerStep(c)
    BY <1>15 DEF CallerStep, Goes, Take
  <2>2. /\ \A d \in Caller : d # c => CallerRests(d)
        /\ \A p \in Process : Rests(p)
    BY <1>15, <1>t, <1>p DEF VoidTurn, profile, ghosts, CallerRests, Rests
  <2> QED
    BY <2>1, <2>2
<1>16. ASSUME NEW a \in Actor, ReadOwner(a) PROVE Goal
  <2>1. /\ a \in Caller => CallerStep(a)
        /\ a \in Process => ProcessStep(a)
    BY <1>16 DEF CallerStep, ProcessStep, SettleTurn, Goes, Settles
  <2>2. /\ \A d \in Caller : d # a => CallerRests(d)
        /\ \A q \in Process : q # a => Rests(q)
    BY <1>16, <1>t, <1>p DEF ReadOwner, disk, wait, profile, ghosts, CallerRests, Rests
  <2> QED
    BY <2>1, <2>2
<1>17. ASSUME NEW a \in Actor, ReadDone(a) PROVE Goal
  <2>1. /\ a \in Caller => CallerStep(a)
        /\ a \in Process => ProcessStep(a)
    BY <1>17 DEF CallerStep, ProcessStep, SettleTurn, Goes, Settles
  <2>2. /\ \A d \in Caller : d # a => CallerRests(d)
        /\ \A q \in Process : q # a => Rests(q)
    BY <1>17, <1>t, <1>p DEF ReadDone, MarkedDone, disk, wait, profile, ghosts, CallerRests,
       Rests
  <2> QED
    BY <2>1, <2>2
<1>18. ASSUME NEW a \in Actor, SettlePred(a) PROVE Goal
  <2>1. /\ a \in Caller => CallerStep(a)
        /\ a \in Process => ProcessStep(a)
    BY <1>18 DEF CallerStep, ProcessStep, SettleTurn, Goes, Settles
  <2>2. /\ \A d \in Caller : d # a => CallerRests(d)
        /\ \A q \in Process : q # a => Rests(q)
    BY <1>18, <1>t, <1>p DEF SettlePred, disk, wait, profile, ghosts, CallerRests, Rests
  <2> QED
    BY <2>1, <2>2
<1>19. ASSUME NEW a \in Actor, SettleGrant(a) PROVE Goal
  <2>1. /\ a \in Caller => CallerStep(a)
        /\ a \in Process => ProcessStep(a)
    BY <1>19 DEF CallerStep, ProcessStep, SettleTurn, Goes, Settles
  <2>2. /\ \A d \in Caller : d # a => CallerRests(d)
        /\ \A q \in Process : q # a => Rests(q)
    BY <1>19, <1>t, <1>p DEF SettleGrant, wait, profile, ghosts, CallerRests, Rests
  <2> QED
    BY <2>1, <2>2
<1>20. ASSUME NEW a \in Actor, SettleDone(a) PROVE Goal
  <2>1. /\ a \in Caller => CallerStep(a)
        /\ a \in Process => ProcessStep(a)
    BY <1>20 DEF CallerStep, ProcessStep, SettleTurn, Goes, Settles
  <2>2. /\ \A d \in Caller : d # a => CallerRests(d)
        /\ \A q \in Process : q # a => Rests(q)
    BY <1>20, <1>t, <1>p DEF SettleDone, wait, profile, Waiting, CallerRests, Rests
  <2> QED
    BY <2>1, <2>2
<1>21. ASSUME NEW p \in Process, NEW t \in Token, Retry(p, t) PROVE Goal
  <2>1. ProcessStep(p)
    BY <1>21 DEF ProcessStep, Settles, SettleOwn
  <2>2. /\ \A d \in Caller : CallerRests(d)
        /\ \A q \in Process : q # p => Rests(q)
    BY <1>21, <1>t, <1>p DEF Retry, disk, wait, profile, ghosts, CallerRests, Rests
  <2> QED
    BY <2>1, <2>2
<1>22. ASSUME NEW p \in Process, RetryRead(p) PROVE Goal
  <2>1. ProcessStep(p)
    BY <1>22 DEF ProcessStep, Settles, SettleOwn
  <2>2. /\ \A d \in Caller : CallerRests(d)
        /\ \A q \in Process : q # p => Rests(q)
    BY <1>22, <1>t, <1>p DEF RetryRead, Settle, disk, wait, profile, ghosts, CallerRests, Rests
  <2> QED
    BY <2>1, <2>2
<1>23. ASSUME NEW c \in Caller, Enter(c) PROVE Goal
  <2>1. CallerStep(c)
    BY <1>23 DEF CallerStep, Goes, Hold
  <2>2. /\ \A d \in Caller : d # c => CallerRests(d)
        /\ \A p \in Process : Rests(p)
    BY <1>23, <1>t, <1>p DEF Enter, disk, profile, ghosts, CallerRests, Rests
  <2> QED
    BY <2>1, <2>2
<1>24. ASSUME NEW c \in Caller, WriteStore(c) PROVE Goal
  <2>1. CallerStep(c)
    BY <1>24 DEF CallerStep, Goes, Hold
  <2>2. /\ \A d \in Caller : d # c => CallerRests(d)
        /\ \A p \in Process : Rests(p)
    BY <1>24, <1>t, <1>p DEF WriteStore, disk, wait, profile, ghosts, CallerRests, Rests
  <2> QED
    BY <2>1, <2>2
<1>25. ASSUME NEW c \in Caller, CreateProfile(c) PROVE Goal
  <2>1. CallerStep(c)
    BY <1>25 DEF CallerStep, Goes, Hold
  <2>2. /\ \A d \in Caller : d # c => CallerRests(d)
        /\ \A p \in Process : Rests(p)
    BY <1>25, <1>t, <1>p DEF CreateProfile, disk, wait, ghosts, CallerRests, Rests
  <2> QED
    BY <2>1, <2>2
<1>26. ASSUME NEW c \in Caller, DeleteConfig(c) PROVE Goal
  <2>1. CallerStep(c)
    BY <1>26 DEF CallerStep, Goes, Hold
  <2>2. /\ \A d \in Caller : d # c => CallerRests(d)
        /\ \A p \in Process : Rests(p)
    BY <1>26, <1>t, <1>p DEF DeleteConfig, disk, wait, CallerRests, Rests
  <2> QED
    BY <2>1, <2>2
<1>27. ASSUME NEW c \in Caller, RecordDeletion(c) PROVE Goal
  <2>1. CallerStep(c)
    BY <1>27 DEF CallerStep, Goes, Hold
  <2>2. /\ \A d \in Caller : d # c => CallerRests(d)
        /\ \A p \in Process : Rests(p)
    BY <1>27, <1>t, <1>p DEF RecordDeletion, disk, wait, ghosts, CallerRests, Rests
  <2> QED
    BY <2>1, <2>2
<1>28. ASSUME NEW c \in Caller, SectionFails(c) PROVE Goal
  <2>1. CallerStep(c)
    BY <1>28 DEF CallerStep
  <2>2. /\ \A d \in Caller : d # c => CallerRests(d)
        /\ \A p \in Process : Rests(p)
    BY <1>28, <1>t, <1>p DEF SectionFails, disk, wait, profile, ghosts, CallerRests, Rests
  <2> QED
    BY <2>1, <2>2
<1>29. ASSUME NEW c \in Caller, Release(c) PROVE Goal
  <2>1. CallerStep(c)
    BY <1>29 DEF CallerStep, Goes, Hold
  <2>2. /\ \A d \in Caller : d # c => CallerRests(d)
        /\ \A p \in Process : Rests(p)
    BY <1>29, <1>t, <1>p DEF Release, wait, profile, Waiting, CallerRests, Rests
  <2> QED
    BY <2>1, <2>2
<1>30. ASSUME NEW c \in Caller, Collect(c) PROVE Goal
  <2>1. CallerStep(c)
    BY <1>30 DEF CallerStep, Goes, CollectTurns
  <2>2. /\ \A d \in Caller : d # c => CallerRests(d)
        /\ \A p \in Process : Rests(p)
    BY <1>30, <1>t, <1>p DEF Collect, GoOn, disk, profile, ghosts, CallerRests, Rests
  <2> QED
    BY <2>1, <2>2
<1>31. ASSUME NEW c \in Caller, CandidateOpen(c) PROVE Goal
  <2>1. CallerStep(c)
    BY <1>31 DEF CallerStep, Goes, CollectTurns
  <2>2. /\ \A d \in Caller : d # c => CallerRests(d)
        /\ \A p \in Process : Rests(p)
    BY <1>31, <1>t, <1>p DEF CandidateOpen, Skip, disk, profile, ghosts, GoOn, CallerRests,
       Rests
  <2> QED
    BY <2>1, <2>2
<1>32. ASSUME NEW c \in Caller, CandidateVoid(c) PROVE Goal
  <2>1. CallerStep(c)
    BY <1>32 DEF CallerStep, Goes, CollectTurns
  <2>2. /\ \A d \in Caller : d # c => CallerRests(d)
        /\ \A p \in Process : Rests(p)
    BY <1>32, <1>t, <1>p DEF CandidateVoid, disk, wait, profile, ghosts, CallerRests, Rests
  <2> QED
    BY <2>1, <2>2
<1>33. ASSUME NEW c \in Caller, CandidateGranted(c) PROVE Goal
  <2>1. CallerStep(c)
    BY <1>33 DEF CallerStep, Goes, CollectTurns
  <2>2. /\ \A d \in Caller : d # c => CallerRests(d)
        /\ \A p \in Process : Rests(p)
    BY <1>33, <1>t, <1>p DEF CandidateGranted, disk, wait, profile, ghosts, CallerRests, Rests
  <2> QED
    BY <2>1, <2>2
<1>34. ASSUME NEW c \in Caller, CheckOlder(c) PROVE Goal
  <2>1. CallerStep(c)
    BY <1>34 DEF CallerStep, Goes, CollectTurns
  <2>2. /\ \A d \in Caller : d # c => CallerRests(d)
        /\ \A p \in Process : Rests(p)
    BY <1>34, <1>t, <1>p DEF CheckOlder, Skip, disk, profile, ghosts, GoOn, CallerRests, Rests
  <2> QED
    BY <2>1, <2>2
<1>35. ASSUME NEW c \in Caller, NextFinished(c) PROVE Goal
  <2>1. CallerStep(c)
    BY <1>35 DEF CallerStep, Goes, CollectTurns
  <2>2. /\ \A d \in Caller : d # c => CallerRests(d)
        /\ \A p \in Process : Rests(p)
    BY <1>35, <1>t, <1>p DEF NextFinished, disk, wait, profile, ghosts, CallerRests, Rests
  <2> QED
    BY <2>1, <2>2
<1>36. ASSUME NEW c \in Caller, NextOpen(c) PROVE Goal
  <2>1. CallerStep(c)
    BY <1>36 DEF CallerStep, Goes, CollectTurns
  <2>2. /\ \A d \in Caller : d # c => CallerRests(d)
        /\ \A p \in Process : Rests(p)
    BY <1>36, <1>t, <1>p DEF NextOpen, GoOn, disk, profile, ghosts, CallerRests, Rests
  <2> QED
    BY <2>1, <2>2
<1>37. ASSUME NEW c \in Caller, Remove(c) PROVE Goal
  <2>1. CallerStep(c)
    BY <1>37 DEF CallerStep, Goes, CollectTurns
  <2>2. /\ \A d \in Caller : d # c => CallerRests(d)
        /\ \A p \in Process : Rests(p)
    BY <1>37, <1>t, <1>p DEF Remove, Skip, profile, ghosts, GoOn, CallerRests, Rests
  <2> QED
    BY <2>1, <2>2
<1>38. ASSUME NEW c \in Caller, RemoveFails(c) PROVE Goal
  <2>1. CallerStep(c)
    BY <1>38 DEF CallerStep
  <2>2. /\ \A d \in Caller : d # c => CallerRests(d)
        /\ \A p \in Process : Rests(p)
    BY <1>38, <1>t, <1>p DEF RemoveFails, Skip, disk, profile, ghosts, GoOn, CallerRests, Rests
  <2> QED
    BY <2>1, <2>2
<1>39. ASSUME NEW c \in Caller, GiveUpTurn(c) PROVE Goal
  <2>1. CallerStep(c)
    BY <1>39 DEF CallerStep
  <2>2. /\ \A d \in Caller : d # c => CallerRests(d)
        /\ \A p \in Process : Rests(p)
    BY <1>39, <1>t, <1>p DEF GiveUpTurn, disk, profile, CallerRests, Rests
  <2> QED
    BY <2>1, <2>2
<1>40. ASSUME NEW a \in Actor, FileError(a) PROVE Goal
  <2>1. /\ a \in Caller => CallerStep(a)
        /\ a \in Process => ProcessStep(a)
    BY <1>40 DEF CallerStep, ProcessStep
  <2>2. /\ \A d \in Caller : d # a => CallerRests(d)
        /\ \A q \in Process : q # a => Rests(q)
    BY <1>40, <1>t, <1>p DEF FileError, disk, profile, CallerRests, Rests
  <2> QED
    BY <2>1, <2>2
<1>41. ASSUME NEW p \in Process, Crash(p) PROVE Goal
  <2>1. /\ \A d \in Caller : In[d] = p => CallerStep(d)
        /\ ProcessStep(p)
    BY <1>41 DEF CallerStep, ProcessStep
  <2>2. /\ \A d \in Caller : In[d] # p => CallerRests(d)
        /\ \A q \in Process : q # p => Rests(q)
    BY <1>41, <1>t, <1>p DEF Crash, Actor, disk, profile, CallerRests, Rests, Home
  <2> QED
    BY <2>1, <2>2
<1> QED
  BY <1>1, <1>2, <1>3, <1>4, <1>5, <1>6, <1>7, <1>8, <1>9, <1>10, <1>11, <1>12, <1>13, <1>14,
     <1>15, <1>16, <1>17, <1>18, <1>19, <1>20, <1>21, <1>22, <1>23, <1>24, <1>25, <1>26, <1>27,
     <1>28, <1>29, <1>30, <1>31, <1>32, <1>33, <1>34, <1>35, <1>36, <1>37, <1>38, <1>39, <1>40,
     <1>41
  DEF Next, Goes, Look, Take, Hold, CollectTurns, SettleTurn, Settles, SettleOwn, Fault, Actor,
      vars, disk, wait, profile, ghosts

\* Nobody else marks the turn of a caller.
LEMMA MineMarked ==
  ASSUME ConstantsAssumption, Inv, [Next]_vars,
         NEW c \in Caller, NEW t, t = mine[c], t # NoTurn
  PROVE  /\ Held(t)' => Held(t) \/ pc'[c] # pc[c]
         /\ turn'[t].done => turn[t].done \/ pc'[c] # pc[c]
<1>t. /\ t \in Token /\ turn \in [Token -> Turn] /\ Published(t) /\ issued \in Nat
      /\ \A d \in Caller : mine[d] = t => d = c
      /\ \A a \in Actor : target[a] # t
  BY DEF Inv, TypeOK, Ownership
<1>u. /\ c \in Actor
      /\ pc \in [Actor -> {"idle", "list", "latest", "publish", "pred", "grant", "void",
                       "settlepred", "settlegrant", "settledone", "own",
                       "enter", "section", "record", "release",
                       "collect", "candidate", "older", "next", "remove", "dead"}]
  BY DEF Inv, TypeOK, Actor
<1> DEFINE Goal == /\ Held(t)' => Held(t) \/ pc'[c] # pc[c]
                   /\ turn'[t].done => turn[t].done \/ pc'[c] # pc[c]
<1>1. ASSUME UNCHANGED turn PROVE Goal
  BY <1>1 DEF Held
<1>2. ASSUME NEW d \in Caller, Arrive(d) \/ LatestGone(d) \/ LatestFinished(d) \/ LatestBusy(d)
             \/ LatestAbandoned(d) \/ TimeOut(d) \/ PublishLoses(d) \/ PredFinished(d)
             \/ PredChanged(d) \/ Enter(d) \/ WriteStore(d) \/ CreateProfile(d)
             \/ DeleteConfig(d) \/ RecordDeletion(d) \/ SectionFails(d) \/ Collect(d)
             \/ CandidateOpen(d) \/ CandidateVoid(d) \/ CandidateGranted(d) \/ CheckOlder(d)
             \/ NextFinished(d) \/ NextOpen(d) \/ RemoveFails(d) \/ GiveUpTurn(d)
      PROVE  Goal
  BY <1>1, <1>2 DEF Arrive, disk, wait, profile, ghosts, LatestGone, LatestFinished,
     LatestBusy, LatestAbandoned, TimeOut, PublishLoses, PredFinished, PredChanged, Enter,
     WriteStore, CreateProfile, DeleteConfig, RecordDeletion, SectionFails, Collect, GoOn,
     CandidateOpen, CandidateVoid, CandidateGranted, CheckOlder, NextFinished, NextOpen,
     RemoveFails, GiveUpTurn
<1>3. ASSUME NEW d \in Caller, NEW s \in Token, ListTurns(d, s) PROVE Goal
  BY <1>1, <1>3 DEF ListTurns, disk, wait, profile, ghosts
<1>4. ASSUME NEW a \in Actor, ReadOwner(a) \/ ReadDone(a) \/ SettlePred(a) \/ FileError(a)
      PROVE  Goal
  BY <1>1, <1>4 DEF ReadOwner, disk, wait, profile, ghosts, ReadDone, SettlePred, FileError
<1>5. ASSUME NEW p \in Process, NEW s \in Token, Retry(p, s) PROVE Goal
  BY <1>1, <1>5 DEF Retry, disk, wait, profile, ghosts
<1>6. ASSUME NEW p \in Process, RetryRead(p) \/ Crash(p) PROVE Goal
  BY <1>1, <1>6 DEF RetryRead, disk, wait, profile, ghosts, Crash
<1>7. ASSUME NEW d \in Caller, CreateTurnDirectory(d) PROVE Goal
  BY <1>7, <1>t DEF CreateTurnDirectory, Published, Token
<1>8. ASSUME NEW d \in Caller, Publish(d) PROVE Goal
  BY <1>8, <1>t DEF Publish, Published, Held
<1>9. ASSUME NEW d \in Caller, Grant(d) PROVE Goal
  <2>1. CASE d = c
    BY <1>9, <2>1, <1>u DEF Grant
  <2>2. CASE d # c
    BY <1>9, <2>2, <1>t DEF Grant, MarkHeld, MarkDone, Held
  <2> QED
    BY <2>1, <2>2
<1>10. ASSUME NEW d \in Caller, VoidTurn(d) PROVE Goal
  <2>1. CASE d = c
    BY <1>10, <2>1, <1>u DEF VoidTurn
  <2>2. CASE d # c
    BY <1>10, <2>2, <1>t DEF VoidTurn, MarkHeld, MarkDone, Held
  <2> QED
    BY <2>1, <2>2
<1>11. ASSUME NEW a \in Actor, SettleGrant(a) PROVE Goal
  BY <1>11, <1>t DEF SettleGrant, MarkHeld, MarkDone, Held
<1>12. ASSUME NEW a \in Actor, SettleDone(a) PROVE Goal
  BY <1>12, <1>t DEF SettleDone, MarkHeld, MarkDone, Held
<1>13. ASSUME NEW d \in Caller, Release(d) PROVE Goal
  <2>1. CASE d = c
    BY <1>13, <2>1, <1>u DEF Release
  <2>2. CASE d # c
    BY <1>13, <2>2, <1>t DEF Release, MarkHeld, MarkDone, Held
  <2> QED
    BY <2>1, <2>2
<1>14. ASSUME NEW d \in Caller, Remove(d) PROVE Goal
  BY <1>14, <1>t DEF Remove, Here, Turn, Held
<1> QED
  BY <1>1, <1>2, <1>3, <1>4, <1>5, <1>6, <1>7, <1>8, <1>9, <1>10, <1>11, <1>12, <1>13, <1>14
  DEF Next, Goes, Look, Take, Hold, CollectTurns, SettleTurn, Settles, SettleOwn, Fault, Actor,
      vars, disk, wait, profile, ghosts


\* A step of readTurn, or none, keeps what is known of the predecessor.
LEMMA PredStays ==
  ASSUME ConstantsAssumption, Inv, [Next]_vars, NEW a \in Actor, NEW t \in Token, Published(t),
         ReadsPred(a, t), seen'[a] = seen[a] \/ SeesOwner(a) \/ SeesDone(a)
  PROVE  ReadsPred(a, t)'
<1> DEFINE p == turn[t].after
<1>1. DirType /\ Directory /\ DirectoryStep /\ seen[a] \in Seen
  BY DirectorySteps DEF Inv, TypeOK, DirType
<1>2. /\ p \in Token /\ Published(p) /\ Held(p) /\ turn[p].done
      /\ p # NoTurn /\ seen[a].slot = turn[p].slot
      /\ seen[a].step \in {"done", "held"} => seen[a].token = p \/ Gone(p)
      /\ seen[a].step = "held" /\ ~seen[a].done => Gone(p)
  BY <1>1, Basics DEF ReadsPred, Directory, FollowsFinished
<1>3. turn'[t].after = p /\ turn'[p].slot = turn[p].slot /\ (Gone(p) => turn'[p].place = "gone")
  BY <1>1, <1>2, TurnsLast DEF Lasts, Gone
<1> HIDE DEF p
<1>4. CASE seen'[a] = seen[a]
  BY <1>2, <1>3, <1>4 DEF ReadsPred, Gone
<1>5. CASE SeesOwner(a)
  <2>1. PICK s \in Token : /\ Here1(s) /\ turn[s].slot = seen[a].slot
                           /\ seen'[a] = [slot |-> seen[a].slot, token |-> s,
                                          done |-> seen[a].done, step |-> "done"]
    BY <1>5 DEF SeesOwner, Here, Here1
  <2>2. s = p \/ Gone(p)
    BY <2>1, <1>1, <1>2, Basics DEF Directory, OnePerSlot
  <2> QED
    BY <2>1, <2>2, <1>2, <1>3 DEF ReadsPred, Gone
<1>6. CASE SeesDone(a)
  <2>1. PICK d \in BOOLEAN :
          /\ d <=> MarkedDone(seen[a].token)
          /\ seen'[a] = [slot |-> seen[a].slot, token |-> seen[a].token, done |-> d,
                         step |-> "held"]
    BY <1>6 DEF SeesDone
  <2>2. seen[a].token = p \/ Gone(p)
    BY <1>2, <1>6 DEF SeesDone
  <2>3. d \/ Gone(p)
    BY <2>1, <2>2, <1>1, <1>2, Basics DEF MarkedDone, Here1
  <2> QED
    BY <2>1, <2>2, <2>3, <1>2, <1>3 DEF ReadsPred, Gone
<1> QED
  BY <1>4, <1>5, <1>6

\* What the last read of a predecessor says.
LEMMA PredDecides ==
  ASSUME ConstantsAssumption, Inv, NEW a \in Actor, NEW t \in Token, Published(t),
         ReadsPred(a, t)
  PROVE  /\ ReadsFinished(a, turn[t].after) => Here1(turn[t].after)
         /\ ReadsNotFinished(a, turn[t].after) => DoneAt(turn[t].slot)
<1> DEFINE p == turn[t].after
<1>1. DirType /\ Directory
  BY DEF Inv, TypeOK, DirType
<1>2. /\ p \in Token /\ Published(p) /\ Held(p) /\ turn[p].done /\ turn[t].slot = turn[p].slot + 1
      /\ p # NoTurn /\ seen[a].slot = turn[p].slot
      /\ seen[a].step \in {"done", "held"} => seen[a].token = p \/ Gone(p)
      /\ seen[a].step = "held" /\ ~seen[a].done => Gone(p)
  BY <1>1, Basics DEF ReadsPred, Directory, FollowsFinished
<1>3. ReadsFinished(a, p) => Here1(p)
  BY DEF ReadsFinished, ReadsHeld, MarkedHeld, Here1
<1>4. ASSUME ReadsNotFinished(a, p) PROVE Gone(p)
  <2>1. CASE ReadsGone(a)
    BY <2>1, <1>1, <1>2, Basics DEF ReadsGone, Here, Here1
  <2>2. CASE ReadsTurn(a) /\ ~ReadsFinished(a, p)
    BY <2>2, <1>1, <1>2, Basics DEF ReadsTurn, ReadsFinished, ReadsHeld, MarkedHeld, Here1,
       Held
  <2> QED
    BY <1>4, <2>1, <2>2 DEF ReadsNotFinished
<1>5. Gone(p) => DoneAt(turn[t].slot)
  BY <1>1, <1>2 DEF Directory, RemovedInOrder
<1> QED
  BY <1>3, <1>4, <1>5

\* A turn whose predecessor is in place and that was not granted is in place itself.
LEMMA PredHere ==
  ASSUME DirType, Directory, NEW t \in Token, Published(t), ~Held(t),
         turn[t].after # NoTurn, Here1(turn[t].after)
  PROVE  Here1(t) /\ ~DoneAt(turn[t].slot)
<1>1. ~Gone(t)
  <2> SUFFICES ASSUME Gone(t) PROVE FALSE
    OBVIOUS
  <2>1. PICK u \in Token : Held(u) /\ Gone(u) /\ turn[u].slot = turn[t].slot
    BY DEF Directory, UnheldHasRival, ClosedAt
  <2> QED
    BY <2>1, NoRival
<1>2. ~DoneAt(turn[t].slot)
  BY <1>1, NoRival DEF DoneAt
<1> QED
  BY <1>1, <1>2, Basics

\* A caller that rests, or reads, keeps what its own turn is known for: the others' steps do
\* not take it away.
LEMMA OwnTurnStays ==
  ASSUME ConstantsAssumption, Inv, [Next]_vars, NEW c \in Caller,
         pc'[c] = pc[c], mine'[c] = mine[c],
         seen'[c] = seen[c] \/ SeesOwner(c) \/ SeesDone(c)
  PROVE  OwnTurn(c)'
<1>0. /\ DirType /\ Directory /\ DirectoryStep /\ OwnTurn(c) /\ c \in Actor
      /\ mine[c] # NoTurn <=> pc[c] \in HasTurn
      /\ mine[c] # NoTurn => mine[c] \in Token /\ Published(mine[c]) /\ turn[mine[c]].after # NoTurn
  BY DirectorySteps DEF Inv, TypeOK, DirType, Protocol, Ownership, Actor
<1>1. CASE pc[c] \notin HasTurn
  BY <1>1 DEF OwnTurn, HasTurn, Holding
<1>2. CASE pc[c] \in HasTurn
  <2>1. PICK t \in Token : t = mine[c] /\ t # NoTurn
    BY <1>0, <1>2
  <2>2. Published(t) /\ turn[t].after # NoTurn /\ Lasts(t)
    BY <1>0, <1>2, <2>1, TurnsLast
  <2>3. (Held(t)' <=> Held(t)) /\ (turn'[t].done <=> turn[t].done)
    BY <1>0, <2>1, <2>2, MineMarked DEF Lasts
  <2>4. pc[c] \in {"pred", "grant"} => ~turn'[t].held /\ ~turn'[t].done
    BY <1>0, <2>1, <2>3 DEF OwnTurn, Held
  <2>5. pc[c] = "pred" => ReadsPred(c, t)'
    BY <1>0, <2>1, <2>2, PredStays DEF OwnTurn
  <2>6. pc[c] = "grant" => Here1(t)' /\ Here1(turn[t].after)'
    BY <1>0, <2>1, <2>2, GrantableStays DEF OwnTurn
  <2>7. pc[c] = "void" => DoneAt(turn[t].slot)'
    <3>1. pc[c] = "void" => DoneAt(turn[t].slot)
      BY <1>0, <2>1 DEF OwnTurn
    <3>2. pc[c] = "void" => DoneAt(turn[t].slot)'
      <4> SUFFICES ASSUME pc[c] = "void" PROVE DoneAt(turn[t].slot)'
        OBVIOUS
      <4>1. PICK n : n = turn[t].slot
        OBVIOUS
      <4>2. DoneAt(n)'
        BY <1>0, <3>1, <4>1, NumbersLast
      <4> QED
        BY <4>1, <4>2, <2>2 DEF Lasts, DoneAt
    <3> QED
      BY <3>2
  <2>8. Holding(c) => Here1(t)' /\ turn'[t].held /\ ~turn'[t].done
    BY <1>0, <2>1, <2>3, OpenStays DEF OwnTurn, Held
  <2>9. pc[c] \in {"collect", "candidate", "older", "next", "remove"} => turn'[t].held /\ turn'[t].done
    BY <1>0, <2>1, <2>3 DEF OwnTurn, Held
  <2> QED
    BY <2>1, <2>4, <2>5, <2>6, <2>7, <2>8, <2>9
    DEF OwnTurn, Held, Holding, ReadsPred, Here1, DoneAt, Gone
<1> QED
  BY <1>1, <1>2


\* A step of readTurn by c.
LEMMA ReadSteps ==
  ASSUME ConstantsAssumption, Inv, [Next]_vars, NEW a \in Actor, ReadOwner(a) \/ ReadDone(a)
  PROVE  /\ SeesOwner(a) \/ SeesDone(a)
         /\ pc' = pc /\ mine' = mine /\ target' = target /\ first' = first /\ todo' = todo
         /\ UNCHANGED <<turn, issued>>
<1>1. /\ pc' = pc /\ mine' = mine /\ target' = target /\ first' = first /\ todo' = todo
      /\ UNCHANGED <<turn, issued>>
  BY DEF ReadOwner, ReadDone, disk, wait
<1>2. CASE ReadOwner(a)
  <2>1. seen[a].step = "owner" /\ seen'[a].step = "done" /\ seen'[a] # seen[a]
    <3>1. \A s \in Seen : \A t : [s EXCEPT !.token = t, !.step = "done"].step = "done"
      BY DEF Seen
    <3>2. PICK t \in Token : seen' = [seen EXCEPT ![a] = [@ EXCEPT !.token = t, !.step = "done"]]
      BY <1>2 DEF ReadOwner, Here, Inv, TypeOK
    <3>3. seen[a] \in Seen /\ seen'[a] = [seen[a] EXCEPT !.token = t, !.step = "done"]
      BY <3>2 DEF Inv, TypeOK
    <3>4. seen'[a].step = "done"
      BY <3>1, <3>3
    <3> QED
      BY <1>2, <3>4 DEF ReadOwner
  <2>2. NotReading.step = "none" /\ \A n : Reading(n).step = "owner"
    BY DEF NotReading, Reading
  <2> QED
    BY <1>1, <2>1, <2>2, SeenChanges
<1>3. CASE ReadDone(a)
  <2>1. seen[a].step = "done" /\ seen'[a].step = "held" /\ seen'[a] # seen[a]
    BY <1>3 DEF ReadDone, Inv, TypeOK, Seen
  <2>2. NotReading.step = "none" /\ \A n : Reading(n).step = "owner"
    BY DEF NotReading, Reading
  <2> QED
    BY <1>1, <2>1, <2>2, SeenChanges
<1> QED
  BY <1>2, <1>3

\* A caller's own turn is as its place in the protocol says: before the grant it is neither
\* granted nor void, in the section it is in place and open, after it is done.
LEMMA OwnTurnStep ==
  ASSUME ConstantsAssumption, Inv, [Next]_vars, NEW c \in Caller
  PROVE  OwnTurn(c)'
<1>t. /\ c \in Actor /\ OwnTurn(c) /\ DirType /\ Directory /\ DirectoryStep /\ NoTurn \notin Token
      /\ pc \in [Actor -> {"idle", "list", "latest", "publish", "pred", "grant", "void",
                       "settlepred", "settlegrant", "settledone", "own",
                       "enter", "section", "record", "release",
                       "collect", "candidate", "older", "next", "remove", "dead"}]
      /\ seen \in [Actor -> Seen]
      /\ mine \in [Caller -> Token \cup {NoTurn}] /\ turn \in [Token -> Turn]
  BY DirectorySteps DEF Inv, TypeOK, Protocol, Actor, DirType, NoTurn, Token
<1>m. /\ mine[c] # NoTurn <=> pc[c] \in HasTurn
      /\ mine[c] # NoTurn => mine[c] \in Token /\ Published(mine[c]) /\ turn[mine[c]].after # NoTurn
  BY <1>t DEF Inv, Ownership
<1>l. \A t \in Token : Published(t) => /\ turn[t].held => turn'[t].held
                                       /\ turn[t].done => turn'[t].done
  BY <1>t, TurnsLast DEF Lasts, Held
<1>1. CASE CallerRests(c)
  BY <1>1, OwnTurnStays DEF CallerRests, Rests
<1>2. CASE \/ Arrive(c) \/ TimeOut(c) \/ CreateTurnDirectory(c) \/ (\E t \in Token : ListTurns(c, t))
           \/ LatestGone(c) \/ LatestFinished(c) \/ LatestBusy(c) \/ LatestAbandoned(c)
           \/ PublishLoses(c) \/ VoidTurn(c) \/ SettlePred(c) \/ SettleGrant(c) \/ SettleDone(c)
           \/ GiveUpTurn(c) \/ FileError(c) \/ (\E p \in {In[c]} : Crash(p))
  <2>1. pc'[c] \notin HasTurn
    BY <1>2, <1>t DEF Arrive, TimeOut, CreateTurnDirectory, ListTurns, LatestGone,
       LatestFinished, 
       LatestBusy, LatestAbandoned, Settle, PublishLoses, VoidTurn, SettlePred, SettleGrant,
       SettleDone, GiveUpTurn, FileError, Crash, Home, HasTurn
  <2> QED
    BY <2>1 DEF OwnTurn, HasTurn, Holding
<1>3. CASE ReadOwner(c) \/ ReadDone(c)
  BY <1>3, <1>t, ReadSteps, OwnTurnStays
<1>4. CASE Publish(c)
  <2> DEFINE k == issued + 1
             a == seen[c].token
  <2>1. /\ issued \in Nat /\ k \in Token /\ issued' = k /\ ~Published(k)
        /\ a \in Token /\ Published(a) /\ turn[a].slot = seen[c].slot
    BY <1>4, <1>t DEF Publish, Inv, Reads, Seen, ConstantsAssumption, DirType, Token, Published
  <2>2. turn'[k] = [slot |-> seen[c].slot + 1, by |-> In[c], after |-> a,
                    held |-> FALSE, done |-> FALSE, place |-> "here"]
    BY <1>4, <1>t, <2>1 DEF Publish
  <2>3. turn'[a].slot = seen[c].slot /\ a # NoTurn
    BY <1>t, <2>1, TurnsLast DEF Lasts
  <2>4. mine'[c] = k /\ pc'[c] = "pred" /\ seen'[c] = Reading(seen[c].slot)
    BY <1>4, <1>t, <2>1 DEF Publish
  <2>5. seen'[c].slot = seen[c].slot /\ seen'[c].step = "owner"
    BY <2>4 DEF Reading
  <2> QED
    BY <2>2, <2>3, <2>4, <2>5 DEF OwnTurn, ReadsPred, Held, Holding
<1>5. CASE PredFinished(c)
  <2>1. /\ pc[c] = "pred" /\ pc'[c] = "grant" /\ mine' = mine /\ turn' = turn
        /\ ReadsFinished(c, turn[mine[c]].after)
    BY <1>5, <1>t DEF PredFinished, disk, wait
  <2>2. mine[c] # NoTurn /\ ~Held(mine[c]) /\ ~turn[mine[c]].done /\ ReadsPred(c, mine[c])
    BY <1>t, <1>m, <2>1 DEF OwnTurn, HasTurn
  <2>3. Here1(turn[mine[c]].after)
    BY <1>t, <1>m, <2>1, <2>2, PredDecides
  <2>4. Here1(mine[c])
    BY <1>t, <1>m, <2>2, <2>3, PredHere
  <2> QED
    BY <2>1, <2>2, <2>3, <2>4 DEF OwnTurn, Held, Here1, Holding
<1>6. CASE PredChanged(c)
  <2>1. /\ pc[c] = "pred" /\ pc'[c] = "void" /\ mine' = mine /\ turn' = turn
        /\ ReadsNotFinished(c, turn[mine[c]].after)
    BY <1>6, <1>t DEF PredChanged, disk, wait
  <2>2. mine[c] # NoTurn /\ ReadsPred(c, mine[c])
    BY <1>t, <1>m, <2>1 DEF OwnTurn, HasTurn
  <2>3. DoneAt(turn[mine[c]].slot)
    BY <1>t, <1>m, <2>1, <2>2, PredDecides
  <2> QED
    BY <2>1, <2>3 DEF OwnTurn, Held, Holding, DoneAt
<1>7. CASE Grant(c)
  <2>1. /\ pc[c] = "grant" /\ mine' = mine /\ mine[c] \in Token
        /\ Here1(mine[c]) /\ ~turn[mine[c]].done
    BY <1>7, <1>t, <1>m DEF Grant, wait, OwnTurn, HasTurn
  <2>2. PathExists(mine[c])
    BY <2>1 DEF PathExists, Here, Here1
  <2>3. pc'[c] = "enter" /\ turn' = [turn EXCEPT ![mine[c]].held = TRUE]
    BY <1>7, <1>t, <2>1, <2>2 DEF Grant, MarkHeld, Here1
  <2>4. /\ turn'[mine[c]].held = TRUE /\ turn'[mine[c]].done = turn[mine[c]].done
        /\ turn'[mine[c]].place = turn[mine[c]].place
    BY <1>t, <2>1, <2>3 DEF Turn
  <2> QED
    BY <2>1, <2>3, <2>4 DEF OwnTurn, Held, Here1, Holding
<1>8. CASE \/ Enter(c) \/ WriteStore(c) \/ CreateProfile(c) \/ DeleteConfig(c)
           \/ RecordDeletion(c) \/ SectionFails(c)
  <2>1. /\ Holding(c) /\ pc'[c] \in {"section", "record", "release"}
        /\ mine' = mine /\ turn' = turn
    BY <1>8, <1>t DEF Enter, WriteStore, CreateProfile, DeleteConfig, RecordDeletion,
       SectionFails, Holding, disk, wait
  <2> QED
    BY <1>t, <2>1 DEF OwnTurn, Held, Here1, Holding
<1>9. CASE Release(c)
  <2>1. /\ pc'[c] = "collect" /\ mine' = mine /\ mine[c] \in Token
        /\ Here1(mine[c]) /\ Held(mine[c])
    BY <1>9, <1>t, <1>m DEF Release, wait, OwnTurn, HasTurn, Holding
  <2>2. turn' = [turn EXCEPT ![mine[c]].done = TRUE]
    BY <1>9, <2>1 DEF Release, MarkDone, Here1
  <2>3. turn'[mine[c]].held /\ turn'[mine[c]].done = TRUE
    BY <1>t, <2>1, <2>2 DEF Turn, Held
  <2> QED
    BY <2>1, <2>3 DEF OwnTurn, Held, Holding
<1>10. CASE \/ Collect(c) \/ CandidateOpen(c) \/ CandidateVoid(c) \/ CandidateGranted(c)
            \/ CheckOlder(c) \/ NextFinished(c) \/ NextOpen(c) \/ Remove(c) \/ RemoveFails(c)
  <2>1. /\ pc[c] \in {"collect", "candidate", "older", "next", "remove"}
        /\ \/ pc'[c] = "idle"
           \/ pc'[c] \in {"candidate", "older", "next", "remove"} /\ mine' = mine
    BY <1>10, <1>t DEF Collect, CandidateOpen, CandidateVoid, CandidateGranted, CheckOlder,
       NextFinished, NextOpen, Remove, RemoveFails, Skip, GoOn, wait
  <2>2. mine[c] # NoTurn /\ Held(mine[c]) /\ turn[mine[c]].done
    BY <1>m, <1>t, <2>1 DEF OwnTurn, HasTurn
  <2>3. turn'[mine[c]].held /\ turn'[mine[c]].done
    BY <1>m, <1>l, <2>2 DEF Held
  <2> QED
    BY <2>1, <2>3 DEF OwnTurn, Held, Holding
<1> QED
  BY <1>1, <1>2, <1>3, <1>4, <1>5, <1>6, <1>7, <1>8, <1>9, <1>10, OthersRest
     DEF CallerStep, Goes, Look, Take, Hold, CollectTurns, SettleTurn

\* The same for who settles a turn.
LEMMA SettlementStays ==
  ASSUME ConstantsAssumption, Inv, [Next]_vars, NEW a \in Actor,
         pc'[a] = pc[a], target'[a] = target[a],
         seen'[a] = seen[a] \/ SeesOwner(a) \/ SeesDone(a)
  PROVE  Settlement(a)'
<1>0. /\ DirType /\ Directory /\ DirectoryStep /\ Settlement(a)
      /\ target[a] # NoTurn <=> pc[a] \in Settling
      /\ target[a] # NoTurn => target[a] \in Token /\ Published(target[a])
  BY DirectorySteps DEF Inv, TypeOK, DirType, Protocol, Ownership
<1>1. CASE pc[a] \notin Settling
  BY <1>1 DEF Settlement, Settling
<1>2. CASE pc[a] \in Settling
  <2>1. PICK t \in Token : t = target[a]
    BY <1>0, <1>2
  <2>2. Published(t) /\ Lasts(t)
    BY <1>0, <1>2, <2>1, TurnsLast
  <2>3. pc[a] = "settlepred" => ReadsPred(a, t)'
    BY <1>0, <2>1, <2>2, PredStays DEF Settlement
  <2>4. pc[a] = "settlegrant" =>
          /\ turn[t].after # NoTurn
          /\ turn'[t].held \/ turn'[t].place = "gone" \/ Here1(turn[t].after)'
    BY <1>0, <2>1, <2>2, GrantableStays, Basics DEF Settlement, Lasts, Held, Gone
  <2>5. pc[a] = "settledone" =>
          turn'[t].held \/ turn'[t].place = "gone" \/ DoneAt(turn[t].slot)'
    <3>1. PICK n : n = turn[t].slot
      OBVIOUS
    <3>2. DoneAt(n) => DoneAt(n)'
      BY <1>0, NumbersLast
    <3>3. DoneAt(turn[t].slot) => DoneAt(turn[t].slot)'
      BY <3>1, <3>2, <2>2 DEF Lasts, DoneAt
    <3> QED
      BY <1>0, <2>1, <2>2, <3>3 DEF Settlement, Lasts, Held, Gone
  <2> QED
    BY <2>1, <2>2, <2>3, <2>4, <2>5 DEF Settlement, Lasts, ReadsPred, Held, Here1, Gone, DoneAt
<1> QED
  BY <1>1, <1>2

\* A turn that is settled is granted only after one in place, and marked done only when it was
\* granted or has a rival.
LEMMA SettlementStep ==
  ASSUME ConstantsAssumption, Inv, [Next]_vars, NEW a \in Actor
  PROVE  Settlement(a)'
<1>t. /\ Settlement(a) /\ DirType /\ Directory /\ DirectoryStep /\ NoTurn \notin Token
      /\ pc \in [Actor -> {"idle", "list", "latest", "publish", "pred", "grant", "void",
                       "settlepred", "settlegrant", "settledone", "own",
                       "enter", "section", "record", "release",
                       "collect", "candidate", "older", "next", "remove", "dead"}]
      /\ seen \in [Actor -> Seen] /\ target \in [Actor -> Token \cup {NoTurn}]
      /\ turn \in [Token -> Turn]
      /\ a \in Process => a \notin Caller
  BY DirectorySteps DEF Inv, TypeOK, Protocol, DirType, NoTurn, Token, ConstantsAssumption
<1>m. /\ target[a] # NoTurn <=> pc[a] \in Settling
      /\ target[a] # NoTurn => target[a] \in Token /\ Published(target[a])
  BY <1>t DEF Inv, Ownership
<1>1. CASE Rests(a)
  BY <1>1, SettlementStays DEF Rests
<1>2. CASE /\ a \in Caller
           /\ \/ Arrive(a) \/ TimeOut(a) \/ CreateTurnDirectory(a)
              \/ (\E t \in Token : ListTurns(a, t))
              \/ LatestGone(a) \/ LatestFinished(a) \/ LatestBusy(a) \/ Take(a) \/ Hold(a)
              \/ CollectTurns(a) \/ SectionFails(a) \/ RemoveFails(a) \/ GiveUpTurn(a)
              \/ (\E p \in {In[a]} : Crash(p))
  <2>1. pc'[a] \notin {"settlepred", "settlegrant", "settledone"}
    <3>1. CASE \/ Arrive(a) \/ TimeOut(a) \/ CreateTurnDirectory(a)
               \/ (\E t \in Token : ListTurns(a, t)) \/ LatestGone(a) \/ LatestFinished(a)
               \/ LatestBusy(a) \/ SectionFails(a) \/ GiveUpTurn(a)
      BY <3>1, <1>2, <1>t DEF Arrive, TimeOut, CreateTurnDirectory, ListTurns, LatestGone,
         LatestFinished, LatestBusy, SectionFails, GiveUpTurn
    <3>5. CASE (\E p \in {In[a]} : Crash(p))
      <4>1. a \in Caller /\ pc'[a] = IF Home(a) = In[a] THEN "dead" ELSE pc[a]
        BY <3>5, <1>2 DEF Crash
      <4> QED
        BY <4>1 DEF Home
    <3>2. CASE Take(a)
      BY <3>2, <1>t DEF Take, Publish, PublishLoses, PredFinished, PredChanged, Grant, VoidTurn
    <3>3. CASE Hold(a)
      BY <3>3, <1>t DEF Hold, Enter, WriteStore, CreateProfile, DeleteConfig, RecordDeletion,
         Release
    <3>4. CASE CollectTurns(a) \/ RemoveFails(a)
      BY <3>4, <1>t DEF CollectTurns, Collect, CandidateOpen, CandidateVoid, CandidateGranted,
         CheckOlder, NextFinished, NextOpen, Remove, RemoveFails, Skip, GoOn
    <3> QED
      BY <1>2, <3>1, <3>2, <3>3, <3>4, <3>5
  <2> QED
    BY <2>1 DEF Settlement
<1>3. CASE FileError(a) \/ (a \in Process /\ (Crash(a) \/ \E t \in Token : Retry(a, t)))
  <2>1. pc'[a] \notin {"settlepred", "settlegrant", "settledone"}
    BY <1>3, <1>t DEF FileError, Crash, Home, Retry
  <2> QED
    BY <2>1 DEF Settlement
<1>4. CASE ReadOwner(a) \/ ReadDone(a)
  BY <1>4, <1>t, ReadSteps, SettlementStays
<1>5. ASSUME NEW t \in Token, Published(t), Settle(a, t, ReadsHeld(a)), seen[a].token = t,
             UNCHANGED turn
      PROVE  Settlement(a)'
  <2>1. target'[a] = t
    BY <1>5, <1>t DEF Settle
  <2>2. CASE ReadsHeld(a) \/ turn[t].after = NoTurn
    <3>1. pc'[a] = "settledone"
      BY <1>5, <1>t, <2>2 DEF Settle
    <3>2. Held(t)
      BY <1>5, <1>t, <2>2 DEF ReadsHeld, MarkedHeld, Held, Directory, FollowsFinished
    <3> QED
      BY <1>5, <2>1, <3>1, <3>2 DEF Settlement, Held
  <2>3. CASE ~ReadsHeld(a) /\ turn[t].after # NoTurn
    <3>1. pc'[a] = "settlepred" /\ seen'[a] = Reading(turn[t].slot - 1)
      BY <1>5, <1>t, <2>3 DEF Settle
    <3>2. seen'[a].slot = turn[turn[t].after].slot /\ seen'[a].step = "owner"
      BY <3>1, <1>5, <1>t, <2>3, Basics DEF Directory, FollowsFinished, Reading
    <3> QED
      BY <1>5, <2>1, <2>3, <3>1, <3>2 DEF Settlement, ReadsPred
  <2> QED
    BY <2>2, <2>3
<1>6. CASE a \in Caller /\ LatestAbandoned(a)
  <2>1. seen[a].token \in Token /\ Published(seen[a].token)
    BY <1>6, <1>t DEF LatestAbandoned, ReadsTurn, Inv, Reads, Seen
  <2> QED
    BY <1>5, <1>6, <2>1 DEF LatestAbandoned, disk
<1>7. CASE a \in Process /\ RetryRead(a)
  <2>1. target[a] \in Token /\ Published(target[a])
    BY <1>7, <1>m DEF RetryRead, Settling
  <2>2. CASE ReadsTurn(a) /\ seen[a].token = target[a] /\ Settle(a, target[a], ReadsHeld(a))
    BY <1>5, <1>7, <2>1, <2>2 DEF RetryRead, disk
  <2>3. CASE pc' = [pc EXCEPT ![a] = "idle"]
    BY <2>3, <1>t DEF Settlement
  <2> QED
    BY <1>7, <2>2, <2>3 DEF RetryRead
<1>8. CASE SettlePred(a)
  <2>1. /\ pc[a] = "settlepred" /\ target' = target /\ turn' = turn
        /\ \/ ReadsFinished(a, turn[target[a]].after) /\ pc'[a] = "settlegrant"
           \/ ReadsNotFinished(a, turn[target[a]].after) /\ pc'[a] = "settledone"
    BY <1>8, <1>t DEF SettlePred, disk
  <2>2. target[a] \in Token /\ Published(target[a]) /\ ReadsPred(a, target[a])
    BY <1>t, <1>m, <2>1 DEF Settlement, Settling
  <2>3. turn[target[a]].after # NoTurn
    BY <2>2 DEF ReadsPred
  <2>4. /\ ReadsFinished(a, turn[target[a]].after) => Here1(turn[target[a]].after)
        /\ ReadsNotFinished(a, turn[target[a]].after) => DoneAt(turn[target[a]].slot)
    BY <2>2, PredDecides
  <2> QED
    BY <2>1, <2>3, <2>4 DEF Settlement, Here1, DoneAt, Held, Gone
<1>9. CASE SettleGrant(a)
  <2>1. /\ pc'[a] = "settledone" /\ target' = target /\ target[a] \in Token
        /\ Published(target[a])
    BY <1>9, <1>t, <1>m DEF SettleGrant, Settling
  <2>2. CASE Here1(target[a])
    <3>1. turn' = [turn EXCEPT ![target[a]].held = TRUE]
      BY <1>9, <2>2 DEF SettleGrant, MarkHeld, Here1
    <3>2. turn'[target[a]].held
      BY <3>1, <2>1, <1>t DEF Turn
    <3> QED
      BY <2>1, <3>2 DEF Settlement, Held
  <2>3. CASE ~Here1(target[a])
    <3>1. Gone(target[a]) /\ turn' = turn
      BY <1>9, <1>t, <2>1, <2>3, Basics DEF SettleGrant, MarkHeld, Here1
    <3> QED
      BY <2>1, <3>1 DEF Settlement, Gone
  <2> QED
    BY <2>2, <2>3
<1>10. CASE SettleDone(a)
  BY <1>10, <1>t DEF SettleDone, Settlement
<1>11. CASE a \in Caller
  BY <1>11, <1>1, <1>2, <1>3, <1>4, <1>6, <1>8, <1>9, <1>10, OthersRest
     DEF CallerStep, CallerRests, Goes, Look, SettleTurn
<1>12. CASE a \in Process
  BY <1>12, <1>1, <1>3, <1>4, <1>7, <1>8, <1>9, <1>10, OthersRest
     DEF ProcessStep, Settles, SettleOwn, SettleTurn
<1> QED
  BY <1>11, <1>12 DEF Actor


\* A collection that rests, or takes a step of readTurn.
LEMMA CollectionStays ==
  ASSUME ConstantsAssumption, Inv, [Next]_vars, NEW c \in Caller,
         pc'[c] = pc[c], mine'[c] = mine[c],
         seen'[c] = seen[c] \/ SeesOwner(c) \/ SeesDone(c)
  PROVE  Collection(c)'
<1>1. CASE pc[c] \notin {"candidate", "older", "next", "remove"}
  BY <1>1 DEF Collection
<1>2. CASE pc[c] \in {"candidate", "older", "next", "remove"}
  <2>1. /\ DirType /\ Directory /\ DirectoryStep /\ Collection(c) /\ OwnTurn(c) /\ c \in Actor
        /\ seen[c] \in Seen /\ issued \in Nat
    BY DirectorySteps DEF Inv, TypeOK, DirType, Protocol, Actor
  <2>2. PICK m \in Token : m = mine[c] /\ Published(m) /\ Held(m)
    BY <1>2, <2>1 DEF Inv, TypeOK, Ownership, OwnTurn, HasTurn
  <2>3. turn'[m].slot = turn[m].slot /\ issued > 0
    BY <2>1, <2>2, TurnsLast DEF Lasts, Published, Token
  <2>4. PICK n \in Nat : n = seen[c].slot
    BY <1>2, <2>1 DEF Inv, Reads
  <2>5. seen'[c].slot = n
    <3>1. CASE SeesOwner(c)
      <4>1. PICK t : seen'[c] = [slot |-> seen[c].slot, token |-> t, done |-> seen[c].done,
                                 step |-> "done"]
        BY <3>1 DEF SeesOwner
      <4> QED
        BY <4>1, <2>4
    <3>2. CASE SeesDone(c)
      <4>1. PICK d \in BOOLEAN :
              seen'[c] = [slot |-> seen[c].slot, token |-> seen[c].token, done |-> d,
                          step |-> "held"]
        BY <3>2 DEF SeesDone
      <4> QED
        BY <4>1, <2>4
    <3> QED
      BY <3>1, <3>2, <2>4
  <2>6. pc[c] = "next" => n - 1 \in Nat /\ GoneBelow(n - 1)'
    BY <2>1, <2>2, <2>3, <2>4, GoneBelowLasts DEF Collection
  <2>7. pc[c] = "remove" => ClosedAt(n)' \/ (GoneBelow(n)' /\ DoneAt(n + 1)')
    BY <2>1, <2>3, <2>4, GoneBelowLasts, NumbersLast DEF Collection
  <2>8. pc[c] = "candidate" /\ seen'[c].step \in {"done", "held"} =>
          turn'[seen'[c].token].held \/ ClosedAt(n)'
    <3> SUFFICES ASSUME pc[c] = "candidate", seen'[c].step \in {"done", "held"}
                 PROVE  turn'[seen'[c].token].held \/ ClosedAt(n)'
      OBVIOUS
    <3>1. \A t \in Token : Held(t) => turn'[t].held
      BY <2>1, TurnsLast, Basics DEF Lasts, Held
    <3>2. ClosedAt(n) => ClosedAt(n)'
      BY <2>1, NumbersLast
    <3>3. seen[c].step \in {"done", "held"} =>
            seen[c].token \in Token /\ (Held(seen[c].token) \/ ClosedAt(n))
      BY <2>1, <2>4 DEF Collection, Inv, Reads, Seen
    <3>4. CASE seen'[c] = seen[c]
      BY <3>1, <3>2, <3>3, <3>4
    <3>5. CASE SeesDone(c)
      <4>1. seen[c].step = "done" /\ seen'[c].token = seen[c].token
        BY <3>5 DEF SeesDone
      <4> QED
        BY <3>1, <3>2, <3>3, <4>1
    <3>6. CASE SeesOwner(c)
      <4>1. PICK t \in Token : Here1(t) /\ turn[t].slot = n /\ seen'[c].token = t
        BY <3>6, <2>4 DEF SeesOwner, Here, Here1
      <4>2. n < turn[m].slot
        BY <2>1, <2>2, <2>4 DEF Collection
      <4>3. PICK u \in Token : Held(u) /\ turn[u].slot = n
        BY <2>1, <2>2, <4>2, DoneBelow DEF DoneAt
      <4>4. u = t \/ Gone(u)
        BY <2>1, <4>1, <4>3, Basics DEF Directory, OnePerSlot
      <4> QED
        BY <3>1, <3>2, <4>1, <4>3, <4>4 DEF ClosedAt
    <3> QED
      BY <3>4, <3>5, <3>6
  <2>9. /\ pc[c] \in {"candidate", "older", "remove"} => n < turn[m].slot
        /\ pc[c] = "next" => n <= turn[m].slot /\ n > 0
    BY <2>1, <2>2, <2>4 DEF Collection
  <2> QED
    BY <2>2, <2>3, <2>5, <2>6, <2>7, <2>8, <2>9
       DEF Collection, Held, ClosedAt, GoneBelow, DoneAt, Gone
<1> QED
  BY <1>1, <1>2

\* A collection works below its caller's number, from the oldest turn on.
LEMMA CollectionStep ==
  ASSUME ConstantsAssumption, Inv, [Next]_vars, NEW c \in Caller
  PROVE  Collection(c)'
<1>t. /\ c \in Actor /\ Collection(c) /\ OwnTurn(c) /\ DirType /\ Directory /\ DirectoryStep
      /\ pc \in [Actor -> {"idle", "list", "latest", "publish", "pred", "grant", "void",
                       "settlepred", "settlegrant", "settledone", "own",
                       "enter", "section", "record", "release",
                       "collect", "candidate", "older", "next", "remove", "dead"}]
      /\ seen \in [Actor -> Seen] /\ NoTurn \notin Token /\ issued \in Nat
      /\ mine \in [Caller -> Token \cup {NoTurn}] /\ todo \in [Caller -> SUBSET Nat]
      /\ turn \in [Token -> Turn]
  BY DirectorySteps DEF Inv, TypeOK, Protocol, Actor, DirType, NoTurn, Token
<1>1. CASE CallerRests(c)
  BY <1>1, CollectionStays DEF CallerRests, Rests
<1>2. CASE \/ Arrive(c) \/ TimeOut(c) \/ CreateTurnDirectory(c) \/ (\E t \in Token : ListTurns(c, t))
           \/ LatestGone(c) \/ LatestFinished(c) \/ LatestBusy(c) \/ LatestAbandoned(c)
           \/ SettlePred(c) \/ SettleGrant(c) \/ SettleDone(c)
  <2>1. pc'[c] \notin {"candidate", "older", "next", "remove"}
    BY <1>2, <1>t DEF Arrive, TimeOut, CreateTurnDirectory, ListTurns, LatestGone,
       LatestFinished, 
       LatestBusy, LatestAbandoned, Settle, SettlePred, SettleGrant, SettleDone
  <2> QED
    BY <2>1 DEF Collection
<1>3. CASE Take(c) \/ Hold(c)
  <2>1. pc'[c] \notin {"candidate", "older", "next", "remove"}
    BY <1>3, <1>t DEF Take, Hold, Publish, PublishLoses, PredFinished, PredChanged, Grant,
       VoidTurn, 
       Enter, WriteStore, CreateProfile, DeleteConfig, RecordDeletion, Release
  <2> QED
    BY <2>1 DEF Collection
<1>4. CASE SectionFails(c) \/ GiveUpTurn(c) \/ FileError(c) \/ \E p \in {In[c]} : Crash(p)
  <2>1. pc'[c] \notin {"candidate", "older", "next", "remove"}
    BY <1>4, <1>t DEF SectionFails, GiveUpTurn, FileError, Crash, Home
  <2> QED
    BY <2>1 DEF Collection
<1>5. CASE ReadOwner(c) \/ ReadDone(c)
  BY <1>5, <1>t, ReadSteps, CollectionStays
<1>6. ASSUME pc[c] \in {"collect", "candidate", "older", "next", "remove"}
      PROVE  /\ mine[c] \in Token /\ Published(mine[c]) /\ Held(mine[c]) /\ turn[mine[c]].done
             /\ turn'[mine[c]].slot = turn[mine[c]].slot
  <2>1. /\ mine[c] \in Token /\ Published(mine[c]) /\ Held(mine[c]) /\ turn[mine[c]].done
    BY <1>t, <1>6 DEF Inv, Ownership, OwnTurn, HasTurn
  <2>2. \A t \in Token : Published(t) => turn'[t].slot = turn[t].slot
    BY <1>t, TurnsLast DEF Lasts
  <2> QED
    BY <2>1, <2>2
<1>7. ASSUME NEW slots \in SUBSET Nat, GoOn(c, slots),
             pc[c] \in {"collect", "candidate", "older", "next", "remove"},
             \A n \in slots : n < turn[mine[c]].slot
      PROVE  Collection(c)'
  <2>1. CASE slots = {}
    <3>1. pc'[c] \notin {"candidate", "older", "next", "remove"}
      BY <1>7, <1>t, <2>1 DEF GoOn
    <3> QED
      BY <3>1 DEF Collection
  <2>2. CASE slots # {}
    <3>1. PICK n \in slots : /\ pc' = [pc EXCEPT ![c] = "candidate"]
                             /\ seen' = [seen EXCEPT ![c] = Reading(n)]
                             /\ mine' = mine
      BY <1>7, <2>2 DEF GoOn
    <3>2. pc'[c] = "candidate" /\ seen'[c].slot = n /\ seen'[c].step = "owner"
      BY <1>t, <3>1 DEF Reading
    <3> QED
      BY <1>6, <1>7, <3>1, <3>2 DEF Collection
  <2> QED
    BY <2>1, <2>2
<1>8. ASSUME Skip(c), pc[c] \in {"candidate", "older", "next", "remove"} PROVE Collection(c)'
  <2>1. \A n \in todo[c] : n < turn[mine[c]].slot
    BY DEF Inv, TypeOK
  <2>2. {n \in todo[c] : n > seen[c].slot} \in SUBSET Nat
    BY <1>t
  <2> QED
    BY <1>7, <1>8, <2>1, <2>2 DEF Skip
<1>9. CASE Collect(c)
  <2>1. OlderTurns(c) \in SUBSET Nat /\ \A n \in OlderTurns(c) : n < turn[mine[c]].slot
    BY <1>t, Basics DEF OlderTurns, Listed
  <2> QED
    BY <1>7, <1>9, <2>1 DEF Collect
<1>10. CASE CandidateOpen(c) \/ Remove(c) \/ RemoveFails(c)
  BY <1>8, <1>10 DEF CandidateOpen, Remove, RemoveFails
<1>11. CASE NextOpen(c)
  <2>1. \A n \in todo[c] : n < turn[mine[c]].slot
    BY DEF Inv, TypeOK
  <2>2. {n \in todo[c] : n >= seen[c].slot} \in SUBSET Nat
    BY <1>t
  <2> QED
    BY <1>7, <1>11, <2>1, <2>2 DEF NextOpen
<1>12. CASE CandidateVoid(c)
  <2>1. /\ pc[c] = "candidate" /\ ReadsTurn(c) /\ ~ReadsHeld(c) /\ pc'[c] = "remove"
        /\ mine' = mine /\ seen' = seen /\ turn' = turn
    BY <1>12, <1>t DEF CandidateVoid, disk, wait
  <2>2. seen[c].token \in Token /\ Published(seen[c].token)
        /\ turn[seen[c].token].slot = seen[c].slot
    BY <2>1, <1>t DEF ReadsTurn, Inv, Reads, Seen
  <2>3. ClosedAt(seen[c].slot)
    <3>1. CASE Held(seen[c].token)
      BY <3>1, <2>1, <2>2, <1>t, Basics DEF ReadsHeld, MarkedHeld, ClosedAt, Held, Here1
    <3> QED
      BY <3>1, <2>1, <1>t DEF Collection, ReadsTurn
  <2>4. seen[c].slot < turn[mine[c]].slot
    BY <2>1, <1>t DEF Collection
  <2> QED
    BY <2>1, <2>3, <2>4 DEF Collection, ClosedAt, Held, Gone
<1>13. CASE CandidateGranted(c)
  <2>1. /\ pc[c] = "candidate" /\ pc'[c] = "older" /\ mine' = mine /\ seen' = seen /\ turn' = turn
    BY <1>13, <1>t DEF CandidateGranted, disk, wait
  <2> QED
    BY <2>1, <1>t DEF Collection
<1>14. CASE CheckOlder(c)
  <2>1. CASE NoOlder(c)
    <3>1. /\ pc[c] = "older" /\ pc'[c] = "next" /\ mine' = mine /\ turn' = turn
          /\ seen' = [seen EXCEPT ![c] = Reading(seen[c].slot + 1)]
      BY <1>14, <2>1, <1>t DEF CheckOlder, disk
    <3>2. PICK n \in Nat : n = seen[c].slot
      BY <3>1, <1>t DEF Inv, Reads
    <3>3. seen'[c].slot = n + 1
      BY <3>1, <3>2, <1>t DEF Reading
    <3>4. n < turn[mine[c]].slot /\ Here(n - 1) = {}
      BY <3>1, <3>2, <2>1, <1>t DEF Collection, NoOlder
    <3>5. GoneBelow(n)
      <4> SUFFICES ASSUME NEW u \in Token, Held(u), turn[u].slot < n PROVE Gone(u)
        BY DEF GoneBelow
      <4>1. turn[u].slot \in Nat /\ n - 1 \in Nat
        BY <1>t, Basics
      <4>2. CASE turn[u].slot = n - 1
        BY <4>2, <3>4, <1>t, Basics DEF Here, Here1
      <4>3. CASE turn[u].slot < n - 1
        <5>1. DoneAt(n - 1)
          BY <1>6, <1>t, <3>1, <3>4, <4>1, DoneBelow, Basics
        <5>2. PICK v \in Token : Held(v) /\ turn[v].slot = n - 1
          BY <5>1 DEF DoneAt
        <5>3. Gone(v)
          BY <5>2, <3>4, <1>t, Basics DEF Here, Here1
        <5> QED
          BY <5>2, <5>3, <4>3, <1>t DEF Directory, RemovedInOrder, GoneBelow
      <4> QED
        BY <4>1, <4>2, <4>3
    <3>6. n + 1 <= turn[mine[c]].slot /\ n + 1 > 0 /\ (n + 1) - 1 = n
      BY <1>6, <1>t, <3>1, <3>4, Basics
    <3> QED
      BY <3>1, <3>3, <3>5, <3>6 DEF Collection, GoneBelow, Held, Gone
  <2>2. CASE ~NoOlder(c)
    BY <2>2, <1>8, <1>14 DEF CheckOlder
  <2> QED
    BY <2>1, <2>2
<1>15. CASE NextFinished(c)
  <2>1. /\ pc[c] = "next" /\ pc'[c] = "remove" /\ mine' = mine /\ turn' = turn
        /\ ReadsTurn(c) /\ seen[c].done /\ ReadsHeld(c)
        /\ seen' = [seen EXCEPT ![c] = Reading(seen[c].slot - 1)]
    BY <1>15, <1>t DEF NextFinished, disk, wait
  <2>2. PICK n \in Nat : n = seen[c].slot
    BY <2>1, <1>t DEF Inv, Reads
  <2>3. seen'[c].slot = n - 1
    BY <2>1, <2>2, <1>t DEF Reading
  <2>4. n <= turn[mine[c]].slot /\ n > 0 /\ GoneBelow(n - 1)
    BY <2>1, <2>2, <1>t DEF Collection
  <2>5. DoneAt(n)
    BY <2>1, <2>2, <1>t DEF Inv, Reads, ReadsTurn, ReadsHeld, MarkedHeld, DoneAt, Held, Seen
  <2>6. n - 1 < turn[mine[c]].slot /\ (n - 1) + 1 = n
    BY <1>6, <1>t, <2>1, <2>4, Basics
  <2> QED
    BY <2>1, <2>3, <2>4, <2>5, <2>6 DEF Collection, GoneBelow, DoneAt, Held, Gone
<1> QED
  BY <1>1, <1>2, <1>3, <1>4, <1>5, <1>8, <1>9, <1>10, <1>11, <1>12, <1>13, <1>14, <1>15,
     OthersRest
     DEF CallerStep, Goes, Look, CollectTurns, SettleTurn

\* The first number waited for is noted once, and forgotten.
LEMMA FirstChanges ==
  ASSUME ConstantsAssumption, Inv, [Next]_vars
  PROVE  \A c \in Caller :
           \/ first'[c] = first[c]
           \/ first'[c] = NoSlot
           \/ c \in Actor /\ ReadsTurn(c) /\ first'[c] = FirstWaited(c)
<1> USE DEF Inv, TypeOK, Actor
<1> DEFINE Goal == \A c \in Caller :
                     \/ first'[c] = first[c]
                     \/ first'[c] = NoSlot
                     \/ c \in Actor /\ ReadsTurn(c) /\ first'[c] = FirstWaited(c)
<1>1. ASSUME UNCHANGED first PROVE Goal
  BY <1>1
<1>2. ASSUME NEW c \in Caller, Arrive(c) \/ CreateTurnDirectory(c) \/ LatestGone(c)
             \/ Publish(c) \/ PublishLoses(c) \/ PredFinished(c) \/ PredChanged(c) \/ Grant(c)
             \/ VoidTurn(c) \/ WriteStore(c) \/ CreateProfile(c) \/ DeleteConfig(c)
             \/ RecordDeletion(c) \/ SectionFails(c) \/ Release(c) \/ Collect(c)
             \/ CandidateOpen(c) \/ CandidateVoid(c) \/ CandidateGranted(c) \/ CheckOlder(c)
             \/ NextFinished(c) \/ NextOpen(c) \/ Remove(c) \/ RemoveFails(c)
      PROVE  Goal
  BY <1>1, <1>2 DEF Arrive, disk, wait, profile, ghosts, CreateTurnDirectory, LatestGone,
     Publish, PublishLoses, PredFinished, PredChanged, Grant, VoidTurn, WriteStore,
     CreateProfile, DeleteConfig, RecordDeletion, SectionFails, Release, Collect, GoOn,
     CandidateOpen, CandidateVoid, CandidateGranted, CheckOlder, NextFinished, NextOpen,
     Remove, RemoveFails
<1>3. ASSUME NEW c \in Caller, NEW t \in Token, ListTurns(c, t) PROVE Goal
  BY <1>1, <1>3 DEF ListTurns, disk, wait, profile, ghosts
<1>4. ASSUME NEW a \in Actor, ReadOwner(a) \/ ReadDone(a) \/ SettlePred(a) \/ SettleGrant(a)
             \/ SettleDone(a)
      PROVE  Goal
  BY <1>1, <1>4 DEF ReadOwner, disk, wait, profile, ghosts, ReadDone, SettlePred, SettleGrant,
     SettleDone
<1>5. ASSUME NEW p \in Process, NEW t \in Token, Retry(p, t) PROVE Goal
  BY <1>1, <1>5 DEF Retry, disk, wait, profile, ghosts
<1>6. ASSUME NEW p \in Process, RetryRead(p) PROVE Goal
  BY <1>1, <1>6 DEF RetryRead, disk, wait, profile, ghosts
<1>7. ASSUME NEW c \in Caller, LatestFinished(c) PROVE Goal
  BY <1>7 DEF LatestFinished, disk, profile, ghosts
<1>8. ASSUME NEW c \in Caller, LatestBusy(c) PROVE Goal
  BY <1>8 DEF LatestBusy, disk, profile, ghosts
<1>9. ASSUME NEW c \in Caller, LatestAbandoned(c) PROVE Goal
  BY <1>9 DEF LatestAbandoned, Settle, disk, profile, ghosts
<1>10. ASSUME NEW c \in Caller, TimeOut(c) PROVE Goal
  BY <1>10 DEF TimeOut, disk, profile
<1>11. ASSUME NEW c \in Caller, Enter(c) PROVE Goal
  BY <1>11 DEF Enter, disk, profile, ghosts
<1>12. ASSUME NEW c \in Caller, GiveUpTurn(c) PROVE Goal
  BY <1>12 DEF GiveUpTurn, disk, profile
<1>13. ASSUME NEW a \in Actor, FileError(a) PROVE Goal
  BY <1>13 DEF FileError, disk, profile
<1>14. ASSUME NEW p \in Process, Crash(p) PROVE Goal
  BY <1>14 DEF Crash, Actor, disk, profile
<1> QED
  BY <1>1, <1>2, <1>3, <1>4, <1>5, <1>6, <1>7, <1>8, <1>9, <1>10, <1>11, <1>12, <1>13, <1>14
  DEF Next, Goes, Look, Take, Hold, CollectTurns, SettleTurn, Settles, SettleOwn, Fault, Actor,
      vars, disk, wait, profile, ghosts


\* Everything below the first number a caller waited for is done.
LEMMA WaitStep ==
  ASSUME ConstantsAssumption, Inv, [Next]_vars, NEW c \in Caller
  PROVE  Wait(c)'
<1>1. DirType /\ Directory /\ DirectoryStep /\ Wait(c) /\ c \in Actor /\ seen[c] \in Seen
  BY DirectorySteps DEF Inv, TypeOK, DirType, Protocol, Actor
<1>2. \A n : DoneAt(n) => DoneAt(n)'
  BY <1>1, NumbersLast
<1>3. CASE first'[c] = first[c] \/ first'[c] = NoSlot
  BY <1>1, <1>2, <1>3 DEF Wait
<1>4. CASE ReadsTurn(c) /\ first'[c] = FirstWaited(c)
  <2>1. CASE first[c] # NoSlot
    BY <1>1, <1>2, <1>4, <2>1 DEF Wait, FirstWaited
  <2>2. CASE first[c] = NoSlot
    <3>1. PICK t \in Token : /\ t = seen[c].token /\ Published(t) /\ turn[t].slot = seen[c].slot
                             /\ (seen[c].done => turn[t].done)
      BY <1>1, <1>4 DEF ReadsTurn, Inv, Reads, Seen
    <3>2. turn[t].slot \in Nat
      BY <1>1, Basics
    <3>3. /\ first'[c] \in Nat
          /\ first'[c] <= turn[t].slot \/ (turn[t].done /\ first'[c] = turn[t].slot + 1)
      BY <1>4, <2>2, <3>1, <3>2 DEF FirstWaited
    <3>4. ASSUME NEW n \in Nat, n < first'[c] PROVE DoneAt(n)
      <4>1. n < turn[t].slot \/ (n = turn[t].slot /\ turn[t].done)
        BY <3>2, <3>3, <3>4
      <4> QED
        BY <1>1, <3>1, <4>1, AllDoneBelow
    <3> QED
      BY <1>2, <3>3, <3>4 DEF Wait
  <2> QED
    BY <2>1, <2>2
<1> QED
  BY <1>3, <1>4, FirstChanges

\* What the steps of the protocol rely on is kept by all of them.
LEMMA ProtocolStep ==
  ASSUME ConstantsAssumption, Inv, [Next]_vars
  PROVE  Protocol'
BY OwnTurnStep, CollectionStep, WaitStep, SettlementStep DEF Protocol


\* The callers that hold the lock.
LEMMA HoldersAreOne ==
  ASSUME ConstantsAssumption, Inv, NEW c \in Caller, NEW d \in Caller, Holding(c), Holding(d)
  PROVE  c = d
<1>1. DirType /\ Directory /\ OwnTurn(c) /\ OwnTurn(d) /\ NoTurn \notin Token
  BY DEF Inv, TypeOK, DirType, Protocol, NoTurn, Token
<1>2. /\ mine[c] \in Token /\ Held(mine[c]) /\ ~turn[mine[c]].done
      /\ mine[d] \in Token /\ Held(mine[d]) /\ ~turn[mine[d]].done
  BY <1>1 DEF Inv, TypeOK, Ownership, OwnTurn, Holding, HasTurn
<1>3. mine[c] = mine[d]
  BY <1>1, <1>2, OneOpen
<1> QED
  BY <1>1, <1>2, <1>3 DEF Inv, Ownership

\* Nobody has waited for a turn beyond one that is not done.
LEMMA WaitsForOpen ==
  ASSUME ConstantsAssumption, Inv, NEW c \in Caller, first[c] # NoSlot,
         NEW t \in Token, Held(t), ~turn[t].done
  PROVE  first[c] <= turn[t].slot
<1>1. DirType /\ Directory /\ Wait(c) /\ turn[t].slot \in Nat
  BY Basics DEF Inv, TypeOK, DirType, Protocol
<1>2. first[c] \in Nat /\ (turn[t].slot < first[c] => DoneAt(turn[t].slot))
  BY <1>1 DEF Wait
<1>3. ~DoneAt(turn[t].slot)
  BY <1>1, HeldUnique DEF DoneAt
<1> QED
  BY <1>1, <1>2, <1>3

\* A deletion is recorded at the number of a granted turn, and later deletions at later ones.
LEMMA RecordStep ==
  ASSUME ConstantsAssumption, Inv, [Next]_vars
  PROVE  /\ erasers' \subseteq {t \in Token : Held(t)'}
         /\ deletedAt' # NoSlot => \E u \in Token : Held(u)' /\ turn'[u].slot = deletedAt'
         /\ \A c \in Caller : first[c] # NoSlot /\ deletedAt >= first[c] => deletedAt' >= first[c]
<1>t. /\ erasers \subseteq Token
      /\ \A t \in erasers : Held(t)
      /\ \A t \in Token : Held(t) => turn'[t].held /\ turn'[t].slot = turn[t].slot
      /\ deletedAt # NoSlot => \E u \in Token : Held(u) /\ turn[u].slot = deletedAt
  BY DirectorySteps, TurnsLast, Basics DEF Inv, TypeOK, DirType, Deletion, Lasts, Held
<1>h. ASSUME NEW c \in Caller, Holding(c)
      PROVE  mine[c] \in Token /\ Held(mine[c]) /\ ~turn[mine[c]].done
  BY <1>h DEF Inv, TypeOK, Ownership, Protocol, OwnTurn, Holding, HasTurn
<1> DEFINE Goal == /\ erasers' \subseteq {t \in Token : Held(t)'}
                   /\ deletedAt' # NoSlot => \E u \in Token : Held(u)' /\ turn'[u].slot = deletedAt'
                   /\ \A c \in Caller : first[c] # NoSlot /\ deletedAt >= first[c] => deletedAt' >= first[c]
<1>1. ASSUME UNCHANGED <<erasers, deletedAt>> PROVE Goal
  BY <1>1, <1>t DEF Held
<1>2. ASSUME NEW c \in Caller, Arrive(c) \/ CreateTurnDirectory(c) \/ LatestGone(c)
             \/ LatestFinished(c) \/ LatestBusy(c) \/ LatestAbandoned(c) \/ TimeOut(c)
             \/ Publish(c) \/ PublishLoses(c) \/ PredFinished(c) \/ PredChanged(c) \/ Grant(c)
             \/ VoidTurn(c) \/ Enter(c) \/ WriteStore(c) \/ CreateProfile(c) \/ SectionFails(c)
             \/ Release(c) \/ Collect(c) \/ CandidateOpen(c) \/ CandidateVoid(c)
             \/ CandidateGranted(c) \/ CheckOlder(c) \/ NextFinished(c) \/ NextOpen(c)
             \/ Remove(c) \/ RemoveFails(c) \/ GiveUpTurn(c)
      PROVE  Goal
  BY <1>1, <1>2 DEF Arrive, disk, wait, profile, ghosts, CreateTurnDirectory, LatestGone,
     LatestFinished, LatestBusy, LatestAbandoned, TimeOut, Publish, PublishLoses, PredFinished,
     PredChanged, Grant, VoidTurn, Enter, WriteStore, CreateProfile, SectionFails, Release,
     Collect, GoOn, CandidateOpen, CandidateVoid, CandidateGranted, CheckOlder, NextFinished,
     NextOpen, Remove, RemoveFails, GiveUpTurn
<1>3. ASSUME NEW c \in Caller, NEW t \in Token, ListTurns(c, t) PROVE Goal
  BY <1>1, <1>3 DEF ListTurns, disk, wait, profile, ghosts
<1>4. ASSUME NEW a \in Actor, ReadOwner(a) \/ ReadDone(a) \/ SettlePred(a) \/ SettleGrant(a)
             \/ SettleDone(a) \/ FileError(a)
      PROVE  Goal
  BY <1>1, <1>4 DEF ReadOwner, disk, wait, profile, ghosts, ReadDone, SettlePred, SettleGrant,
     SettleDone, FileError
<1>5. ASSUME NEW p \in Process, NEW t \in Token, Retry(p, t) PROVE Goal
  BY <1>1, <1>5 DEF Retry, disk, wait, profile, ghosts
<1>6. ASSUME NEW p \in Process, RetryRead(p) \/ Crash(p) PROVE Goal
  BY <1>1, <1>6 DEF RetryRead, disk, wait, profile, ghosts, Crash
<1>7. ASSUME NEW c \in Caller, DeleteConfig(c) PROVE Goal
  <2>1. Holding(c) /\ erasers' = erasers \cup {mine[c]} /\ deletedAt' = deletedAt
    BY <1>7 DEF DeleteConfig, Holding
  <2> QED
    BY <2>1, <1>h, <1>t DEF Held
<1>8. ASSUME NEW c \in Caller, RecordDeletion(c) PROVE Goal
  <2>1. Holding(c) /\ erasers' = erasers /\ deletedAt' = turn[mine[c]].slot
    BY <1>8 DEF RecordDeletion, Holding, ghosts
  <2>2. mine[c] \in Token /\ Held(mine[c]) /\ ~turn[mine[c]].done
    BY <2>1, <1>h
  <2>3. \A d \in Caller : first[d] # NoSlot => first[d] <= turn[mine[c]].slot
    BY <2>2, WaitsForOpen
  <2>4. \E u \in Token : turn'[u].held /\ turn'[u].slot = turn[mine[c]].slot
    BY <2>2, <1>t
  <2>5. first \in [Caller -> Int] /\ turn[mine[c]].slot \in Int
    BY <2>2 DEF Inv, TypeOK, Turn
  <2> QED
    BY <2>1, <2>3, <2>4, <2>5, <1>t DEF Held
<1> QED
  BY <1>1, <1>2, <1>3, <1>4, <1>5, <1>6, <1>7, <1>8
  DEF Next, Goes, Look, Take, Hold, CollectTurns, SettleTurn, Settles, SettleOwn, Fault, Actor,
      vars, disk, wait, profile, ghosts

\* While a caller is in its section, the profile stays as it is, or is created.
LEMMA ConfigStays ==
  ASSUME ConstantsAssumption, Inv, [Next]_vars
  PROVE  \A c \in Caller : pc[c] = "section" /\ pc'[c] = "section" => config' = config \/ config' = TRUE
<1> DEFINE Goal == \A c \in Caller : pc[c] = "section" /\ pc'[c] = "section" =>
                       config' = config \/ config' = TRUE
<1>1. ASSUME UNCHANGED config PROVE Goal
  BY <1>1
<1>2. ASSUME NEW c \in Caller, Arrive(c) \/ CreateTurnDirectory(c) \/ LatestGone(c)
             \/ LatestFinished(c) \/ LatestBusy(c) \/ LatestAbandoned(c) \/ TimeOut(c)
             \/ Publish(c) \/ PublishLoses(c) \/ PredFinished(c) \/ PredChanged(c) \/ Grant(c)
             \/ VoidTurn(c) \/ Enter(c) \/ WriteStore(c) \/ RecordDeletion(c)
             \/ SectionFails(c) \/ Release(c) \/ Collect(c) \/ CandidateOpen(c)
             \/ CandidateVoid(c) \/ CandidateGranted(c) \/ CheckOlder(c) \/ NextFinished(c)
             \/ NextOpen(c) \/ Remove(c) \/ RemoveFails(c) \/ GiveUpTurn(c)
      PROVE  Goal
  BY <1>1, <1>2 DEF Arrive, disk, wait, profile, ghosts, CreateTurnDirectory, LatestGone,
     LatestFinished, LatestBusy, LatestAbandoned, TimeOut, Publish, PublishLoses, PredFinished,
     PredChanged, Grant, VoidTurn, Enter, WriteStore, RecordDeletion, SectionFails, Release,
     Collect, GoOn, CandidateOpen, CandidateVoid, CandidateGranted, CheckOlder, NextFinished,
     NextOpen, Remove, RemoveFails, GiveUpTurn
<1>3. ASSUME NEW c \in Caller, NEW t \in Token, ListTurns(c, t) PROVE Goal
  BY <1>1, <1>3 DEF ListTurns, disk, wait, profile, ghosts
<1>4. ASSUME NEW a \in Actor, ReadOwner(a) \/ ReadDone(a) \/ SettlePred(a) \/ SettleGrant(a)
             \/ SettleDone(a) \/ FileError(a)
      PROVE  Goal
  BY <1>1, <1>4 DEF ReadOwner, disk, wait, profile, ghosts, ReadDone, SettlePred, SettleGrant,
     SettleDone, FileError
<1>5. ASSUME NEW p \in Process, NEW t \in Token, Retry(p, t) PROVE Goal
  BY <1>1, <1>5 DEF Retry, disk, wait, profile, ghosts
<1>6. ASSUME NEW p \in Process, RetryRead(p) \/ Crash(p) PROVE Goal
  BY <1>1, <1>6 DEF RetryRead, disk, wait, profile, ghosts, Crash
<1>7. ASSUME NEW c \in Caller, CreateProfile(c) PROVE Goal
  BY <1>7 DEF CreateProfile, disk, wait, ghosts
<1>8. ASSUME NEW c \in Caller, DeleteConfig(c) PROVE Goal
  <2>1. Holding(c) /\ pc[c] = "section" /\ c \in Actor
    BY <1>8 DEF DeleteConfig, Holding, Actor
  <2>2. \A d \in Caller : pc[d] = "section" => d = c
    BY <2>1, HoldersAreOne DEF Holding
  <2>3. pc'[c] = "record"
    BY <1>8, <2>1 DEF DeleteConfig, Inv, TypeOK
  <2> QED
    BY <2>2, <2>3
<1> QED
  BY <1>1, <1>2, <1>3, <1>4, <1>5, <1>6, <1>7, <1>8
  DEF Next, Goes, Look, Take, Hold, CollectTurns, SettleTurn, Settles, SettleOwn, Fault, Actor,
      vars, disk, wait, profile, ghosts

\* A caller was overlapped by a deletion when it waited while one was recorded.
LEMMA OverlapChanges ==
  ASSUME ConstantsAssumption, Inv, [Next]_vars
  PROVE  \A c \in Caller : overlap'[c] = "recorded" =>
           \/ overlap[c] = "recorded"
           \/ Waiting(c) /\ first[c] # NoSlot /\ deletedAt >= first[c]
<1>t. erasers \subseteq Token /\ overlap \in [Caller -> {"no", "removed", "recorded"}]
      /\ (\A t \in erasers : Held(t)) /\ deletedAt \in Int
  BY DEF Inv, TypeOK, Deletion
<1>e. ASSUME NEW t, NEW c \in Caller, OverlapAtEnd(t)[c] = "recorded"
      PROVE  \/ overlap[c] = "recorded"
             \/ Waiting(c) /\ first[c] # NoSlot /\ deletedAt >= first[c]
  <2>1. CASE t \in erasers /\ turn[t].place = "here" /\ ~turn[t].done
    <3>1. first[c] # NoSlot => first[c] <= turn[t].slot
      BY <2>1, <1>t, WaitsForOpen
    <3>2. \/ overlap[c] = "recorded"
          \/ Waiting(c) /\ first[c] # NoSlot /\ deletedAt = turn[t].slot
      BY <1>e, <2>1, <1>t DEF OverlapAtEnd
    <3>3. first[c] \in Int
      BY DEF Inv, TypeOK
    <3> QED
      BY <3>1, <3>2, <3>3, <1>t
  <2>2. CASE ~(t \in erasers /\ turn[t].place = "here" /\ ~turn[t].done)
    BY <1>e, <2>2 DEF OverlapAtEnd
  <2> QED
    BY <2>1, <2>2
<1>d. \A t : OverlapAtEnd(t) \in [Caller -> {"no", "removed", "recorded"}]
  BY <1>t DEF OverlapAtEnd
<1> DEFINE Goal == \A c \in Caller : overlap'[c] = "recorded" =>
                     \/ overlap[c] = "recorded"
                     \/ Waiting(c) /\ first[c] # NoSlot /\ deletedAt >= first[c]
<1>1. ASSUME UNCHANGED overlap PROVE Goal
  BY <1>1
<1>2. ASSUME NEW c \in Caller, Arrive(c) \/ CreateTurnDirectory(c) \/ LatestGone(c)
             \/ LatestFinished(c) \/ LatestBusy(c) \/ LatestAbandoned(c) \/ Publish(c)
             \/ PublishLoses(c) \/ PredFinished(c) \/ PredChanged(c) \/ Grant(c) \/ VoidTurn(c)
             \/ Enter(c) \/ WriteStore(c) \/ CreateProfile(c) \/ DeleteConfig(c)
             \/ RecordDeletion(c) \/ SectionFails(c) \/ Collect(c) \/ CandidateOpen(c)
             \/ CandidateVoid(c) \/ CandidateGranted(c) \/ CheckOlder(c) \/ NextFinished(c)
             \/ NextOpen(c) \/ Remove(c) \/ RemoveFails(c)
      PROVE  Goal
  BY <1>1, <1>2 DEF Arrive, disk, wait, profile, ghosts, CreateTurnDirectory, LatestGone,
     LatestFinished, LatestBusy, LatestAbandoned, Publish, PublishLoses, PredFinished,
     PredChanged, Grant, VoidTurn, Enter, WriteStore, CreateProfile, DeleteConfig,
     RecordDeletion, SectionFails, Collect, GoOn, CandidateOpen, CandidateVoid,
     CandidateGranted, CheckOlder, NextFinished, NextOpen, Remove, RemoveFails
<1>3. ASSUME NEW c \in Caller, NEW t \in Token, ListTurns(c, t) PROVE Goal
  BY <1>1, <1>3 DEF ListTurns, disk, wait, profile, ghosts
<1>4. ASSUME NEW a \in Actor, ReadOwner(a) \/ ReadDone(a) \/ SettlePred(a) \/ SettleGrant(a)
      PROVE  Goal
  BY <1>1, <1>4 DEF ReadOwner, disk, wait, profile, ghosts, ReadDone, SettlePred, SettleGrant
<1>5. ASSUME NEW p \in Process, NEW t \in Token, Retry(p, t) PROVE Goal
  BY <1>1, <1>5 DEF Retry, disk, wait, profile, ghosts
<1>6. ASSUME NEW p \in Process, RetryRead(p) PROVE Goal
  BY <1>1, <1>6 DEF RetryRead, disk, wait, profile, ghosts
<1>7. ASSUME NEW c \in Caller, TimeOut(c) PROVE Goal
  BY <1>7, <1>t DEF TimeOut
<1>8. ASSUME NEW a \in Actor, SettleDone(a) PROVE Goal
  BY <1>8, <1>e DEF SettleDone
<1>9. ASSUME NEW c \in Caller, Release(c) PROVE Goal
  <2>1. overlap' = [OverlapAtEnd(mine[c]) EXCEPT ![c] = "no"]
    BY <1>9 DEF Release
  <2>2. \A d \in Caller : overlap'[d] = "recorded" => OverlapAtEnd(mine[c])[d] = "recorded"
    BY <2>1, <1>d
  <2> QED
    BY <2>2, <1>e
<1>10. ASSUME NEW c \in Caller, GiveUpTurn(c) PROVE Goal
  BY <1>10, <1>t DEF GiveUpTurn
<1>11. ASSUME NEW a \in Actor, FileError(a) PROVE Goal
  BY <1>11, <1>t DEF FileError
<1>12. ASSUME NEW p \in Process, Crash(p) PROVE Goal
  BY <1>12, <1>t DEF Crash
<1> QED
  BY <1>1, <1>2, <1>3, <1>4, <1>5, <1>6, <1>7, <1>8, <1>9, <1>10, <1>11, <1>12
  DEF Next, Goes, Look, Take, Hold, CollectTurns, SettleTurn, Settles, SettleOwn, Fault, Actor,
      vars, disk, wait, profile, ghosts


\* A caller overlapped by a deletion still waits, or knows of it when it enters, or is in a
\* profile created again.
LEMMA OverlapStep ==
  ASSUME ConstantsAssumption, Inv, [Next]_vars, NEW c \in Caller, overlap'[c] = "recorded"
  PROVE  /\ Waiting(c)' \/ Holding(c)'
         /\ Waiting(c)' \/ pc'[c] = "enter" => first'[c] # NoSlot /\ deletedAt' >= first'[c]
         /\ pc'[c] = "section" => config'
<1>t. /\ c \in Actor /\ DirType /\ Directory
      /\ pc \in [Actor -> {"idle", "list", "latest", "publish", "pred", "grant", "void",
                       "settlepred", "settlegrant", "settledone", "own",
                       "enter", "section", "record", "release",
                       "collect", "candidate", "older", "next", "remove", "dead"}]
      /\ first \in [Caller -> Int] /\ mine \in [Caller -> Token \cup {NoTurn}]
      /\ overlap \in [Caller -> {"no", "removed", "recorded"}]
  BY DEF Inv, TypeOK, Actor, DirType
<1>1. /\ Waiting(c) \/ Holding(c)
      /\ Waiting(c) \/ pc[c] = "enter" => first[c] # NoSlot /\ deletedAt >= first[c]
      /\ pc[c] = "section" => config
  <2>1. CASE overlap[c] = "recorded"
    BY <2>1 DEF Inv, Deletion
  <2>2. CASE Waiting(c) /\ first[c] # NoSlot /\ deletedAt >= first[c]
    BY <2>2 DEF Waiting
  <2> QED
    BY <2>1, <2>2, OverlapChanges
<1>2. first[c] # NoSlot /\ deletedAt >= first[c] => deletedAt' >= first[c]
  BY RecordStep
<1>3. CASE CallerRests(c)
  <2>1. pc'[c] = pc[c] /\ first'[c] = first[c]
    BY <1>3 DEF CallerRests, Rests
  <2>2. pc'[c] = "section" => config'
    BY <1>1, <2>1, ConfigStays
  <2> QED
    BY <1>1, <1>2, <2>1, <2>2 DEF Waiting, Holding
<1>4. ASSUME Waiting(c), Waiting(c)' \/ pc'[c] = "enter", first'[c] = first[c]
      PROVE  /\ Waiting(c)' \/ Holding(c)'
             /\ Waiting(c)' \/ pc'[c] = "enter" => first'[c] # NoSlot /\ deletedAt' >= first'[c]
             /\ pc'[c] = "section" => config'
  BY <1>1, <1>2, <1>4 DEF Waiting, Holding
<1>5. CASE \/ CreateTurnDirectory(c) \/ (\E t \in Token : ListTurns(c, t)) \/ LatestGone(c)
           \/ Publish(c) \/ PublishLoses(c) \/ PredFinished(c) \/ PredChanged(c)
           \/ Grant(c) \/ VoidTurn(c)
           \/ SettlePred(c) \/ SettleGrant(c) \/ SettleDone(c)
  <2>1. Waiting(c)
    BY <1>5 DEF CreateTurnDirectory, ListTurns, LatestGone, Publish, PublishLoses,
       PredFinished, 
       PredChanged, Grant, VoidTurn, SettlePred, SettleGrant, SettleDone, Waiting
  <2>2. first' = first
    BY <1>5 DEF CreateTurnDirectory, ListTurns, LatestGone, Publish, PublishLoses,
       PredFinished, 
       PredChanged, Grant, VoidTurn, SettlePred, SettleGrant, SettleDone, wait
  <2>3. pc'[c] \in {"list", "latest", "pred", "grant", "void", "enter", "settlegrant", "settledone"}
    BY <1>5, <1>t DEF CreateTurnDirectory, ListTurns, LatestGone, Publish, PublishLoses,
       PredFinished, PredChanged, Grant, VoidTurn, SettlePred, SettleGrant, SettleDone
  <2> QED
    BY <1>4, <2>1, <2>2, <2>3 DEF Waiting
<1>6. CASE LatestFinished(c) \/ LatestBusy(c) \/ LatestAbandoned(c)
  <2>1. Waiting(c)
    BY <1>6 DEF LatestFinished, LatestBusy, LatestAbandoned, Waiting
  <2>2. first'[c] = FirstWaited(c)
    BY <1>6, <1>t DEF LatestFinished, LatestBusy, LatestAbandoned
  <2>3. first'[c] = first[c]
    BY <1>1, <2>1, <2>2 DEF FirstWaited
  <2>4. pc'[c] \in {"publish", "list", "settlepred", "settledone"}
    BY <1>6, <1>t DEF LatestFinished, LatestBusy, LatestAbandoned, Settle
  <2> QED
    BY <1>4, <2>1, <2>3, <2>4 DEF Waiting
<1>7. CASE ReadOwner(c) \/ ReadDone(c)
  <2>1. pc' = pc /\ first' = first
    BY <1>7, <1>t, ReadSteps
  <2>2. pc'[c] = "section" => config'
    BY <1>1, <2>1, ConfigStays
  <2> QED
    BY <1>1, <1>2, <2>1, <2>2 DEF Waiting, Holding
<1>8. CASE Enter(c)
  <2>1. /\ pc[c] = "enter" /\ config' = config
        /\ pc'[c] \in {"release", "section"} /\ (pc'[c] = "section" => ~Refused(c))
    BY <1>8, <1>t DEF Enter, profile
  <2>2. pc'[c] = "section" => config
    BY <1>1, <2>1 DEF Refused
  <2> QED
    BY <2>1, <2>2 DEF Waiting, Holding
<1>9. CASE \/ WriteStore(c) \/ CreateProfile(c) \/ DeleteConfig(c) \/ RecordDeletion(c)
           \/ SectionFails(c)
  <2>1. pc'[c] \in {"release", "record"}
    BY <1>9, <1>t DEF WriteStore, CreateProfile, DeleteConfig, RecordDeletion, SectionFails
  <2> QED
    BY <2>1 DEF Waiting, Holding
<1>10. CASE \/ Arrive(c) \/ Collect(c) \/ CandidateOpen(c) \/ CandidateVoid(c)
            \/ CandidateGranted(c) \/ CheckOlder(c) \/ NextFinished(c) \/ NextOpen(c)
            \/ Remove(c) \/ RemoveFails(c)
  <2>1. pc[c] \in {"idle", "collect", "candidate", "older", "next", "remove"}
    BY <1>10 DEF Arrive, Collect, CandidateOpen, CandidateVoid, CandidateGranted, CheckOlder,
       NextFinished, NextOpen, Remove, RemoveFails
  <2> QED
    BY <1>1, <2>1 DEF Waiting, Holding
<1>11. CASE TimeOut(c) \/ GiveUpTurn(c)
  <2>1. overlap'[c] = "no"
    BY <1>11, <1>t DEF TimeOut, GiveUpTurn
  <2> QED
    BY <2>1
<1>12. CASE Release(c)
  <2>1. overlap' = [OverlapAtEnd(mine[c]) EXCEPT ![c] = "no"]
    BY <1>12 DEF Release
  <2>2. OverlapAtEnd(mine[c]) \in [Caller -> {"no", "removed", "recorded"}]
    BY <1>t DEF OverlapAtEnd
  <2>3. overlap'[c] = "no"
    BY <2>1, <2>2
  <2> QED
    BY <2>3
<1>13. CASE FileError(c)
  BY <1>13 DEF FileError
<1>14. CASE \E p \in {In[c]} : Crash(p)
  BY <1>14 DEF Crash
<1> QED
  BY <1>3, <1>5, <1>6, <1>7, <1>8, <1>9, <1>10, <1>11, <1>12, <1>13, <1>14, OthersRest
     DEF CallerStep, Goes, Look, Take, Hold, CollectTurns, SettleTurn

\* What is known of a deletion is kept.
LEMMA DeletionStep ==
  ASSUME ConstantsAssumption, Inv, [Next]_vars
  PROVE  Deletion'
<1>1. /\ erasers' \subseteq {t \in Token : Held(t)'}
      /\ deletedAt' # NoSlot => \E u \in Token : Held(u)' /\ turn'[u].slot = deletedAt'
  BY RecordStep
<1>2. \A c \in Caller : overlap'[c] = "recorded" =>
        /\ Waiting(c)' \/ Holding(c)'
        /\ Waiting(c)' \/ pc'[c] = "enter" => first'[c] # NoSlot /\ deletedAt' >= first'[c]
        /\ pc'[c] = "section" => config'
  BY OverlapStep
<1> QED
  BY <1>1, <1>2 DEF Deletion, Waiting, Holding


-----------------------------------------------------------------------------
\* Every step keeps the invariant.
LEMMA Inductive ==
  ASSUME ConstantsAssumption, Inv, [Next]_vars
  PROVE  Inv'
<1>1. Directory'
  BY DirectorySteps, DirectoryKept DEF Inv, TypeOK, DirType
<1> QED
  BY <1>1, TypeStep, OwnershipStep, ReadsStep, ProtocolStep, DeletionStep DEF Inv

\* It holds of a profile without a turn directory.
LEMMA InvInit ==
  ASSUME ConstantsAssumption, Init
  PROVE  Inv
<1> USE DEF Init, ConstantsAssumption
<1>1. TypeOK
  BY DEF TypeOK, Turn, Seen, Unpublished, NotReading, NoTurn, NoSlot, Actor
<1>2. Directory
  BY DEF Directory, TokensInOrder, OnePerSlot, FollowsFinished, HeldInOrder, RemovedInOrder,
     UnheldHasRival, LastIsHere, Unpublished, Published, Held, Gone, Here1, Token
<1>3. Ownership
  BY DEF Ownership, Home, Actor, HasTurn, Settling
<1>4. Reads
  BY DEF Reads, NotReading, Actor
<1>5. Protocol
  BY DEF Protocol, OwnTurn, Collection, Wait, Settlement, Holding, Actor
<1>6. Deletion
  BY DEF Deletion
<1> QED
  BY <1>1, <1>2, <1>3, <1>4, <1>5, <1>6 DEF Inv

\* It holds always.
LEMMA AlwaysInv == Spec => []Inv
<1>1. Init => Inv
  BY ConstantsAssumption, InvInit
<1>2. Inv /\ [Next]_vars => Inv'
  BY ConstantsAssumption, Inductive
<1> QED
  BY <1>1, <1>2, PTL DEF Spec

\* The turn directory, the steps of the protocol and the reads keep their types.
THEOREM TypeCorrect == Spec => []TypeOK
<1>1. Inv => TypeOK
  BY DEF Inv
<1> QED
  BY <1>1, AlwaysInv, PTL

\* At most one caller, in whatever process, is inside withProfileLock's callback, whatever the
\* order in which the file operations take effect, the crashes and the errors.
THEOREM ExclusionHolds == Spec => []MutualExclusion
<1>1. Inv => MutualExclusion
  BY ConstantsAssumption, HoldersAreOne DEF MutualExclusion
<1> QED
  BY <1>1, AlwaysInv, PTL

\* At most one granted turn lacks its done marker: what a waiter polls for is one turn.
THEOREM OneTurnOpen == Spec => []OneOpenTurn
<1>1. Inv => OneOpenTurn
  BY OneOpen DEF OneOpenTurn, Inv, TypeOK, DirType, Held
<1> QED
  BY <1>1, AlwaysInv, PTL

\* While a caller holds the lock its turn directory is in place, granted and not done: no
\* waiter, no collection and no retried settlement takes it for abandoned and finishes or
\* removes it.
THEOREM HolderKeeps == Spec => []HolderKeepsTurn
<1>1. Inv => HolderKeepsTurn
  BY DEF HolderKeepsTurn, Inv, Protocol, OwnTurn, Held, Here1
<1> QED
  BY <1>1, AlwaysInv, PTL

\* A listed turn that is done without having been granted has a later one listed: the latest
\* turn, which the next caller must follow, is never a void one.
THEOREM LatestUsable == Spec => []LatestTurnUsable
<1>1. ASSUME Inv PROVE LatestTurnUsable
  <2> SUFFICES ASSUME NEW t \in Listed, turn[t].done, ~turn[t].held
               PROVE  \E u \in Listed : turn[u].slot > turn[t].slot
    BY DEF LatestTurnUsable
  <2>1. DirType /\ Directory /\ t \in Token /\ Here1(t) /\ ~Held(t)
    BY <1>1 DEF Inv, TypeOK, DirType, Listed, Here1, Held
  <2>2. PICK u \in Token : Held(u) /\ turn[u].slot = turn[t].slot
    BY <2>1 DEF Directory, UnheldHasRival, DoneAt
  <2>3. ~Here1(u)
    BY <2>1, <2>2 DEF Directory, OnePerSlot
  <2>4. issued > 0
    BY <2>1, Basics DEF Published, Token, DirType
  <2>5. PICK w \in Token : Held(w) /\ Here1(w) /\
                           \A v \in Token : Held(v) => turn[v].slot <= turn[w].slot
    BY <2>1, <2>4 DEF Directory, LastIsHere
  <2>6. turn[w].slot # turn[u].slot
    BY <2>1, <2>2, <2>3, <2>5, HeldUnique
  <2>7. turn[w].slot > turn[t].slot
    BY <2>1, <2>2, <2>5, <2>6, Basics
  <2> QED
    BY <2>5, <2>7 DEF Listed, Here1
<1> QED
  BY <1>1, AlwaysInv, PTL

\* A caller in whose wait a deletion of the profile was recorded is in its section only with a
\* profile that was created again.
THEOREM DeletionIsFinal == Spec => []DeletedProfileStaysDeleted
<1>1. Inv => DeletedProfileStaysDeleted
  BY DEF DeletedProfileStaysDeleted, Inv, Deletion
<1> QED
  BY <1>1, AlwaysInv, PTL
=============================================================================
