-------------------------- MODULE Conference_proofs -------------------------
(***************************************************************************)
(* Safety of the conference controller, for every number of users and of   *)
(* commands and every set of flows.                                        *)
(*                                                                         *)
(* An event completes the operation in front of the queue, and             *)
(* DoNextOperation then works off any number of operations in one step, so *)
(* the argument is about worlds x = [c, conf, call] within a step as much  *)
(* as about states.  The proof first shows that the recursion ends (Least, *)
(* InductionOnRank, TailRecursion, DoNextOperationUnfolds), and then goes  *)
(* operation by operation.                                                 *)
(*                                                                         *)
(* The inductive invariant has two parts beside the types.  Fitting: the   *)
(* queue is well made and in turn, and agrees with the rest: while a       *)
(* command is open its result is still to come in the queue, a call with a *)
(* member is terminated right after this member's REFER, what closes the   *)
(* controller is there only after the conference has ended, a REFER that   *)
(* waits in the queue has not been made before, and an operation that      *)
(* needs the subscription finds it alive, or the subscription was lost.    *)
(* Waits: whatever completes the operation in front is there, or was lost  *)
(* in one of the ways that Lost names.  Neither holds without the other:   *)
(* what stands behind an operation is known to fit when that operation is  *)
(* completed.                                                              *)
(***************************************************************************)
EXTENDS Conference, SequenceTheorems, WellFoundedInduction, TLAPS

\* Every set of numbers that is not empty has a least one.
LEMMA Least ==
    ASSUME NEW T \in SUBSET Nat, T # {}
    PROVE  \E n \in T : \A m \in T : n <= m
<1>1. PICK x \in T : \A y \in T : ~ (<<y, x>> \in OpToRel(<, Nat))
  BY WFMin, NatLessThanWellFounded
<1>2. \A y \in T : <<y, x>> \in Nat \X Nat
  OBVIOUS
<1>3. \A y \in T : ~(y < x)
  BY <1>1, <1>2 DEF OpToRel
<1>. QED  BY <1>3

\* Strong induction, for a set: the rule for operators cannot be instantiated.
LEMMA InductionOnRank ==
    ASSUME NEW T \in SUBSET Nat, \A n \in Nat : (\A m \in Nat : m < n => m \in T) => n \in T
    PROVE  T = Nat
<1>1. CASE Nat \ T # {}
  <2>1. PICK n \in Nat \ T : \A m \in Nat \ T : n <= m
    BY <1>1, Least
  <2>2. \A m \in Nat : m < n => m \in T
    BY <2>1
  <2>. QED  BY <2>1, <2>2
<1>. QED  BY <1>1

(***************************************************************************)
(* A function that calls itself once, last, on an argument of smaller rank:  *)
(* x \in E goes on with h[x], any other x ends with b[x].                    *)
(***************************************************************************)
EndsByRank(S, E, h, V, b, rank) ==
    /\ E \subseteq S /\ h \in [S -> S] /\ b \in [S -> V] /\ rank \in [S -> Nat]
    /\ \A x \in E : rank[h[x]] < rank[x]

\* Such a function exists: it is defined rank by rank.
LEMMA TailRecursion ==
    ASSUME NEW S, NEW E, NEW h, NEW V, NEW b, NEW rank, EndsByRank(S, E, h, V, b, rank)
    PROVE  \E f \in [S -> V] : \A x \in S : f[x] = IF x \in E THEN f[h[x]] ELSE b[x]
<1>. USE DEF EndsByRank
<1>. DEFINE Upto(n, g) ==
              \A x \in S : rank[x] <= n => g[x] = IF x \in E THEN g[h[x]] ELSE b[x]
            K == {n \in Nat : \E g \in [S -> V] : Upto(n, g)}
<1>1. ASSUME NEW n \in Nat, \A m \in Nat : m < n => m \in K
      PROVE  n \in K
  <2>1. PICK g \in [S -> V] : \A m \in Nat : m < n => Upto(m, g)
    <3>1. CASE n = 0
      BY <3>1
    <3>2. CASE n # 0
      <4>0. n - 1 \in Nat /\ n - 1 < n
        BY <3>2
      <4>1. PICK g \in [S -> V] : Upto(n - 1, g)
        <5>. HIDE DEF Upto
        <5>. QED  BY <1>1, <4>0
      <4>2. \A m \in Nat : m < n => Upto(m, g)
        BY <4>1
      <4>. QED  BY <4>2
    <3>. QED  BY <3>1, <3>2
  <2>2. \A x \in S : rank[x] < n => g[x] = IF x \in E THEN g[h[x]] ELSE b[x]
    BY <2>1
  <2>. DEFINE f == [x \in S |-> IF rank[x] < n THEN g[x]
                               ELSE IF x \in E THEN g[h[x]] ELSE b[x]]
  <2>3. f \in [S -> V]
    OBVIOUS
  <2>4. ASSUME NEW x \in S, rank[x] <= n
        PROVE  f[x] = IF x \in E THEN f[h[x]] ELSE b[x]
    <3>1. x \in E => h[x] \in S /\ rank[h[x]] < n /\ f[h[x]] = g[h[x]]
      BY <2>4
    <3>2. f[x] = IF rank[x] < n THEN g[x] ELSE IF x \in E THEN g[h[x]] ELSE b[x]
      OBVIOUS
    <3>. HIDE DEF f
    <3>. QED  BY <2>2, <2>4, <3>1, <3>2
  <2>. HIDE DEF f
  <2>5. Upto(n, f)
    BY <2>4
  <2>. QED  BY <2>3, <2>5
<1>2. K = Nat
  <2>. HIDE DEF K
  <2>1. K \subseteq Nat
    BY DEF K
  <2>. QED  BY <1>1, <2>1, InductionOnRank
<1>. DEFINE G(n) == CHOOSE g \in [S -> V] : Upto(n, g)
            f == [x \in S |-> G(rank[x])[x]]
<1>3. \A n \in Nat : G(n) \in [S -> V] /\ Upto(n, G(n))
  BY <1>2
<1>. HIDE DEF G
<1>4. ASSUME NEW g1 \in [S -> V], NEW g2 \in [S -> V], NEW n \in Nat, Upto(n, g1), Upto(n, g2)
      PROVE  \A x \in S : rank[x] <= n => g1[x] = g2[x]
  <2>. DEFINE A == {k \in Nat : \A x \in S : rank[x] = k /\ k <= n => g1[x] = g2[x]}
  <2>1. ASSUME NEW k \in Nat, \A m \in Nat : m < k => m \in A
        PROVE  k \in A
    <3>. SUFFICES ASSUME NEW x \in S, rank[x] = k, k <= n PROVE g1[x] = g2[x]
      OBVIOUS
    <3>1. CASE x \notin E
      BY <1>4, <3>1
    <3>2. CASE x \in E
      <4>1. h[x] \in S /\ rank[h[x]] < k /\ rank[h[x]] \in Nat
        BY <3>2
      <4>2. g1[h[x]] = g2[h[x]]
        BY <2>1, <4>1
      <4>. QED  BY <1>4, <3>2, <4>2
    <3>. QED  BY <3>1, <3>2
  <2>2. A = Nat
    <3>. HIDE DEF A
    <3>1. A \subseteq Nat
      BY DEF A
    <3>. QED  BY <2>1, <3>1, InductionOnRank
  <2>. QED  BY <2>2
<1>5. f \in [S -> V]
  BY <1>3
<1>6. ASSUME NEW x \in S
      PROVE  f[x] = IF x \in E THEN f[h[x]] ELSE b[x]
  <2>1. f[x] = G(rank[x])[x]
    OBVIOUS
  <2>2. f[x] = IF x \in E THEN G(rank[x])[h[x]] ELSE b[x]
    BY <1>3, <2>1
  <2>3. CASE x \in E
    <3>1. h[x] \in S /\ rank[h[x]] < rank[x] /\ rank[h[x]] \in Nat /\ rank[x] \in Nat
      BY <2>3
    <3>2. Upto(rank[h[x]], G(rank[x]))
      BY <1>3, <3>1
    <3>3. G(rank[h[x]])[h[x]] = G(rank[x])[h[x]]
      <4>. DEFINE k == rank[h[x]]
                  g1 == G(k)
                  g2 == G(rank[x])
      <4>1. g1 \in [S -> V] /\ g2 \in [S -> V] /\ Upto(k, g1) /\ Upto(k, g2)
        BY <1>3, <3>1, <3>2
      <4>2. k \in Nat /\ rank[h[x]] <= k
        BY <3>1
      <4>. HIDE DEF k, g1, g2, Upto
      <4>3. g1[h[x]] = g2[h[x]]
        BY <1>4, <3>1, <4>1, <4>2
      <4>. QED  BY <4>3 DEF g1, g2, k
    <3>4. f[h[x]] = G(rank[h[x]])[h[x]]
      BY <3>1
    <3>. QED  BY <2>2, <2>3, <3>3, <3>4
  <2>. QED  BY <2>2, <2>3
<1>. HIDE DEF f
<1>. QED  BY <1>5, <1>6

-----------------------------------------------------------------------------
(***************************************************************************)
(* What the operations do to the controller.  Of the fields that a step may   *)
(* leave alone, four groups matter: the queue, what the UI was told, the       *)
(* participants with their references, and the rest.                        *)
(***************************************************************************)
USE BoundAssumption, FlowsAssumption

Operation == [type : Immediate \cup Lasting, user : Users \cup {NoUser}, delayed : BOOLEAN]
Participant == [in : BOOLEAN, status : {"connecting", "connected", "disconnected"},
                updated : BOOLEAN, ref : References \cup {"none"}]
Lives == [References -> {"none", "unsent", "sent", "accepted", "gone", "silent"}]

SameQueue(c, d) == d.queue = c.queue /\ (d.delay <=> c.delay)
SameTalk(c, d) ==
    d.state = c.state /\ (d.open <=> c.open) /\ (d.twice <=> c.twice) /\ (d.stale <=> c.stale)
SameUsers(c, d) == d.part = c.part /\ d.refs = c.refs
SameEngine(c, d) == d.sub = c.sub /\ d.eng = c.eng /\ (d.lost <=> c.lost)
SameSub(c, d) ==
    d.sub = c.sub /\ d.eng = c.eng /\ (d.lost <=> c.lost) /\ (d.closed <=> c.closed)

SubStates == {"none", "SUBSCRIBING", "ACTIVE", "UNSUBSCRIBING", "IDLE"}
EngineStates == PendingRequests \cup {"none", "INACTIVE", "ACTIVE"}

\* A controller with its types in a form the provers can use.
LEMMA ControllerFields ==
    ASSUME NEW c \in ControllerType
    PROVE  /\ c.state \in States /\ c.queue \in Seq(Operation) /\ c.delay \in BOOLEAN
           /\ c.wait \in BOOLEAN /\ c.notified \in BOOLEAN
           /\ c.part \in [Users -> Participant] /\ c.refs \in [Users -> Lives]
           /\ c.sub \in SubStates /\ c.eng \in EngineStates
           /\ c.closed \in BOOLEAN /\ c.open \in BOOLEAN /\ c.twice \in BOOLEAN
           /\ c.stale \in BOOLEAN /\ c.lost \in BOOLEAN
BY DEF ControllerType, Operation, Participant, Lives, SubStates, EngineStates

\* A result for the UI closes the command, or is told twice.
LEMMA ToldFacts ==
    ASSUME NEW c \in ControllerType
    PROVE  /\ Told(c) \in ControllerType
           /\ SameQueue(c, Told(c)) /\ SameUsers(c, Told(c)) /\ SameSub(c, Told(c))
           /\ Told(c).state = c.state /\ ~Told(c).open /\ (Told(c).stale <=> c.stale)
           /\ Told(c).twice <=> (c.twice \/ ~c.open)
BY DEF Told, ControllerType, SameQueue, SameUsers, SameSub

\* Clear empties the queue and stops its timer.
LEMMA ClearedFacts ==
    ASSUME NEW c \in ControllerType
    PROVE  /\ Cleared(c) \in ControllerType
           /\ SameTalk(c, Cleared(c)) /\ SameUsers(c, Cleared(c)) /\ SameSub(c, Cleared(c))
           /\ Cleared(c).queue = << >> /\ ~Cleared(c).delay
<1>1. << >> \in Seq(Operation)
  BY EmptySeq
<1>. QED  BY <1>1 DEF Cleared, ControllerType, SameTalk, SameUsers, SameSub, Operation

\* The front leaves the queue, and its timer is stopped.
LEMMA PoppedFacts ==
    ASSUME NEW c \in ControllerType, c.queue # << >>
    PROVE  /\ Popped(c) \in ControllerType
           /\ SameTalk(c, Popped(c)) /\ SameUsers(c, Popped(c)) /\ SameSub(c, Popped(c))
           /\ Popped(c).queue = Tail(c.queue) /\ ~Popped(c).delay
<1>1. Tail(c.queue) \in Seq(Operation)
  BY ControllerFields, HeadTailProperties
<1>. QED  BY <1>1 DEF Popped, ControllerType, SameTalk, SameUsers, SameSub, Operation

\* Operations come last, and nothing else changes.
LEMMA AppendedFacts ==
    ASSUME NEW c \in ControllerType, NEW ops \in Seq(Operation)
    PROVE  /\ Appended(c, ops) \in ControllerType
           /\ SameTalk(c, Appended(c, ops)) /\ SameUsers(c, Appended(c, ops))
           /\ SameSub(c, Appended(c, ops))
           /\ Appended(c, ops).queue = c.queue \o ops /\ (Appended(c, ops).delay <=> c.delay)
<1>1. c.queue \o ops \in Seq(Operation)
  BY ControllerFields, ConcatProperties
<1>. QED  BY <1>1 DEF Appended, ControllerType, SameTalk, SameUsers, SameSub, Operation

\* The operations of the final sipfrag timer touch nothing but that timer.
SameAll(c, d) ==
    /\ d \in ControllerType
    /\ SameQueue(c, d) /\ SameTalk(c, d) /\ SameUsers(c, d) /\ SameSub(c, d)

\* The wait for the final sipfrag concerns neither queue nor users.
LEMMA TimerFacts ==
    ASSUME NEW c \in ControllerType
    PROVE  /\ SameAll(c, StopFinalSipfragWaitTimer(c)) /\ SameAll(c, OneToOneTerminated(c))
           /\ \A condition : SameAll(c, CheckNStart(c, condition))
           /\ SameAll(c, [c EXCEPT !.wait = FALSE])
           /\ SameAll(c, [c EXCEPT !.notified = TRUE])
<1>. USE DEF SameAll, SameQueue, SameTalk, SameUsers, SameSub
<1>1. SameAll(c, [c EXCEPT !.wait = FALSE]) /\ SameAll(c, [c EXCEPT !.wait = TRUE])
  <2>1. ASSUME NEW b \in BOOLEAN
        PROVE  SameAll(c, [c EXCEPT !.wait = b])
    <3>. DEFINE d == [c EXCEPT !.wait = b]
    <3>1. d \in ControllerType
      BY DEF ControllerType, PendingRequests
    <3>2. /\ d.queue = c.queue /\ d.delay = c.delay /\ d.state = c.state /\ d.open = c.open
          /\ d.twice = c.twice /\ d.stale = c.stale
      BY DEF ControllerType
    <3>3. /\ d.part = c.part /\ d.refs = c.refs
          /\ d.sub = c.sub /\ d.eng = c.eng /\ d.lost = c.lost /\ d.closed = c.closed
      BY DEF ControllerType
    <3>. HIDE DEF d
    <3>. QED  BY <3>1, <3>2, <3>3 DEF d
  <2>. QED  BY <2>1
<1>1a. SameAll(c, [c EXCEPT !.notified = TRUE])
  <2>. DEFINE d == [c EXCEPT !.notified = TRUE]
  <2>1. d \in ControllerType
    BY DEF ControllerType, PendingRequests
  <2>2. /\ d.queue = c.queue /\ d.delay = c.delay /\ d.state = c.state /\ d.open = c.open
        /\ d.twice = c.twice /\ d.stale = c.stale
    BY DEF ControllerType
  <2>3. /\ d.part = c.part /\ d.refs = c.refs
        /\ d.sub = c.sub /\ d.eng = c.eng /\ d.lost = c.lost /\ d.closed = c.closed
    BY DEF ControllerType
  <2>. HIDE DEF d
  <2>. QED  BY <2>1, <2>2, <2>3 DEF d
<1>2. SameAll(c, StopFinalSipfragWaitTimer(c))
  BY <1>1 DEF StopFinalSipfragWaitTimer
<1>3. ASSUME NEW condition
      PROVE  SameAll(c, CheckNStart(c, condition))
  BY <1>1 DEF CheckNStart
<1>. QED  BY <1>1, <1>1a, <1>2, <1>3 DEF OneToOneTerminated

(***************************************************************************)
(* Participants.  A link is live when its reference has been made and not     *)
(* deleted; nobody joins, and no status changes, but by the events themselves.  *)
(***************************************************************************)
LinksLive(c) ==
    \A u \in Users, r \in References : Linked(c, u, r) => c.refs[u][r] \notin {"none", "gone"}
RefsKept(c, d) ==
    \A u \in Users, r \in References : c.refs[u][r] # "none" => d.refs[u][r] # "none"
NobodyJoins(c, d) ==
    \A u \in Users : d.part[u].in => c.part[u].in /\ d.part[u].status = c.part[u].status

\* A user who is not listed, and one who has just been.
LEMMA AbsentType ==
    /\ Absent \in Participant /\ ~Absent.in /\ Absent.ref = "none"
    /\ [Absent EXCEPT !.in = TRUE] \in Participant
    /\ [Absent EXCEPT !.in = TRUE].ref = "none"
BY DEF Absent, Participant

\* Who is removed has no link; nobody else changes.
LEMMA RemovedFacts ==
    ASSUME NEW c \in ControllerType, NEW us
    PROVE  /\ Removed(c, us) \in ControllerType
           /\ SameQueue(c, Removed(c, us)) /\ SameTalk(c, Removed(c, us))
           /\ SameSub(c, Removed(c, us)) /\ Removed(c, us).refs = c.refs
           /\ NobodyJoins(c, Removed(c, us))
           /\ LinksLive(c) => LinksLive(Removed(c, us))
<1>. DEFINE p == [u \in Users |-> IF u \in us THEN Absent ELSE c.part[u]]
<1>1. p \in [Users -> Participant]
  BY AbsentType, ControllerFields
<1>2. Removed(c, us) = [c EXCEPT !.part = p]
  BY DEF Removed
<1>3. \A u \in Users : p[u].in => p[u] = c.part[u]
  BY AbsentType
<1>. HIDE DEF p
<1>4. /\ Removed(c, us) \in ControllerType /\ Removed(c, us).part = p
      /\ Removed(c, us).refs = c.refs
  BY <1>1, <1>2 DEF ControllerType, Participant
<1>5. /\ SameQueue(c, Removed(c, us)) /\ SameTalk(c, Removed(c, us))
      /\ SameSub(c, Removed(c, us))
  BY <1>1, <1>2 DEF ControllerType, SameQueue, SameTalk, SameSub
<1>. QED  BY <1>3, <1>4, <1>5 DEF NobodyJoins, LinksLive, Linked

\* Who joins is listed without a link.
LEMMA JoinedFacts ==
    ASSUME NEW c \in ControllerType, NEW us
    PROVE  /\ Joined(c, us) \in ControllerType
           /\ SameQueue(c, Joined(c, us)) /\ SameTalk(c, Joined(c, us))
           /\ SameSub(c, Joined(c, us)) /\ Joined(c, us).refs = c.refs
           /\ LinksLive(c) => LinksLive(Joined(c, us))
<1>. DEFINE p == [u \in Users |-> IF u \in us THEN [Absent EXCEPT !.in = TRUE] ELSE c.part[u]]
<1>1. p \in [Users -> Participant]
  BY AbsentType, ControllerFields
<1>2. Joined(c, us) = [c EXCEPT !.part = p]
  BY DEF Joined
<1>3. \A u \in Users : p[u].ref # "none" => p[u] = c.part[u]
  BY AbsentType
<1>. HIDE DEF p
<1>4. /\ Joined(c, us) \in ControllerType /\ Joined(c, us).part = p
      /\ Joined(c, us).refs = c.refs
  BY <1>1, <1>2 DEF ControllerType, Participant
<1>5. /\ SameQueue(c, Joined(c, us)) /\ SameTalk(c, Joined(c, us))
      /\ SameSub(c, Joined(c, us))
  BY <1>1, <1>2 DEF ControllerType, SameQueue, SameTalk, SameSub
<1>. QED  BY <1>3, <1>4, <1>5 DEF LinksLive, Linked, References

\* One participant, or one reference, changes.
PartSet(c, u, p) == [c EXCEPT !.part[u] = p]
RefSet(c, u, r, v) == [c EXCEPT !.refs[u][r] = v]
RefMade == {"unsent", "sent", "accepted", "gone", "silent"}

\* Another participant leaves the references and the queue as they are.
LEMMA PartFieldFacts ==
    ASSUME NEW c \in ControllerType, NEW u \in Users, NEW p \in Participant
    PROVE  LET d == PartSet(c, u, p)
           IN  /\ d \in ControllerType
               /\ SameQueue(c, d) /\ SameTalk(c, d) /\ SameSub(c, d) /\ d.refs = c.refs
               /\ d.part = [c.part EXCEPT ![u] = p]
<1>. DEFINE q == [c.part EXCEPT ![u] = p]
            d == PartSet(c, u, p)
<1>1. q \in [Users -> Participant] /\ d = [c EXCEPT !.part = q]
  BY ControllerFields DEF PartSet
<1>. HIDE DEF q, d
<1>2. d \in ControllerType /\ d.refs = c.refs /\ d.part = q
  BY <1>1 DEF ControllerType, Participant
<1>3. SameQueue(c, d) /\ SameTalk(c, d) /\ SameSub(c, d)
  BY <1>1 DEF ControllerType, SameQueue, SameTalk, SameSub
<1>. QED  BY <1>2, <1>3 DEF d, q

\* Another reference leaves the participants and the queue as they are.
LEMMA RefFieldFacts ==
    ASSUME NEW c \in ControllerType, NEW u \in Users, NEW r \in References,
           NEW v \in RefMade
    PROVE  LET d == RefSet(c, u, r, v)
           IN  /\ d \in ControllerType
               /\ SameQueue(c, d) /\ SameTalk(c, d) /\ SameSub(c, d) /\ d.part = c.part
               /\ d.refs[u][r] = v
               /\ \A w \in Users, s \in References : <<w, s>> # <<u, r>> =>
                     d.refs[w][s] = c.refs[w][s]
               /\ RefsKept(c, d)
<1>. DEFINE q == [c.refs EXCEPT ![u][r] = v]
            d == RefSet(c, u, r, v)
<1>1. c.refs \in [Users -> Lives]
  BY ControllerFields
<1>2. q \in [Users -> Lives] /\ d = [c EXCEPT !.refs = q]
  BY <1>1 DEF Lives, RefSet, RefMade
<1>3. /\ q[u][r] = v
      /\ \A w \in Users, s \in References : <<w, s>> # <<u, r>> => q[w][s] = c.refs[w][s]
  BY <1>1 DEF Lives
<1>. HIDE DEF q, d
<1>4. d \in ControllerType /\ d.part = c.part /\ d.refs = q
  BY <1>2 DEF ControllerType, Lives
<1>5. SameQueue(c, d) /\ SameTalk(c, d) /\ SameSub(c, d)
  BY <1>2 DEF ControllerType, SameQueue, SameTalk, SameSub
<1>6. RefsKept(c, d)
  BY <1>3, <1>4 DEF RefsKept, RefMade
<1>. QED  BY <1>3, <1>4, <1>5, <1>6 DEF d

\* A new status keeps the links.
LEMMA StatusFacts ==
    ASSUME NEW c \in ControllerType, NEW u \in Users \cup {NoUser},
           NEW st \in {"connecting", "connected", "disconnected"}
    PROVE  LET d == Status(c, u, st)
           IN  /\ d \in ControllerType
               /\ SameQueue(c, d) /\ SameTalk(c, d) /\ SameSub(c, d) /\ d.refs = c.refs
               /\ u # NoUser => d.part[u].status = st
               /\ LinksLive(c) => LinksLive(d)
<1>. DEFINE d == Status(c, u, st)
<1>1. CASE u = NoUser
  BY <1>1 DEF Status, SameQueue, SameTalk, SameSub
<1>2. CASE u \in Users
  <2>. DEFINE p == [c.part[u] EXCEPT !.status = st]
  <2>1. c.part \in [Users -> Participant] /\ u # NoUser
    BY <1>2, ControllerFields DEF Users, NoUser
  <2>2. p \in Participant /\ p.status = st /\ p.ref = c.part[u].ref /\ (p.in <=> c.part[u].in)
    BY <1>2, <2>1 DEF Participant
  <2>3. d = PartSet(c, u, p)
    BY <2>1 DEF Status, PartSet
  <2>. HIDE DEF p, d
  <2>4. /\ d \in ControllerType
        /\ SameQueue(c, d) /\ SameTalk(c, d) /\ SameSub(c, d) /\ d.refs = c.refs
        /\ d.part = [c.part EXCEPT ![u] = p]
    BY <1>2, <2>2, <2>3, PartFieldFacts
  <2>5. LinksLive(c) => LinksLive(d)
    BY <1>2, <2>1, <2>2, <2>4 DEF LinksLive, Linked
  <2>. QED  BY <1>2, <2>1, <2>2, <2>4, <2>5 DEF d
<1>. QED  BY <1>1, <1>2

\* A participant is let go by one reference only.
LEMMA UnlinkedFacts ==
    ASSUME NEW c \in ControllerType, NEW u \in Users, NEW r \in References
    PROVE  LET d == Unlinked(c, u, r)
           IN  /\ d \in ControllerType
               /\ SameQueue(c, d) /\ SameTalk(c, d) /\ SameSub(c, d) /\ d.refs = c.refs
               /\ NobodyJoins(c, d)
               /\ \A w \in Users, s \in References :
                     Linked(d, w, s) => Linked(c, w, s) /\ <<w, s>> # <<u, r>>
<1>. DEFINE d == Unlinked(c, u, r)
<1>1. CASE ~Linked(c, u, r)
  BY <1>1 DEF Unlinked, SameQueue, SameTalk, SameSub, NobodyJoins
<1>2. CASE Linked(c, u, r)
  <2>. DEFINE p == [c.part[u] EXCEPT !.ref = "none"]
  <2>1. c.part \in [Users -> Participant]
    BY ControllerFields
  <2>2. /\ p \in Participant /\ p.ref = "none" /\ (p.in <=> c.part[u].in)
        /\ p.status = c.part[u].status
    BY <2>1 DEF Participant
  <2>3. d = PartSet(c, u, p)
    BY <1>2, <2>1 DEF Unlinked, PartSet
  <2>. HIDE DEF p, d
  <2>4. /\ d \in ControllerType
        /\ SameQueue(c, d) /\ SameTalk(c, d) /\ SameSub(c, d) /\ d.refs = c.refs
        /\ d.part = [c.part EXCEPT ![u] = p]
    BY <2>2, <2>3, PartFieldFacts
  <2>5. NobodyJoins(c, d)
    BY <2>1, <2>2, <2>4 DEF NobodyJoins
  <2>6. \A w \in Users, s \in References :
           Linked(d, w, s) => Linked(c, w, s) /\ <<w, s>> # <<u, r>>
    BY <2>1, <2>2, <2>4 DEF Linked, References
  <2>. QED  BY <2>4, <2>5, <2>6 DEF d
<1>. QED  BY <1>1, <1>2

\* A reference is deleted, and the participant that is linked to it let go.
LEMMA RemoveReferenceFacts ==
    ASSUME NEW c \in ControllerType, NEW u \in Users, NEW r \in References
    PROVE  LET d == RemoveReference(c, u, r)
           IN  /\ d \in ControllerType
               /\ SameQueue(c, d) /\ SameTalk(c, d) /\ SameSub(c, d)
               /\ RefsKept(c, d) /\ NobodyJoins(c, d)
               /\ LinksLive(c) => LinksLive(d)
               /\ d.refs[u][r] = "gone"
               /\ \A w \in Users, s \in References : <<w, s>> # <<u, r>> =>
                     d.refs[w][s] = c.refs[w][s]
<1>. DEFINE b == Unlinked(c, u, r)
            d == RefSet(b, u, r, "gone")
<1>1. /\ b \in ControllerType
      /\ SameQueue(c, b) /\ SameTalk(c, b) /\ SameSub(c, b) /\ b.refs = c.refs
      /\ NobodyJoins(c, b)
      /\ \A w \in Users, s \in References :
            Linked(b, w, s) => Linked(c, w, s) /\ <<w, s>> # <<u, r>>
  BY UnlinkedFacts
<1>. HIDE DEF b
<1>1a. b \in ControllerType /\ "gone" \in RefMade
  BY <1>1 DEF RefMade
<1>2. /\ d \in ControllerType
      /\ SameQueue(b, d) /\ SameTalk(b, d) /\ SameSub(b, d) /\ d.part = b.part
      /\ d.refs[u][r] = "gone"
      /\ \A w \in Users, s \in References : <<w, s>> # <<u, r>> =>
            d.refs[w][s] = b.refs[w][s]
      /\ RefsKept(b, d)
  BY <1>1a, RefFieldFacts
<1>. HIDE DEF d
<1>3. LinksLive(c) => LinksLive(d)
  BY <1>1, <1>2 DEF LinksLive, Linked
<1>4. /\ SameQueue(c, d) /\ SameTalk(c, d) /\ SameSub(c, d) /\ RefsKept(c, d)
      /\ NobodyJoins(c, d)
  BY <1>1, <1>2 DEF SameQueue, SameTalk, SameSub, RefsKept, NobodyJoins
<1>5. d = RemoveReference(c, u, r)
  BY DEF RemoveReference, RefSet, b, d
<1>. QED  BY <1>1, <1>2, <1>3, <1>4, <1>5

\* Fields that are set one at a time.
EngineSet(c, v, e, n, l) == [c EXCEPT !.sub = v, !.eng = e, !.notified = n, !.lost = l]
StateSet(c, s) == [c EXCEPT !.state = s]
DelaySet(c) == [c EXCEPT !.delay = TRUE]
ClosedSet(c) == [c EXCEPT !.closed = TRUE]

\* The subscription and the engine's are set together; all else stays.
LEMMA EngineFacts ==
    ASSUME NEW c \in ControllerType, NEW v \in SubStates, NEW e \in EngineStates,
           NEW n \in BOOLEAN, NEW l \in BOOLEAN
    PROVE  LET d == EngineSet(c, v, e, n, l)
           IN  /\ d \in ControllerType /\ d.sub = v /\ d.eng = e /\ (d.lost <=> l)
               /\ d.closed <=> c.closed
               /\ SameQueue(c, d) /\ SameTalk(c, d) /\ SameUsers(c, d)
<1>. DEFINE d == EngineSet(c, v, e, n, l)
<1>1. d \in ControllerType
  BY DEF ControllerType, EngineSet, SubStates, EngineStates
<1>2. d.sub = v /\ d.eng = e /\ (d.lost <=> l) /\ (d.closed <=> c.closed)
  BY DEF ControllerType, EngineSet
<1>3. SameQueue(c, d) /\ SameTalk(c, d) /\ SameUsers(c, d)
  BY DEF ControllerType, EngineSet, SameQueue, SameTalk, SameUsers
<1>. HIDE DEF d
<1>. QED  BY <1>1, <1>2, <1>3 DEF d

\* Each field keeps its type and leaves the others alone.
LEMMA FieldFacts ==
    ASSUME NEW c \in ControllerType
    PROVE  /\ \A s \in States :
                 LET d == StateSet(c, s)
                 IN  /\ d \in ControllerType /\ d.state = s
                     /\ SameQueue(c, d) /\ SameUsers(c, d) /\ SameSub(c, d)
                     /\ (d.open <=> c.open) /\ (d.twice <=> c.twice) /\ (d.stale <=> c.stale)
           /\ LET d == DelaySet(c)
              IN  /\ d \in ControllerType /\ d.queue = c.queue /\ d.delay
                  /\ SameTalk(c, d) /\ SameUsers(c, d) /\ SameSub(c, d)
           /\ LET d == ClosedSet(c)
              IN  /\ d \in ControllerType /\ d.closed /\ SameEngine(c, d)
                  /\ SameQueue(c, d) /\ SameTalk(c, d) /\ SameUsers(c, d)
<1>. USE DEF SameQueue, SameTalk, SameUsers, SameSub, SameEngine
<1>2. \A s \in States :
         LET d == StateSet(c, s)
         IN  /\ d \in ControllerType /\ d.state = s
             /\ SameQueue(c, d) /\ SameUsers(c, d) /\ SameSub(c, d)
             /\ (d.open <=> c.open) /\ (d.twice <=> c.twice) /\ (d.stale <=> c.stale)
  BY DEF ControllerType, StateSet
<1>3. LET d == DelaySet(c)
      IN  /\ d \in ControllerType /\ d.queue = c.queue /\ d.delay
          /\ SameTalk(c, d) /\ SameUsers(c, d) /\ SameSub(c, d)
  BY DEF ControllerType, DelaySet
<1>4. LET d == ClosedSet(c)
      IN  /\ d \in ControllerType /\ d.closed /\ SameEngine(c, d)
          /\ SameQueue(c, d) /\ SameTalk(c, d) /\ SameUsers(c, d)
  BY DEF ControllerType, ClosedSet
<1>. QED  BY <1>2, <1>3, <1>4

\* The operations that Op and Delayed make are operations.
LEMMA OpTypes ==
    /\ \A type \in Immediate \cup Lasting, u \in Users \cup {NoUser} :
          /\ Op(type, u) \in Operation
          /\ Op(type, u).type = type /\ Op(type, u).user = u /\ ~Op(type, u).delayed
    /\ \A type \in Immediate \cup Lasting :
          /\ Delayed(type) \in Operation
          /\ Delayed(type).type = type /\ Delayed(type).delayed
BY DEF Op, Delayed, Operation

Destroy == <<Op("DESTROY_CONTROLLER", NoUser)>>
Unsubscribe == <<Delayed("UNSUBSCRIBE")>>

\* So are those of a conference that is over.
LEMMA ClosingTypes == Destroy \in Seq(Operation) /\ Unsubscribe \in Seq(Operation)
<1>1. Op("DESTROY_CONTROLLER", NoUser) \in Operation /\ Delayed("UNSUBSCRIBE") \in Operation
  BY OpTypes DEF Lasting
<1>. QED  BY <1>1 DEF Destroy, Unsubscribe

\* SendClosed closes the controller, or has a pending operation in the queue do it.
LEMMA SendClosedFacts ==
    ASSUME NEW c \in ControllerType
    PROVE  LET d == SendClosed(c)
           IN  /\ d \in ControllerType
               /\ SameTalk(c, d) /\ SameUsers(c, d) /\ SameEngine(c, d) /\ (d.delay <=> c.delay)
               /\ HasPendingOperation(c) =>
                     d.queue = c.queue \o Destroy /\ (d.closed <=> c.closed)
               /\ ~HasPendingOperation(c) => d.queue = c.queue /\ d.closed
<1>1. CASE HasPendingOperation(c)
  <2>1. SendClosed(c) = Appended(c, Destroy)
    BY <1>1 DEF SendClosed, Destroy
  <2>. QED  BY <1>1, <2>1, ClosingTypes, AppendedFacts DEF SameSub, SameEngine
<1>2. CASE ~HasPendingOperation(c)
  <2>1. SendClosed(c) = ClosedSet(c)
    BY <1>2 DEF SendClosed, ClosedSet
  <2>. QED  BY <1>2, <2>1, FieldFacts DEF SameQueue
<1>. QED  BY <1>1, <1>2

\* MergeFailed tells the result and empties the queue.
LEMMA MergeFailedFacts ==
    ASSUME NEW c \in ControllerType
    PROVE  LET d == MergeFailed(c)
           IN  /\ d \in ControllerType
               /\ SameUsers(c, d) /\ SameSub(c, d)
               /\ d.state = c.state /\ ~d.open /\ (d.stale <=> c.stale)
               /\ d.twice <=> (c.twice \/ ~c.open)
               /\ d.queue = << >> /\ ~d.delay
<1>. DEFINE t == Told(c)
<1>1. /\ t \in ControllerType
      /\ SameQueue(c, t) /\ SameUsers(c, t) /\ SameSub(c, t)
      /\ t.state = c.state /\ ~t.open /\ (t.stale <=> c.stale)
      /\ t.twice <=> (c.twice \/ ~c.open)
  BY ToldFacts
<1>2. MergeFailed(c) = Cleared(t)
  BY DEF MergeFailed
<1>. HIDE DEF t
<1>3. /\ Cleared(t) \in ControllerType
      /\ SameTalk(t, Cleared(t)) /\ SameUsers(t, Cleared(t)) /\ SameSub(t, Cleared(t))
      /\ Cleared(t).queue = << >> /\ ~Cleared(t).delay
  BY <1>1, ClearedFacts
<1>. QED  BY <1>1, <1>2, <1>3 DEF SameTalk, SameUsers, SameSub

-----------------------------------------------------------------------------
(***************************************************************************)
(* What the operations do to the controller and to the calls.  Endings are the *)
(* operations that are put at the end of the queue while others are worked off. *)
(***************************************************************************)
UnsubscribeDestroy == Unsubscribe \o Destroy
Endings == {<< >>, Destroy, Unsubscribe, UnsubscribeDestroy}

\* Sequences of operations can be put together in any order.
LEMMA OpsAssociative ==
    \A s, t, u \in Seq(Operation) : (s \o t) \o u = s \o (t \o u)
BY ConcatAssociative

\* Each ending is a sequence of operations.
LEMMA EndingTypes ==
    /\ UnsubscribeDestroy = <<Delayed("UNSUBSCRIBE"), Op("DESTROY_CONTROLLER", NoUser)>>
    /\ \A ext \in Endings : ext \in Seq(Operation)
<1>1. UnsubscribeDestroy = <<Delayed("UNSUBSCRIBE"), Op("DESTROY_CONTROLLER", NoUser)>>
  <2>. DEFINE v == Delayed("UNSUBSCRIBE")
              w == Op("DESTROY_CONTROLLER", NoUser)
  <2>1. v \in Operation /\ w \in Operation
    BY OpTypes DEF Lasting
  <2>. HIDE DEF v, w
  <2>2. <<v>> \o <<w>> = <<v, w>>
    <3>1. <<v>> \in Seq(Operation) /\ <<w>> \in Seq(Operation) /\ <<v, w>> \in Seq(Operation)
      BY <2>1
    <3>2. Len(<<v>>) = 1 /\ Len(<<w>>) = 1 /\ Len(<<v, w>>) = 2
      OBVIOUS
    <3>3. /\ <<v>> \o <<w>> \in Seq(Operation) /\ Len(<<v>> \o <<w>>) = 2
          /\ \A i \in 1..2 : (<<v>> \o <<w>>)[i] = IF i <= 1 THEN <<v>>[i] ELSE <<w>>[i - 1]
      BY <3>1, <3>2, ConcatProperties
    <3>4. \A i \in 1..2 : (<<v>> \o <<w>>)[i] = <<v, w>>[i]
      BY <3>3
    <3>. QED  BY <3>1, <3>2, <3>3, <3>4, SeqEqual
  <2>. QED  BY <2>2 DEF UnsubscribeDestroy, Unsubscribe, Destroy, v, w
<1>2. UnsubscribeDestroy \in Seq(Operation)
  BY ClosingTypes, ConcatProperties DEF UnsubscribeDestroy
<1>3. << >> \in Seq(Operation)
  BY EmptySeq
<1>. QED  BY <1>1, <1>2, <1>3, ClosingTypes DEF Endings

\* NotifyCmdResult tells the result, leaves the queue and makes the state IDLE.
LEMMA NotifyCmdResultFacts ==
    ASSUME NEW c \in ControllerType, c.queue # << >>
    PROVE  LET d == NotifyCmdResult(c)
           IN  /\ d \in ControllerType
               /\ d.queue = Tail(c.queue) /\ ~d.delay
               /\ d.state = "IDLE" /\ ~d.open /\ (d.stale <=> c.stale)
               /\ d.twice <=> (c.twice \/ ~c.open)
               /\ SameSub(c, d) /\ d.refs = c.refs
               /\ NobodyJoins(c, d) /\ (LinksLive(c) => LinksLive(d))
<1>. DEFINE t == Told(c)
            n == IF c.state = "DROPPING" THEN NotifyUsersInfo(t) ELSE t
            p == Popped(n)
            d == StateSet(p, "IDLE")
<1>1. /\ t \in ControllerType
      /\ SameQueue(c, t) /\ SameUsers(c, t) /\ SameSub(c, t)
      /\ ~t.open /\ (t.stale <=> c.stale) /\ (t.twice <=> (c.twice \/ ~c.open))
  BY ToldFacts
<1>. HIDE DEF t
<1>2. /\ n \in ControllerType
      /\ SameQueue(t, n) /\ SameTalk(t, n) /\ SameSub(t, n) /\ n.refs = t.refs
      /\ NobodyJoins(t, n) /\ (LinksLive(t) => LinksLive(n))
  <2>1. CASE c.state = "DROPPING"
    BY <1>1, <2>1, RemovedFacts DEF NotifyUsersInfo
  <2>2. CASE c.state # "DROPPING"
    BY <1>1, <2>2 DEF SameQueue, SameTalk, SameSub, NobodyJoins
  <2>. QED  BY <2>1, <2>2
<1>. HIDE DEF n
<1>3. n.queue = c.queue
  BY <1>1, <1>2 DEF SameQueue
<1>4. /\ p \in ControllerType
      /\ SameTalk(n, p) /\ SameUsers(n, p) /\ SameSub(n, p)
      /\ p.queue = Tail(n.queue) /\ ~p.delay
  BY <1>2, <1>3, PoppedFacts
<1>. HIDE DEF p
<1>5. /\ d \in ControllerType /\ d.state = "IDLE"
      /\ SameQueue(p, d) /\ SameUsers(p, d) /\ SameSub(p, d)
      /\ (d.open <=> p.open) /\ (d.twice <=> p.twice) /\ (d.stale <=> p.stale)
  BY <1>4, FieldFacts DEF States
<1>6. NotifyCmdResult(c) = d
  BY DEF NotifyCmdResult, StateSet, t, n, p
<1>. HIDE DEF d
<1>7. d.queue = Tail(c.queue) /\ ~d.delay /\ SameSub(c, d) /\ d.refs = c.refs
  BY <1>1, <1>2, <1>3, <1>4, <1>5 DEF SameQueue, SameUsers, SameSub
<1>8. /\ ~d.open /\ (d.stale <=> c.stale) /\ (d.twice <=> (c.twice \/ ~c.open))
  BY <1>1, <1>2, <1>4, <1>5 DEF SameTalk
<1>9. NobodyJoins(c, d) /\ (LinksLive(c) => LinksLive(d))
  <2>1. t.part = c.part /\ t.refs = c.refs /\ d.part = n.part /\ d.refs = n.refs
    BY <1>1, <1>4, <1>5 DEF SameUsers
  <2>. QED  BY <1>2, <2>1 DEF NobodyJoins, LinksLive, Linked
<1>. QED  BY <1>5, <1>6, <1>7, <1>8, <1>9

\* OnCallUpdated(CALL_TERMINATED) adds an ending, or closes the controller at once.
LEMMA ConferenceOverFacts ==
    ASSUME NEW c \in ControllerType
    PROVE  LET d == ConferenceOver(c)
           IN  /\ d \in ControllerType
               /\ SameTalk(c, d) /\ SameUsers(c, d) /\ SameEngine(c, d)
               /\ c.sub = "ACTIVE" =>
                     /\ d.queue = c.queue \o UnsubscribeDestroy
                     /\ d.delay <=> (c.delay \/ c.queue = << >>)
                     /\ d.closed <=> c.closed
               /\ c.sub # "ACTIVE" /\ HasPendingOperation(c) =>
                     /\ d.queue = c.queue \o Destroy
                     /\ d.delay <=> c.delay
                     /\ d.closed <=> c.closed
               /\ c.sub # "ACTIVE" /\ ~HasPendingOperation(c) =>
                     SameQueue(c, d) /\ d.closed
<1>1. CASE c.sub = "ACTIVE"
  <2>. DEFINE a == Appended(c, Unsubscribe)
              b == IF c.queue = << >> THEN DelaySet(a) ELSE a
              d == SendClosed(b)
  <2>1. /\ a \in ControllerType /\ SameTalk(c, a) /\ SameUsers(c, a) /\ SameSub(c, a)
        /\ a.queue = c.queue \o Unsubscribe /\ (a.delay <=> c.delay)
    BY ClosingTypes, AppendedFacts
  <2>2. a.queue = Append(c.queue, Delayed("UNSUBSCRIBE"))
    BY <2>1, AppendIsConcat, ControllerFields, OpTypes DEF Unsubscribe, Lasting
  <2>3. ConferenceOver(c) = d
    <3>1. a = [c EXCEPT !.queue = Append(@, Delayed("UNSUBSCRIBE"))]
      BY <2>1, <2>2 DEF Appended
    <3>2. CASE c.queue = << >>
      <4>1. DelaySet(a) = [c EXCEPT !.queue = Append(@, Delayed("UNSUBSCRIBE")),
                                    !.delay = TRUE]
        BY <3>1 DEF DelaySet, ControllerType
      <4>. QED  BY <1>1, <3>2, <4>1 DEF ConferenceOver
    <3>3. CASE c.queue # << >>
      <4>1. c.delay \in BOOLEAN
        BY ControllerFields
      <4>2. a = [c EXCEPT !.queue = Append(@, Delayed("UNSUBSCRIBE")),
                          !.delay = @ \/ (c.sub = "ACTIVE" /\ c.queue = << >>)]
        BY <3>1, <3>3, <4>1 DEF ControllerType
      <4>. QED  BY <1>1, <3>3, <4>2 DEF ConferenceOver
    <3>. QED  BY <3>2, <3>3
  <2>. HIDE DEF a
  <2>4. /\ b \in ControllerType /\ SameTalk(c, b) /\ SameUsers(c, b) /\ SameSub(c, b)
        /\ b.queue = c.queue \o Unsubscribe
        /\ b.delay <=> (c.delay \/ c.queue = << >>)
    <3>1. CASE c.queue = << >>
      BY <2>1, <3>1, FieldFacts DEF SameTalk, SameUsers, SameSub
    <3>2. CASE c.queue # << >>
      BY <2>1, <3>2
    <3>. QED  BY <3>1, <3>2
  <2>. HIDE DEF b
  <2>5. HasPendingOperation(b)
    <3>1. b.queue[Len(c.queue) + 1] = Delayed("UNSUBSCRIBE")
      BY <2>2, <2>1, <2>4, ControllerFields DEF Unsubscribe
    <3>2. Len(c.queue) + 1 \in DOMAIN b.queue
      BY <2>2, <2>1, <2>4, ControllerFields DEF Unsubscribe
    <3>. QED  BY <3>1, <3>2, OpTypes DEF HasPendingOperation, Lasting
  <2>6. /\ d \in ControllerType
        /\ SameTalk(b, d) /\ SameUsers(b, d) /\ SameEngine(b, d) /\ (d.delay <=> b.delay)
        /\ d.queue = b.queue \o Destroy /\ (d.closed <=> b.closed)
    BY <2>4, <2>5, SendClosedFacts
  <2>. HIDE DEF d
  <2>7. d.queue = c.queue \o UnsubscribeDestroy
    <3>1. c.queue \in Seq(Operation)
      BY ControllerFields
    <3>2. (c.queue \o Unsubscribe) \o Destroy = c.queue \o (Unsubscribe \o Destroy)
      <4>. DEFINE v == Unsubscribe
                  w == Destroy
      <4>1. v \in Seq(Operation) /\ w \in Seq(Operation)
        BY ClosingTypes
      <4>. HIDE DEF v, w
      <4>2. (c.queue \o v) \o w = c.queue \o (v \o w)
        BY <3>1, <4>1, OpsAssociative
      <4>. QED  BY <4>2 DEF v, w
    <3>. QED  BY <2>4, <2>6, <3>2 DEF UnsubscribeDestroy
  <2>8. SameTalk(c, d) /\ SameUsers(c, d) /\ SameEngine(c, d) /\ (d.closed <=> c.closed)
    BY <2>4, <2>6 DEF SameTalk, SameUsers, SameSub, SameEngine
  <2>. QED  BY <1>1, <2>3, <2>4, <2>6, <2>7, <2>8
<1>2. CASE c.sub # "ACTIVE"
  <2>1. ConferenceOver(c) = SendClosed(c)
    <3>1. c.delay \in BOOLEAN
      BY ControllerFields
    <3>. DEFINE q == IF c.sub = "ACTIVE" THEN Append(c.queue, Delayed("UNSUBSCRIBE"))
                     ELSE c.queue
                w == c.delay \/ (c.sub = "ACTIVE" /\ c.queue = << >>)
    <3>2. q = c.queue /\ w = c.delay
      BY <1>2, <3>1, Zenon
    <3>3. ConferenceOver(c) = SendClosed([c EXCEPT !.queue = q, !.delay = w])
      BY DEF ConferenceOver
    <3>. HIDE DEF q, w
    <3>4. c = [c EXCEPT !.queue = q, !.delay = w]
      BY <3>2 DEF ControllerType
    <3>. QED  BY <3>3, <3>4
  <2>. QED  BY <1>2, <2>1, SendClosedFacts DEF SameQueue
<1>. QED  BY <1>1, <1>2

\* A world whose controller has been replaced.
With(x, d) == [x EXCEPT !.c = d]
ConfSet(x, s) == [x EXCEPT !.conf = s]

\* Only the controller has been replaced.
LEMMA WorldFields ==
    ASSUME NEW x \in WorldType
    PROVE  /\ x.c \in ControllerType /\ x.conf \in ConferenceStates
           /\ x.call \in [Users -> BOOLEAN]
           /\ \A d \in ControllerType :
                 /\ With(x, d) \in WorldType /\ With(x, d).c = d
                 /\ With(x, d).conf = x.conf /\ With(x, d).call = x.call
           /\ \A s \in ConferenceStates :
                 /\ ConfSet(x, s) \in WorldType /\ ConfSet(x, s).c = x.c
                 /\ ConfSet(x, s).conf = s /\ ConfSet(x, s).call = x.call
BY DEF WorldType, With, ConfSet

\* A user's call, and what the controller is told of its end.
LEMMA IndividualCallFacts ==
    ASSUME NEW x \in WorldType, NEW u \in Users \cup {NoUser}, x.c.queue # << >>
    PROVE  LET y == TerminateIndividualCall(x, u)
           IN  /\ y \in WorldType /\ y.conf = x.conf
               /\ y.c.queue = Tail(x.c.queue) /\ ~y.c.delay
               /\ SameTalk(x.c, y.c) /\ SameUsers(x.c, y.c) /\ SameSub(x.c, y.c)
               /\ \A v \in Users : v # u => y.call[v] = x.call[v]
<1>. DEFINE e == IF x.call[u] THEN OneToOneTerminated(x.c) ELSE x.c
            p == Popped(e)
            cs == [x.call EXCEPT ![u] = FALSE]
            y == [x EXCEPT !.call = cs, !.c = p]
<1>1. e \in ControllerType /\ SameAll(x.c, e)
  <2>1. x.c \in ControllerType
    BY WorldFields
  <2>2. SameAll(x.c, x.c) /\ SameAll(x.c, OneToOneTerminated(x.c))
    BY <2>1, TimerFacts DEF SameAll, SameQueue, SameTalk, SameUsers, SameSub
  <2>3. SameAll(x.c, e)
    BY <2>2
  <2>. QED  BY <2>3 DEF SameAll
<1>2. TerminateIndividualCall(x, u) = y
  BY DEF TerminateIndividualCall
<1>. HIDE DEF e
<1>3. e.queue = x.c.queue
  BY <1>1 DEF SameAll, SameQueue
<1>4. /\ p \in ControllerType /\ p.queue = Tail(x.c.queue) /\ ~p.delay
      /\ SameTalk(e, p) /\ SameUsers(e, p) /\ SameSub(e, p)
  BY <1>1, <1>3, PoppedFacts
<1>5. SameTalk(x.c, p) /\ SameUsers(x.c, p) /\ SameSub(x.c, p)
  BY <1>1, <1>4 DEF SameAll, SameTalk, SameUsers, SameSub
<1>6. cs \in [Users -> BOOLEAN] /\ \A v \in Users : v # u => cs[v] = x.call[v]
  BY WorldFields
<1>. HIDE DEF p, cs
<1>7. y \in WorldType /\ y.conf = x.conf /\ y.c = p /\ y.call = cs
  BY <1>4, <1>6 DEF WorldType
<1>. QED  BY <1>2, <1>4, <1>5, <1>6, <1>7

\* The conference call is terminated, which tells the controller at once.
LEMMA TerminateConferenceFacts ==
    ASSUME NEW x \in WorldType, x.c.queue # << >>
    PROVE  LET y == TerminateConference(x)
               d == ConferenceOver(x.c)
           IN  /\ y \in WorldType /\ y.conf = "ENDED" /\ y.call = x.call
               /\ ~y.c.delay
               /\ SameTalk(x.c, y.c) /\ SameUsers(x.c, y.c) /\ SameEngine(x.c, y.c)
               /\ x.conf = "ENDED" =>
                     y.c.queue = Tail(x.c.queue) /\ (y.c.closed <=> x.c.closed)
               /\ x.conf # "ENDED" => y.c.queue = Tail(d.queue) /\ (y.c.closed <=> d.closed)
<1>. DEFINE d == ConferenceOver(x.c)
            e == IF x.conf = "ENDED" THEN x.c ELSE d
            p == Popped(e)
            y == [x EXCEPT !.conf = "ENDED", !.c = p]
<1>1. /\ d \in ControllerType
      /\ SameTalk(x.c, d) /\ SameUsers(x.c, d) /\ SameEngine(x.c, d)
      /\ d.queue # << >>
  <2>1. x.c \in ControllerType
    BY WorldFields
  <2>2. /\ d \in ControllerType
        /\ SameTalk(x.c, d) /\ SameUsers(x.c, d) /\ SameEngine(x.c, d)
        /\ \E ext \in Endings : d.queue = x.c.queue \o ext
    <3>1. x.c.queue \in Seq(Operation)
      BY <2>1, ControllerFields
    <3>2. x.c.queue \o << >> = x.c.queue
      BY <3>1, ConcatEmptySeq
    <3>. QED  BY <2>1, <3>2, ConferenceOverFacts DEF Endings, SameQueue
  <2>3. PICK ext \in Endings : d.queue = x.c.queue \o ext
    BY <2>2
  <2>4. x.c.queue \in Seq(Operation) /\ ext \in Seq(Operation)
    BY <2>1, ControllerFields, EndingTypes
  <2>. HIDE DEF d
  <2>5. d.queue # << >>
    BY <2>3, <2>4, ConcatEqualIffEmpty
  <2>. QED  BY <2>2, <2>5
<1>2. TerminateConference(x) = y
  BY DEF TerminateConference
<1>. HIDE DEF d
<1>3. e \in ControllerType /\ e.queue # << >>
  BY <1>1, WorldFields
<1>4. SameTalk(x.c, e) /\ SameUsers(x.c, e) /\ SameEngine(x.c, e)
  BY <1>1 DEF SameTalk, SameUsers, SameEngine
<1>5. /\ p \in ControllerType /\ p.queue = Tail(e.queue) /\ ~p.delay
      /\ SameTalk(e, p) /\ SameUsers(e, p) /\ SameSub(e, p)
  BY <1>3, PoppedFacts
<1>. HIDE DEF e
<1>6. SameTalk(x.c, p) /\ SameUsers(x.c, p) /\ SameEngine(x.c, p) /\ (p.closed <=> e.closed)
  BY <1>4, <1>5 DEF SameTalk, SameUsers, SameSub, SameEngine
<1>. HIDE DEF p
<1>7. y \in WorldType /\ y.conf = "ENDED" /\ y.c = p /\ y.call = x.call
  BY <1>5 DEF WorldType, ConferenceStates
<1>. QED  BY <1>2, <1>5, <1>6, <1>7 DEF e, d

\* An active subscription is being ended afterwards.
LEMMA StopSubscriptionFacts ==
    ASSUME NEW c \in ControllerType
    PROVE  LET d == StopSubscription(c)
           IN  /\ d \in ControllerType
               /\ SameQueue(c, d) /\ SameTalk(c, d) /\ SameUsers(c, d)
               /\ d.closed <=> c.closed
               /\ d.lost <=> c.lost
               /\ IF c.sub \in {"SUBSCRIBING", "ACTIVE"} /\ c.eng # "none"
                  THEN /\ d.sub = "UNSUBSCRIBING"
                       /\ d.eng = IF c.eng = "ACTIVE" THEN "REMOVE" ELSE c.eng
                  ELSE d.sub = c.sub /\ d.eng = c.eng
<1>. DEFINE ends == c.sub \in {"SUBSCRIBING", "ACTIVE"} /\ c.eng # "none"
            e == IF c.eng = "ACTIVE" THEN "REMOVE" ELSE c.eng
<1>1. CASE ends
  <2>. DEFINE d == EngineSet(c, "UNSUBSCRIBING", e, c.notified, c.lost)
  <2>1. StopSubscription(c) = d
    BY <1>1 DEF StopSubscription, EngineSet, ControllerType
  <2>2. /\ "UNSUBSCRIBING" \in SubStates /\ e \in EngineStates
        /\ c.notified \in BOOLEAN /\ c.lost \in BOOLEAN
    BY ControllerFields DEF SubStates, EngineStates, PendingRequests
  <2>. HIDE DEF e
  <2>3. /\ d \in ControllerType /\ d.sub = "UNSUBSCRIBING" /\ d.eng = e
        /\ (d.lost <=> c.lost) /\ (d.closed <=> c.closed)
        /\ SameQueue(c, d) /\ SameTalk(c, d) /\ SameUsers(c, d)
    BY <2>2, EngineFacts
  <2>. HIDE DEF d
  <2>. QED  BY <1>1, <2>1, <2>3 DEF e
<1>2. CASE ~ends
  BY <1>2 DEF StopSubscription, SameQueue, SameTalk, SameUsers
<1>. QED  BY <1>1, <1>2

\* The REFERs that ask users in stay what they are.
SameInvites(c, d, us) == \A u \in us : d.refs[u]["invite"] = c.refs[u]["invite"]

(***************************************************************************)
(* A REFER links its user to a new reference, whatever becomes of it.         *)
(***************************************************************************)
\* The link is live whether the REFER was sent or not.
LEMMA ReferFacts ==
    ASSUME NEW c \in ControllerType, NEW u \in Users, NEW r \in References,
           NEW v \in {"sent", "unsent"}
    PROVE  LET p == [c.part[u] EXCEPT !.ref = IF c.part[u].in THEN r ELSE @]
               d == RefSet(PartSet(c, u, p), u, r, v)
           IN  /\ d \in ControllerType
               /\ SameQueue(c, d) /\ SameTalk(c, d) /\ SameSub(c, d)
               /\ RefsKept(c, d) /\ NobodyJoins(c, d) /\ d.refs[u][r] = v
               /\ \A w \in Users, s \in References : <<w, s>> # <<u, r>> =>
                     d.refs[w][s] = c.refs[w][s]
               /\ LinksLive(c) => LinksLive(d)
<1>. DEFINE p == [c.part[u] EXCEPT !.ref = IF c.part[u].in THEN r ELSE @]
            b == PartSet(c, u, p)
            d == RefSet(b, u, r, v)
<1>1. c.part \in [Users -> Participant]
  BY ControllerFields
<1>2. /\ p \in Participant /\ (p.in <=> c.part[u].in) /\ p.status = c.part[u].status
      /\ c.part[u].in => p.ref = r
  BY <1>1 DEF Participant
<1>. HIDE DEF p
<1>3. /\ b \in ControllerType
      /\ SameQueue(c, b) /\ SameTalk(c, b) /\ SameSub(c, b) /\ b.refs = c.refs
      /\ b.part = [c.part EXCEPT ![u] = p]
  BY <1>2, PartFieldFacts
<1>4. v \in RefMade /\ v \notin {"none", "gone"}
  BY DEF RefMade
<1>. HIDE DEF b
<1>4a. b \in ControllerType /\ v \in RefMade
  BY <1>3, <1>4
<1>5. /\ d \in ControllerType
      /\ SameQueue(b, d) /\ SameTalk(b, d) /\ SameSub(b, d) /\ d.part = b.part
      /\ d.refs[u][r] = v
      /\ \A w \in Users, s \in References : <<w, s>> # <<u, r>> =>
            d.refs[w][s] = b.refs[w][s]
      /\ RefsKept(b, d)
  BY <1>4a, RefFieldFacts
<1>. HIDE DEF d
<1>6. SameQueue(c, d) /\ SameTalk(c, d) /\ SameSub(c, d)
  BY <1>3, <1>5 DEF SameQueue, SameTalk, SameSub
<1>7. RefsKept(c, d)
  BY <1>3, <1>5 DEF RefsKept
<1>8. /\ \A w \in Users : w # u => d.part[w] = c.part[w]
      /\ d.part[u] = p
  BY <1>1, <1>3, <1>5
<1>9. NobodyJoins(c, d)
  BY <1>2, <1>8 DEF NobodyJoins
<1>10. ASSUME LinksLive(c), NEW w \in Users, NEW s \in References, Linked(d, w, s)
       PROVE  d.refs[w][s] \notin {"none", "gone"}
  <2>1. CASE <<w, s>> = <<u, r>>
    BY <1>4, <1>5, <2>1
  <2>2. CASE <<w, s>> # <<u, r>>
    <3>1. w # u
      BY <1>2, <1>8, <1>10, <2>2 DEF Linked
    <3>2. Linked(c, w, s)
      BY <1>8, <1>10, <3>1 DEF Linked
    <3>. QED  BY <1>3, <1>5, <1>10, <2>2, <3>2 DEF LinksLive
  <2>. QED  BY <2>1, <2>2
<1>11. \A w \in Users, s \in References : <<w, s>> # <<u, r>> =>
          d.refs[w][s] = c.refs[w][s]
  BY <1>3, <1>5
<1>. QED  BY <1>5, <1>6, <1>7, <1>9, <1>10, <1>11 DEF LinksLive, p, b, d

\* The REFERs for BYE that live are deleted, and their participants let go.
Bye(c, v) == c.refs[v]["bye"] \in {"unsent", "sent", "accepted"}
ByesForgotten(c) ==
    [StopFinalSipfragWaitTimer(c) EXCEPT
         !.refs = [v \in Users |-> IF Bye(c, v) THEN [@[v] EXCEPT !["bye"] = "gone"] ELSE @[v]],
         !.part = [v \in Users |-> IF Bye(c, v) /\ @[v].ref = "bye"
                                   THEN [@[v] EXCEPT !.ref = "none"] ELSE @[v]]]

\* What InviteParticipants does to them leaves the links live and the queue alone.
LEMMA ByesForgottenFacts ==
    ASSUME NEW c \in ControllerType
    PROVE  LET d == ByesForgotten(c)
           IN  /\ d \in ControllerType
               /\ SameQueue(c, d) /\ SameTalk(c, d) /\ SameSub(c, d)
               /\ RefsKept(c, d) /\ NobodyJoins(c, d) /\ SameInvites(c, d, Users)
               /\ LinksLive(c) => LinksLive(d)
<1>. DEFINE s == StopFinalSipfragWaitTimer(c)
            rs == [v \in Users |->
                      IF Bye(c, v) THEN [c.refs[v] EXCEPT !["bye"] = "gone"] ELSE c.refs[v]]
            ps == [v \in Users |-> IF Bye(c, v) /\ c.part[v].ref = "bye"
                                   THEN [c.part[v] EXCEPT !.ref = "none"] ELSE c.part[v]]
            d == [s EXCEPT !.refs = rs, !.part = ps]
<1>1. SameAll(c, s)
  BY TimerFacts
<1>2. c.part \in [Users -> Participant] /\ c.refs \in [Users -> Lives]
  BY ControllerFields
<1>3. d = ByesForgotten(c)
  <2>1. s.refs = c.refs /\ s.part = c.part
    BY <1>1 DEF SameAll, SameUsers
  <2>. HIDE DEF s
  <2>2. d = [s EXCEPT
                 !.refs = [v \in Users |-> IF Bye(c, v) THEN [s.refs[v] EXCEPT !["bye"] = "gone"]
                                           ELSE s.refs[v]],
                 !.part = [v \in Users |-> IF Bye(c, v) /\ s.part[v].ref = "bye"
                                   THEN [s.part[v] EXCEPT !.ref = "none"] ELSE s.part[v]]]
    BY <2>1
  <2>. QED  BY <2>2 DEF ByesForgotten, s
<1>4. rs \in [Users -> Lives]
  BY <1>2 DEF Lives
<1>5. \A v \in Users : /\ ps[v] \in Participant /\ (ps[v].in <=> c.part[v].in)
                       /\ ps[v].status = c.part[v].status
                       /\ ps[v].ref \in {c.part[v].ref, "none"}
                       /\ ps[v].ref = "bye" => ~Bye(c, v)
  <2>. SUFFICES ASSUME NEW v \in Users
                PROVE  /\ ps[v] \in Participant /\ (ps[v].in <=> c.part[v].in)
                       /\ ps[v].status = c.part[v].status
                       /\ ps[v].ref \in {c.part[v].ref, "none"}
                       /\ ps[v].ref = "bye" => ~Bye(c, v)
    OBVIOUS
  <2>1. c.part[v] \in Participant
    BY <1>2
  <2>2. CASE Bye(c, v) /\ c.part[v].ref = "bye"
    BY <2>1, <2>2 DEF Participant
  <2>3. CASE ~(Bye(c, v) /\ c.part[v].ref = "bye")
    BY <2>1, <2>3
  <2>. QED  BY <2>2, <2>3
<1>6. ps \in [Users -> Participant]
  BY <1>5
<1>7. \A v \in Users, r \in References :
         /\ rs[v][r] # c.refs[v][r] => rs[v][r] = "gone" /\ r = "bye" /\ Bye(c, v)
  BY <1>2 DEF Lives
<1>. HIDE DEF s, rs, ps
<1>8. s \in ControllerType
  BY <1>1 DEF SameAll
<1>9. d \in ControllerType /\ d.refs = rs /\ d.part = ps
  BY <1>4, <1>6, <1>8 DEF ControllerType, Participant, Lives
<1>10. SameQueue(s, d) /\ SameTalk(s, d) /\ SameSub(s, d)
  BY <1>4, <1>6, <1>8 DEF ControllerType, SameQueue, SameTalk, SameSub
<1>. HIDE DEF d
<1>11. SameQueue(c, d) /\ SameTalk(c, d) /\ SameSub(c, d)
  BY <1>1, <1>10 DEF SameAll, SameQueue, SameTalk, SameSub
<1>12. RefsKept(c, d)
  BY <1>7, <1>9 DEF RefsKept
<1>13. NobodyJoins(c, d)
  BY <1>5, <1>9 DEF NobodyJoins
<1>14. ASSUME LinksLive(c), NEW v \in Users, NEW r \in References, Linked(d, v, r)
       PROVE  d.refs[v][r] \notin {"none", "gone"}
  <2>1. ps[v].in /\ ps[v].ref = r /\ r # "none"
    BY <1>9, <1>14 DEF Linked, References
  <2>2. Linked(c, v, r)
    BY <1>5, <2>1 DEF Linked
  <2>3. r = "bye" => ~Bye(c, v)
    BY <1>5, <2>1
  <2>. QED  BY <1>7, <1>9, <1>14, <2>2, <2>3 DEF LinksLive
<1>15. SameInvites(c, d, Users)
  BY <1>7, <1>9 DEF SameInvites, References
<1>. QED  BY <1>3, <1>9, <1>11, <1>12, <1>13, <1>14, <1>15 DEF LinksLive

\* InviteParticipants makes the reference, and recovers when the conference is over.
LEMMA InviteParticipantsFacts ==
    ASSUME NEW x \in WorldType, NEW u \in Users
    PROVE  LET d == InviteParticipants(x, u)
           IN  /\ d \in ControllerType
               /\ SameSub(x.c, d) /\ RefsKept(x.c, d) /\ NobodyJoins(x.c, d)
               /\ d.refs[u]["invite"] # "none" /\ SameInvites(x.c, d, Users \ {u})
               /\ LinksLive(x.c) => LinksLive(d)
               /\ d.state = x.c.state /\ (d.stale <=> x.c.stale)
               /\ x.conf = "UP" =>
                     /\ SameQueue(x.c, d) /\ SameTalk(x.c, d)
                     /\ d.refs[u]["invite"] = "sent"
               /\ x.conf # "UP" =>
                     /\ d.queue = << >> /\ ~d.delay /\ ~d.open
                     /\ d.twice <=> (x.c.twice \/ ~x.c.open)
<1>. DEFINE v == IF x.conf = "UP" THEN "sent" ELSE "unsent"
            b == ByesForgotten(x.c)
            p == [b.part[u] EXCEPT !.ref = IF b.part[u].in THEN "invite" ELSE @]
            a == PartSet(b, u, p)
            e == RefSet(a, u, "invite", v)
            d == IF x.conf = "UP" THEN e ELSE MergeFailed(e)
<1>1. x.c \in ControllerType
  BY WorldFields
<1>2. /\ b \in ControllerType
      /\ SameQueue(x.c, b) /\ SameTalk(x.c, b) /\ SameSub(x.c, b)
      /\ RefsKept(x.c, b) /\ NobodyJoins(x.c, b) /\ SameInvites(x.c, b, Users)
      /\ LinksLive(x.c) => LinksLive(b)
  BY <1>1, ByesForgottenFacts
<1>3. d = InviteParticipants(x, u)
  <2>1. a = [b EXCEPT !.part[u].ref = IF b.part[u].in THEN "invite" ELSE @]
    <3>1. b.part \in [Users -> Participant]
      BY <1>2, ControllerFields
    <3>. HIDE DEF b
    <3>. QED  BY <3>1 DEF PartSet
  <2>. DEFINE linked == [b EXCEPT !.part[u].ref = IF b.part[u].in THEN "invite" ELSE @]
  <2>2. InviteParticipants(x, u) =
           IF x.conf = "UP" THEN [linked EXCEPT !.refs[u]["invite"] = "sent"]
           ELSE MergeFailed([linked EXCEPT !.refs[u]["invite"] = "unsent"])
    BY DEF InviteParticipants, ByesForgotten, Bye
  <2>. HIDE DEF b, linked
  <2>3. InviteParticipants(x, u) =
           IF x.conf = "UP" THEN RefSet(linked, u, "invite", "sent")
           ELSE MergeFailed(RefSet(linked, u, "invite", "unsent"))
    BY <2>2 DEF RefSet
  <2>4. a = linked
    BY <2>1 DEF linked
  <2>. HIDE DEF a
  <2>. QED  BY <2>3, <2>4
<1>. HIDE DEF b
<1>4. v \in {"sent", "unsent"} /\ "invite" \in References /\ (x.conf = "UP" => v = "sent")
  BY DEF References
<1>. HIDE DEF v
<1>5. /\ e \in ControllerType
      /\ SameQueue(b, e) /\ SameTalk(b, e) /\ SameSub(b, e)
      /\ RefsKept(b, e) /\ NobodyJoins(b, e) /\ e.refs[u]["invite"] = v
      /\ \A w \in Users, s \in References : <<w, s>> # <<u, "invite">> =>
            e.refs[w][s] = b.refs[w][s]
      /\ LinksLive(b) => LinksLive(e)
  BY <1>2, <1>4, ReferFacts
<1>. HIDE DEF p, a, e
<1>6. /\ SameQueue(x.c, e) /\ SameTalk(x.c, e) /\ SameSub(x.c, e)
      /\ RefsKept(x.c, e) /\ NobodyJoins(x.c, e)
      /\ LinksLive(x.c) => LinksLive(e)
      /\ e.refs[u]["invite"] # "none" /\ SameInvites(x.c, e, Users \ {u})
  <2>1. SameQueue(x.c, e) /\ SameTalk(x.c, e) /\ SameSub(x.c, e)
    BY <1>2, <1>5 DEF SameQueue, SameTalk, SameSub
  <2>2. RefsKept(x.c, e) /\ NobodyJoins(x.c, e)
    BY <1>2, <1>5 DEF RefsKept, NobodyJoins
  <2>3. SameInvites(x.c, e, Users \ {u})
    BY <1>2, <1>4, <1>5 DEF SameInvites
  <2>. QED  BY <1>2, <1>4, <1>5, <2>1, <2>2, <2>3
<1>7. CASE x.conf = "UP"
  BY <1>3, <1>4, <1>5, <1>6, <1>7 DEF SameTalk
<1>8. CASE x.conf # "UP"
  <2>. DEFINE m == MergeFailed(e)
  <2>1. /\ m \in ControllerType
        /\ SameUsers(e, m) /\ SameSub(e, m)
        /\ m.state = e.state /\ ~m.open /\ (m.stale <=> e.stale)
        /\ m.twice <=> (e.twice \/ ~e.open)
        /\ m.queue = << >> /\ ~m.delay
    BY <1>5, MergeFailedFacts
  <2>2. d = m
    BY <1>8
  <2>. HIDE DEF m, d
  <2>3. SameSub(x.c, m) /\ m.state = x.c.state /\ (m.stale <=> x.c.stale)
        /\ (m.twice <=> (x.c.twice \/ ~x.c.open))
    BY <1>6, <2>1 DEF SameSub, SameTalk
  <2>4. RefsKept(x.c, m) /\ NobodyJoins(x.c, m) /\ m.refs[u]["invite"] # "none"
    BY <1>6, <2>1 DEF RefsKept, NobodyJoins, SameUsers
  <2>4a. SameInvites(x.c, m, Users \ {u})
    BY <1>6, <2>1 DEF SameInvites, SameUsers
  <2>5. LinksLive(x.c) => LinksLive(m)
    BY <1>6, <2>1 DEF LinksLive, Linked, SameUsers
  <2>. QED  BY <1>3, <1>8, <2>1, <2>2, <2>3, <2>4, <2>4a, <2>5
<1>. QED  BY <1>7, <1>8

\* RemoveParticipants makes the reference in any case.
LEMMA RemoveParticipantsFacts ==
    ASSUME NEW x \in WorldType, NEW u \in Users
    PROVE  LET d == RemoveParticipants(x, u)
           IN  /\ d \in ControllerType
               /\ SameQueue(x.c, d) /\ SameTalk(x.c, d) /\ SameSub(x.c, d)
               /\ RefsKept(x.c, d) /\ NobodyJoins(x.c, d) /\ SameInvites(x.c, d, Users)
               /\ d.refs[u]["bye"] \in {"sent", "unsent"}
               /\ LinksLive(x.c) => LinksLive(d)
<1>. DEFINE v == IF x.conf = "UP" THEN "sent" ELSE "unsent"
            p == [x.c.part[u] EXCEPT !.ref = IF x.c.part[u].in THEN "bye" ELSE @]
            d == RefSet(PartSet(x.c, u, p), u, "bye", v)
<1>1. x.c \in ControllerType /\ v \in {"sent", "unsent"} /\ "bye" \in References
  BY WorldFields DEF References
<1>2. d = RemoveParticipants(x, u)
  <2>1. x.c.part \in [Users -> Participant]
    BY <1>1, ControllerFields
  <2>. HIDE DEF v
  <2>2. d = [x.c EXCEPT !.refs[u]["bye"] = v,
                        !.part[u].ref = IF x.c.part[u].in THEN "bye" ELSE @]
    BY <1>1, <2>1 DEF PartSet, RefSet, ControllerType
  <2>. QED  BY <2>2 DEF RemoveParticipants, v
<1>. HIDE DEF v
<1>3. /\ d \in ControllerType
      /\ SameQueue(x.c, d) /\ SameTalk(x.c, d) /\ SameSub(x.c, d)
      /\ RefsKept(x.c, d) /\ NobodyJoins(x.c, d) /\ d.refs[u]["bye"] = v
      /\ \A w \in Users, r \in References : <<w, r>> # <<u, "bye">> =>
            d.refs[w][r] = x.c.refs[w][r]
      /\ LinksLive(x.c) => LinksLive(d)
  BY <1>1, ReferFacts
<1>. HIDE DEF d
<1>4. SameInvites(x.c, d, Users)
  BY <1>3 DEF SameInvites, References
<1>. QED  BY <1>1, <1>2, <1>3, <1>4

-----------------------------------------------------------------------------
(***************************************************************************)
(* The order of the queue.  A command puts its operations in the queue of an   *)
(* idle controller, so a result for the UI comes after all that the command     *)
(* asks for, a call with a member is terminated right after this member's        *)
(* REFER, nobody is asked in twice, and only the operations that close the       *)
(* controller come later.                                                     *)
(***************************************************************************)
Asking == {"CREATE_CONFERENCE_CALL", "REFER_INVITE", "REFER_BYE", "TERMINATE_1TO1_CALL",
           "NOTIFY_RESULT_TO_UI"}
OfUser == {"REFER_INVITE", "REFER_BYE", "TERMINATE_1TO1_CALL"}
Closing == {"UNSUBSCRIBE", "DESTROY_CONTROLLER"}
Has(q, types) == \E i \in DOMAIN q : q[i].type \in types
Pending(q) == \E i \in DOMAIN q : q[i].delayed
StartsWithTerm(q) == q # << >> /\ q[1].type = "TERMINATE_1TO1_CALL"

WellMade(q) ==
    \A i \in DOMAIN q :
        /\ q[i].type \in OfUser => q[i].user \in Users
        /\ q[i].delayed => q[i].type = "UNSUBSCRIBE"
        /\ q[i].type = "CREATE_CONFERENCE_CALL" => i = 1
        /\ q[i].type = "TERMINATE_1TO1_CALL" /\ i > 1 =>
              q[i - 1].type = "REFER_INVITE" /\ q[i - 1].user = q[i].user
Turn(o, p) ==       \* p may come after o
    /\ o.type = "SUBSCRIBE" => p.type # "SUBSCRIBE"
    /\ o.type = "NOTIFY_RESULT_TO_UI" => p.type \notin Asking
    /\ o.type = "DESTROY_CONTROLLER" => ~p.delayed
    /\ o.type = "UNSUBSCRIBE" => p.type \notin {"UNSUBSCRIBE", "CHECK_CONNECTED"}
    /\ o.type = "REFER_BYE" => p.type # "REFER_BYE"
    /\ o.type = "REFER_INVITE" /\ p.type = "REFER_INVITE" => p.user # o.user
InTurn(q) == \A i, j \in DOMAIN q : i < j => Turn(q[i], q[j])
Ordered(q) == WellMade(q) /\ InTurn(q)

\* Nobody whom s asks in is asked in by t.
Apart(s, t) ==
    \A i \in DOMAIN s, j \in DOMAIN t :
        s[i].type = "REFER_INVITE" /\ t[j].type = "REFER_INVITE" => t[j].user # s[i].user

\* Sequences of operations, element by element.
LEMMA QueueFacts ==
    ASSUME NEW q \in Seq(Operation)
    PROVE  /\ Len(q) \in Nat /\ DOMAIN q = 1..Len(q)
           /\ q = << >> <=> Len(q) = 0
           /\ \A i \in 1..Len(q) : q[i] \in Operation
           /\ q # << >> =>
                 /\ Head(q) = q[1] /\ Head(q) \in Operation /\ Tail(q) \in Seq(Operation)
                 /\ Len(Tail(q)) = Len(q) - 1 /\ 1 \in 1..Len(q)
                 /\ \A i \in 1..Len(Tail(q)) : Tail(q)[i] = q[i + 1]
<1>1. /\ Len(q) \in Nat /\ DOMAIN q = 1..Len(q)
      /\ \A i \in 1..Len(q) : q[i] \in Operation
  BY LenProperties, ElementOfSeq
<1>2. q = << >> <=> Len(q) = 0
  BY <1>1, EmptySeq
<1>3. ASSUME q # << >>
      PROVE  /\ Head(q) = q[1] /\ Head(q) \in Operation /\ Tail(q) \in Seq(Operation)
             /\ Len(Tail(q)) = Len(q) - 1 /\ 1 \in 1..Len(q)
             /\ \A i \in 1..Len(Tail(q)) : Tail(q)[i] = q[i + 1]
  <2>1. Head(q) = q[1] /\ 1 \in 1..Len(q)
    BY <1>1, <1>2, <1>3
  <2>. QED  BY <1>3, <2>1, HeadTailProperties
<1>. QED  BY <1>1, <1>2, <1>3

\* What an element of two queues put together is.
LEMMA ConcatFacts ==
    ASSUME NEW s \in Seq(Operation), NEW t \in Seq(Operation)
    PROVE  /\ s \o t \in Seq(Operation) /\ Len(s \o t) = Len(s) + Len(t)
           /\ DOMAIN (s \o t) = 1..(Len(s) + Len(t))
           /\ \A i \in 1..Len(s) : (s \o t)[i] = s[i]
           /\ \A i \in (Len(s) + 1)..(Len(s) + Len(t)) :
                 (s \o t)[i] = t[i - Len(s)] /\ i - Len(s) \in 1..Len(t)
<1>1. Len(s) \in Nat /\ Len(t) \in Nat
  BY QueueFacts
<1>2. /\ s \o t \in Seq(Operation) /\ Len(s \o t) = Len(s) + Len(t)
      /\ \A i \in 1..(Len(s) + Len(t)) : (s \o t)[i] =
                     IF i <= Len(s) THEN s[i] ELSE t[i - Len(s)]
  BY ConcatProperties
<1>3. DOMAIN (s \o t) = 1..(Len(s) + Len(t))
  BY <1>2, QueueFacts
<1>. HIDE DEF Operation
<1>4. \A i \in 1..Len(s) : (s \o t)[i] = s[i]
  BY <1>1, <1>2
<1>5. \A i \in (Len(s) + 1)..(Len(s) + Len(t)) :
         (s \o t)[i] = t[i - Len(s)] /\ i - Len(s) \in 1..Len(t)
  BY <1>1, <1>2
<1>. QED  BY <1>2, <1>3, <1>4, <1>5

\* The tail has what the queue has, except for its front.
LEMMA TailHas ==
    ASSUME NEW q \in Seq(Operation), q # << >>, NEW T
    PROVE  /\ Has(Tail(q), T) => Has(q, T)
           /\ Head(q).type \in T => Has(q, T)
           /\ Head(q).type \notin T => (Has(q, T) <=> Has(Tail(q), T))
           /\ Pending(Tail(q)) => Pending(q)
<1>1. /\ Len(q) \in Nat /\ DOMAIN q = 1..Len(q)
      /\ Head(q) = q[1] /\ Tail(q) \in Seq(Operation)
      /\ Len(Tail(q)) = Len(q) - 1 /\ 1 \in 1..Len(q)
      /\ \A i \in 1..Len(Tail(q)) : Tail(q)[i] = q[i + 1]
  BY QueueFacts
<1>2. DOMAIN Tail(q) = 1..(Len(q) - 1)
  BY <1>1, QueueFacts
<1>3. \A i \in DOMAIN Tail(q) : Tail(q)[i] = q[i + 1] /\ i + 1 \in DOMAIN q
  BY <1>1, <1>2
<1>4. \A i \in DOMAIN q : i = 1 \/ (i - 1 \in DOMAIN Tail(q) /\ Tail(q)[i - 1] = q[i])
  BY <1>1, <1>2
<1>5. Has(Tail(q), T) => Has(q, T)
  BY <1>3 DEF Has
<1>6. Head(q).type \in T => Has(q, T)
  BY <1>1 DEF Has
<1>7. Head(q).type \notin T => (Has(q, T) => Has(Tail(q), T))
  BY <1>1, <1>4 DEF Has
<1>8. Pending(Tail(q)) => Pending(q)
  BY <1>3 DEF Pending
<1>. QED  BY <1>5, <1>6, <1>7, <1>8

\* The queue stays in order when its front leaves it.
LEMMA TailOrdered ==
    ASSUME NEW q \in Seq(Operation), q # << >>, Ordered(q)
    PROVE  /\ Ordered(Tail(q))
           /\ ~Has(Tail(q), {"CREATE_CONFERENCE_CALL"})
           /\ Head(q).type = "SUBSCRIBE" => ~Has(Tail(q), {"SUBSCRIBE"})
           /\ Head(q).type = "NOTIFY_RESULT_TO_UI" => ~Has(Tail(q), Asking)
           /\ Head(q).type = "DESTROY_CONTROLLER" => ~Pending(Tail(q))
           /\ Head(q).type = "UNSUBSCRIBE" =>
                 ~Has(Tail(q), {"UNSUBSCRIBE"}) /\ ~Has(Tail(q), {"CHECK_CONNECTED"})
           /\ Head(q).type = "REFER_BYE" => ~Has(Tail(q), {"REFER_BYE"})
           /\ \A i \in DOMAIN Tail(q) : Turn(Head(q), Tail(q)[i])
           /\ StartsWithTerm(Tail(q)) =>
                 Head(q).type = "REFER_INVITE" /\ Head(q).user = Tail(q)[1].user
           /\ Head(q).type \in OfUser => Head(q).user \in Users
           /\ Head(q).delayed => Head(q).type = "UNSUBSCRIBE"
<1>. DEFINE t == Tail(q)
<1>1. /\ Len(q) \in Nat /\ DOMAIN q = 1..Len(q)
      /\ Head(q) = q[1] /\ t \in Seq(Operation)
      /\ Len(t) = Len(q) - 1 /\ 1 \in 1..Len(q)
      /\ \A i \in 1..Len(t) : t[i] = q[i + 1]
  BY QueueFacts
<1>2. DOMAIN t = 1..(Len(q) - 1) /\ (t # << >> => 1 \in DOMAIN t)
  BY <1>1, QueueFacts
<1>. HIDE DEF t
<1>3. \A i \in DOMAIN t : t[i] = q[i + 1] /\ i + 1 \in DOMAIN q /\ i + 1 > 1 /\ i \in Nat
  BY <1>1, <1>2
<1>4. WellMade(t)
  <2>. SUFFICES ASSUME NEW i \in DOMAIN t
                PROVE  /\ t[i].type \in OfUser => t[i].user \in Users
                       /\ t[i].delayed => t[i].type = "UNSUBSCRIBE"
                       /\ t[i].type = "CREATE_CONFERENCE_CALL" => i = 1
                       /\ t[i].type = "TERMINATE_1TO1_CALL" /\ i > 1 =>
                             t[i - 1].type = "REFER_INVITE" /\ t[i - 1].user = t[i].user
    BY DEF WellMade
  <2>1. t[i] = q[i + 1] /\ i + 1 \in DOMAIN q /\ i + 1 > 1 /\ i \in Nat /\ (i + 1) - 1 = i
    BY <1>3
  <2>2. i > 1 => t[i - 1] = q[i]
    BY <1>1, <1>2
  <2>. QED  BY <2>1, <2>2 DEF Ordered, WellMade
<1>5. InTurn(t)
  <2>. SUFFICES ASSUME NEW i \in DOMAIN t, NEW j \in DOMAIN t, i < j
                PROVE  Turn(t[i], t[j])
    BY DEF InTurn
  <2>1. /\ t[i] = q[i + 1] /\ i + 1 \in DOMAIN q /\ t[j] = q[j + 1] /\ j + 1 \in DOMAIN q
        /\ i + 1 < j + 1
    BY <1>1, <1>2
  <2>. QED  BY <2>1 DEF Ordered, InTurn
<1>6. \A j \in DOMAIN t : Turn(q[1], t[j]) /\ t[j].type # "CREATE_CONFERENCE_CALL"
  <2>1. 1 \in DOMAIN q
    BY <1>1
  <2>2. \A j \in DOMAIN t : t[j] = q[j + 1] /\ j + 1 \in DOMAIN q /\ 1 < j + 1 /\ j + 1 # 1
    BY <1>3
  <2>. QED  BY <2>1, <2>2 DEF Ordered, InTurn, WellMade
<1>7. StartsWithTerm(t) => q[1].type = "REFER_INVITE" /\ q[1].user = t[1].user
  <2>. SUFFICES ASSUME StartsWithTerm(t)
                PROVE  q[1].type = "REFER_INVITE" /\ q[1].user = t[1].user
    OBVIOUS
  <2>1. t[1] = q[2] /\ 2 \in DOMAIN q
    BY <1>2, <1>3 DEF StartsWithTerm
  <2>2. 2 > 1 /\ 2 - 1 = 1
    OBVIOUS
  <2>. QED  BY <2>1, <2>2 DEF StartsWithTerm, Ordered, WellMade
<1>8. /\ Head(q).type \in OfUser => Head(q).user \in Users
      /\ Head(q).delayed => Head(q).type = "UNSUBSCRIBE"
  BY <1>1 DEF Ordered, WellMade
<1>9. /\ q[1].type = "SUBSCRIBE" => ~Has(t, {"SUBSCRIBE"})
      /\ q[1].type = "NOTIFY_RESULT_TO_UI" => ~Has(t, Asking)
      /\ q[1].type = "DESTROY_CONTROLLER" => ~Pending(t)
      /\ q[1].type = "UNSUBSCRIBE" => ~Has(t, {"UNSUBSCRIBE"}) /\ ~Has(t, {"CHECK_CONNECTED"})
      /\ q[1].type = "REFER_BYE" => ~Has(t, {"REFER_BYE"})
      /\ ~Has(t, {"CREATE_CONFERENCE_CALL"})
  BY <1>6 DEF Turn, Has, Pending
<1>. QED  BY <1>1, <1>4, <1>5, <1>6, <1>7, <1>8, <1>9 DEF Ordered, t

\* Two queues put together have what either has.
LEMMA ConcatHas ==
    ASSUME NEW s \in Seq(Operation), NEW t \in Seq(Operation), NEW T
    PROVE  /\ Has(s \o t, T) <=> (Has(s, T) \/ Has(t, T))
           /\ Pending(s \o t) <=> (Pending(s) \/ Pending(t))
<1>. DEFINE q == s \o t
<1>1. /\ Len(s) \in Nat /\ Len(t) \in Nat /\ DOMAIN s = 1..Len(s) /\ DOMAIN t = 1..Len(t)
  BY QueueFacts
<1>2. /\ DOMAIN q = 1..(Len(s) + Len(t))
      /\ \A i \in 1..Len(s) : q[i] = s[i]
      /\ \A i \in (Len(s) + 1)..(Len(s) + Len(t)) :
            q[i] = t[i - Len(s)] /\ i - Len(s) \in 1..Len(t)
  BY ConcatFacts
<1>. HIDE DEF q
<1>3. \A i \in DOMAIN q : \/ i \in DOMAIN s /\ q[i] = s[i]
                          \/ i - Len(s) \in DOMAIN t /\ q[i] = t[i - Len(s)]
  BY <1>1, <1>2
<1>4. \A i \in DOMAIN s : i \in DOMAIN q /\ q[i] = s[i]
  BY <1>1, <1>2
<1>5. \A i \in DOMAIN t : i + Len(s) \in DOMAIN q /\ q[i + Len(s)] = t[i]
  <2>. SUFFICES ASSUME NEW i \in DOMAIN t
                PROVE  i + Len(s) \in DOMAIN q /\ q[i + Len(s)] = t[i]
    OBVIOUS
  <2>1. i + Len(s) \in (Len(s) + 1)..(Len(s) + Len(t)) /\ (i + Len(s)) - Len(s) = i
    BY <1>1
  <2>2. q[i + Len(s)] = t[(i + Len(s)) - Len(s)]
    BY <1>2, <2>1
  <2>. QED  BY <1>1, <1>2, <2>1, <2>2
<1>6. Has(q, T) <=> (Has(s, T) \/ Has(t, T))
  BY <1>3, <1>4, <1>5 DEF Has
<1>7. Pending(q) <=> (Pending(s) \/ Pending(t))
  BY <1>3, <1>4, <1>5 DEF Pending
<1>. QED  BY <1>6, <1>7 DEF q

\* Two queues put together are in order if nothing in the second must come first.
LEMMA ConcatOrdered ==
    ASSUME NEW s \in Seq(Operation), NEW t \in Seq(Operation), Ordered(s), Ordered(t),
           ~Has(t, {"CREATE_CONFERENCE_CALL"}) \/ s = << >>,
           ~StartsWithTerm(t) \/ s = << >>,
           ~Has(s, {"SUBSCRIBE"}) \/ ~Has(t, {"SUBSCRIBE"}),
           ~Has(s, {"NOTIFY_RESULT_TO_UI"}) \/ ~Has(t, Asking),
           ~Has(s, {"DESTROY_CONTROLLER"}) \/ ~Pending(t),
           ~Has(s, {"UNSUBSCRIBE"}) \/ ~Has(t, {"UNSUBSCRIBE", "CHECK_CONNECTED"}),
           ~Has(s, {"REFER_BYE"}) \/ ~Has(t, {"REFER_BYE"}),
           Apart(s, t)
    PROVE  Ordered(s \o t)
<1>. DEFINE q == s \o t
<1>1. /\ Len(s) \in Nat /\ Len(t) \in Nat /\ DOMAIN s = 1..Len(s) /\ DOMAIN t = 1..Len(t)
      /\ s = << >> <=> Len(s) = 0
      /\ t # << >> => 1 \in DOMAIN t
  BY QueueFacts
<1>2. /\ DOMAIN q = 1..(Len(s) + Len(t))
      /\ \A i \in 1..Len(s) : q[i] = s[i]
      /\ \A i \in (Len(s) + 1)..(Len(s) + Len(t)) :
            q[i] = t[i - Len(s)] /\ i - Len(s) \in 1..Len(t)
  BY ConcatFacts
<1>. HIDE DEF q
<1>3. WellMade(q)
  <2>. SUFFICES ASSUME NEW i \in DOMAIN q
                PROVE  /\ q[i].type \in OfUser => q[i].user \in Users
                       /\ q[i].delayed => q[i].type = "UNSUBSCRIBE"
                       /\ q[i].type = "CREATE_CONFERENCE_CALL" => i = 1
                       /\ q[i].type = "TERMINATE_1TO1_CALL" /\ i > 1 =>
                             q[i - 1].type = "REFER_INVITE" /\ q[i - 1].user = q[i].user
    BY DEF WellMade
  <2>1. CASE i <= Len(s)
    <3>1. i \in DOMAIN s /\ q[i] = s[i] /\ (i > 1 => q[i - 1] = s[i - 1])
      BY <1>1, <1>2, <2>1
    <3>. QED  BY <3>1 DEF Ordered, WellMade
  <2>2. CASE i > Len(s)
    <3>. DEFINE j == i - Len(s)
    <3>1. j \in DOMAIN t /\ q[i] = t[j] /\ (j > 1 => q[i - 1] = t[j - 1])
      <4>1. i \in (Len(s) + 1)..(Len(s) + Len(t))
        BY <1>1, <1>2, <2>2
      <4>2. q[i] = t[j] /\ j \in 1..Len(t)
        BY <1>2, <4>1
      <4>3. j > 1 => i - 1 \in (Len(s) + 1)..(Len(s) + Len(t)) /\ (i - 1) - Len(s) = j - 1
        BY <1>1, <4>1, <4>2
      <4>4. j > 1 => q[i - 1] = t[(i - 1) - Len(s)]
        BY <1>2, <4>3
      <4>. QED  BY <1>1, <4>2, <4>3, <4>4
    <3>2. t[j].type = "CREATE_CONFERENCE_CALL" => i = 1
      <4>1. t[j].type = "CREATE_CONFERENCE_CALL" => s = << >> /\ j = 1
        BY <3>1 DEF Has, Ordered, WellMade
      <4>. QED  BY <1>1, <1>2, <4>1
    <3>3. t[j].type = "TERMINATE_1TO1_CALL" /\ i > 1 => j > 1
      <4>1. j = 1 /\ t[j].type = "TERMINATE_1TO1_CALL" => s = << >>
        BY <1>1, <3>1 DEF StartsWithTerm
      <4>2. j >= 1 /\ (s = << >> => i = j)
        BY <1>1, <1>2, <3>1
      <4>. QED  BY <1>1, <1>2, <3>1, <4>1, <4>2
    <3>. HIDE DEF j
    <3>. QED  BY <3>1, <3>2, <3>3 DEF Ordered, WellMade
  <2>. QED  BY <1>1, <1>2, <2>1, <2>2
<1>4. InTurn(q)
  <2>. SUFFICES ASSUME NEW i \in DOMAIN q, NEW j \in DOMAIN q, i < j
                PROVE  Turn(q[i], q[j])
    BY DEF InTurn
  <2>1. CASE j <= Len(s)
    <3>1. i \in DOMAIN s /\ q[i] = s[i] /\ j \in DOMAIN s /\ q[j] = s[j]
      BY <1>1, <1>2, <2>1
    <3>. QED  BY <3>1 DEF Ordered, InTurn
  <2>2. CASE i > Len(s)
    <3>. DEFINE k == i - Len(s)
                l == j - Len(s)
    <3>1. k \in DOMAIN t /\ q[i] = t[k] /\ l \in DOMAIN t /\ q[j] = t[l] /\ k < l
      BY <1>1, <1>2, <2>2
    <3>. HIDE DEF k, l
    <3>. QED  BY <3>1 DEF Ordered, InTurn
  <2>3. CASE i <= Len(s) /\ j > Len(s)
    <3>. DEFINE l == j - Len(s)
    <3>1. i \in DOMAIN s /\ q[i] = s[i] /\ l \in DOMAIN t /\ q[j] = t[l]
      BY <1>1, <1>2, <2>3
    <3>. HIDE DEF l
    <3>. QED  BY <3>1 DEF Has, Pending, Apart, Turn
  <2>. QED  BY <1>1, <1>2, <2>1, <2>2, <2>3
<1>. QED  BY <1>3, <1>4 DEF Ordered, q

-----------------------------------------------------------------------------
(***************************************************************************)
(* Operations that follow one another.  The rank of a queue is the number of   *)
(* operations in front that are over at once; what they put at the end of the   *)
(* queue lasts, so each of them lowers the rank and DoNextOperation ends.        *)
(***************************************************************************)
Follows(o) == ~o.delayed /\ o.type \in Immediate
Stop(q, n) == n = Len(q) \/ ~Follows(q[n + 1])
Stops(q) == {n \in 0..Len(q) : Stop(q, n)}
Rank(q) == CHOOSE n \in Stops(q) : \A m \in Stops(q) : n <= m

\* The rank of a queue is the place of the first operation that is not over at once.
LEMMA RankFacts ==
    ASSUME NEW q \in Seq(Operation)
    PROVE  Rank(q) \in Stops(q) /\ Rank(q) \in Nat /\ \A m \in Stops(q) : Rank(q) <= m
<1>1. Len(q) \in Nat
  BY QueueFacts
<1>2. Len(q) \in Stops(q) /\ Stops(q) \in SUBSET Nat
  BY <1>1 DEF Stops, Stop
<1>3. \E n \in Stops(q) : \A m \in Stops(q) : n <= m
  BY <1>2, Least
<1>. QED  BY <1>2, <1>3 DEF Rank

\* An ending has no operation that is over at once.
LEMMA EndingFacts ==
    ASSUME NEW ext \in Endings
    PROVE  /\ ext \in Seq(Operation) /\ Ordered(ext) /\ ~StartsWithTerm(ext)
           /\ \A i \in DOMAIN ext : ext[i].type \in Closing /\ ~Follows(ext[i])
           /\ \A T : T \cap Closing = {} => ~Has(ext, T)
<1>. DEFINE v == Delayed("UNSUBSCRIBE")
            w == Op("DESTROY_CONTROLLER", NoUser)
<1>1. /\ v.type = "UNSUBSCRIBE" /\ v.delayed
      /\ w.type = "DESTROY_CONTROLLER" /\ ~w.delayed
  BY OpTypes DEF Lasting
<1>. HIDE DEF v, w
<1>2. ext \in {<< >>, <<w>>, <<v>>, <<v, w>>}
  BY EndingTypes DEF Endings, Destroy, Unsubscribe, v, w
<1>3. /\ \A i \in DOMAIN ext : i \in {1, 2} /\ ext[i] \in {v, w}
      /\ \A i, j \in DOMAIN ext : i < j => ext[i] = v /\ ext[j] = w
  BY <1>2
<1>4. \A i \in DOMAIN ext : ext[i].type \in Closing /\ ~Follows(ext[i])
  BY <1>1, <1>3 DEF Closing, Follows, Immediate
<1>5. WellMade(ext)
  BY <1>1, <1>3 DEF WellMade, OfUser
<1>6. InTurn(ext)
  BY <1>1, <1>3 DEF InTurn, Turn
<1>7. ~StartsWithTerm(ext)
  <2>1. ext # << >> => 1 \in DOMAIN ext
    BY <1>2
  <2>. QED  BY <2>1, <1>4 DEF StartsWithTerm, Closing
<1>8. \A T : T \cap Closing = {} => ~Has(ext, T)
  BY <1>4 DEF Has
<1>. QED  BY <1>4, <1>5, <1>6, <1>7, <1>8, EndingTypes DEF Ordered

\* The tail of two queues put together.
LEMMA TailOfConcat ==
    ASSUME NEW s \in Seq(Operation), NEW t \in Seq(Operation), s # << >>
    PROVE  s \o t # << >> /\ Tail(s \o t) = Tail(s) \o t
<1>. DEFINE q == s \o t
            l == Tail(s) \o t
<1>1. /\ Len(s) \in Nat /\ Len(t) \in Nat /\ Len(s) # 0
      /\ Tail(s) \in Seq(Operation) /\ Len(Tail(s)) = Len(s) - 1
      /\ \A i \in 1..Len(Tail(s)) : Tail(s)[i] = s[i + 1]
  BY QueueFacts
<1>2. /\ q \in Seq(Operation) /\ Len(q) = Len(s) + Len(t)
      /\ \A i \in 1..Len(s) : q[i] = s[i]
      /\ \A i \in (Len(s) + 1)..(Len(s) + Len(t)) : q[i] = t[i - Len(s)]
  BY ConcatFacts
<1>3. /\ l \in Seq(Operation) /\ Len(l) = Len(Tail(s)) + Len(t)
      /\ \A i \in 1..Len(Tail(s)) : l[i] = Tail(s)[i]
      /\ \A i \in (Len(Tail(s)) + 1)..(Len(Tail(s)) + Len(t)) : l[i] = t[i - Len(Tail(s))]
  BY <1>1, ConcatFacts
<1>. HIDE DEF q, l
<1>4. q # << >>
  BY <1>1, <1>2, QueueFacts
<1>5. /\ Tail(q) \in Seq(Operation) /\ Len(Tail(q)) = Len(q) - 1
      /\ \A i \in 1..Len(Tail(q)) : Tail(q)[i] = q[i + 1]
  BY <1>2, <1>4, QueueFacts
<1>6. ASSUME NEW i \in 1..Len(Tail(q))
      PROVE  Tail(q)[i] = l[i]
  <2>1. Tail(q)[i] = q[i + 1] /\ i \in Nat
    BY <1>5
  <2>2. CASE i <= Len(s) - 1
    BY <1>1, <1>2, <1>3, <2>1, <2>2
  <2>3. CASE i > Len(s) - 1
    <3>1. i + 1 \in (Len(s) + 1)..(Len(s) + Len(t)) /\ (i + 1) - Len(s) = i - (Len(s) - 1)
      BY <1>1, <1>2, <1>5, <2>1, <2>3
    <3>2. i \in ((Len(s) - 1) + 1)..((Len(s) - 1) + Len(t))
      BY <1>1, <1>2, <1>5, <2>1, <2>3
    <3>3. q[i + 1] = t[(i + 1) - Len(s)]
      BY <1>2, <3>1
    <3>4. l[i] = t[i - (Len(s) - 1)]
      BY <1>1, <1>3, <3>2
    <3>. QED  BY <2>1, <3>1, <3>3, <3>4
  <2>. QED  BY <1>1, <2>1, <2>2, <2>3
<1>7. Len(Tail(q)) = Len(l)
  BY <1>1, <1>2, <1>3, <1>5
<1>. QED  BY <1>3, <1>4, <1>5, <1>6, <1>7, SeqEqual DEF q, l

\* Each operation that is over at once leaves the queue, and endings may come.
LEMMA RankFalls ==
    ASSUME NEW q \in Seq(Operation), q # << >>, Follows(Head(q)), NEW ext \in Endings
    PROVE  Rank(Tail(q) \o ext) < Rank(q)
<1>. DEFINE t == Tail(q) \o ext
            n == Rank(q)
<1>1. /\ Len(q) \in Nat /\ Len(q) # 0 /\ Head(q) = q[1]
      /\ Tail(q) \in Seq(Operation) /\ Len(Tail(q)) = Len(q) - 1
      /\ \A i \in 1..Len(Tail(q)) : Tail(q)[i] = q[i + 1]
  BY QueueFacts
<1>2. /\ ext \in Seq(Operation) /\ Len(ext) \in Nat
      /\ \A i \in 1..Len(ext) : ~Follows(ext[i])
  BY EndingFacts, QueueFacts
<1>3. /\ t \in Seq(Operation) /\ Len(t) = Len(Tail(q)) + Len(ext)
      /\ \A i \in 1..Len(Tail(q)) : t[i] = Tail(q)[i]
      /\ \A i \in (Len(Tail(q)) + 1)..(Len(Tail(q)) + Len(ext)) :
            t[i] = ext[i - Len(Tail(q))] /\ i - Len(Tail(q)) \in 1..Len(ext)
  BY <1>1, <1>2, ConcatFacts
<1>4. n \in 0..Len(q) /\ Stop(q, n)
  BY RankFacts DEF Stops
<1>. HIDE DEF t, n
<1>5. n # 0
  <2>1. 0 + 1 = 1
    OBVIOUS
  <2>. QED  BY <1>1, <1>4, <2>1 DEF Stop
<1>6. n - 1 \in 0..Len(t) /\ n \in Nat
  BY <1>1, <1>2, <1>3, <1>4, <1>5
<1>7. Stop(t, n - 1)
  <2>0. (n - 1) + 1 = n
    BY <1>6
  <2>1. CASE n = Len(q)
    <3>1. CASE Len(ext) = 0
      BY <1>1, <1>3, <2>1, <3>1 DEF Stop
    <3>2. CASE Len(ext) # 0
      <4>1. n \in (Len(Tail(q)) + 1)..(Len(Tail(q)) + Len(ext))
        BY <1>1, <1>2, <2>1, <3>2
      <4>2. ~Follows(t[n])
        BY <1>2, <1>3, <4>1
      <4>. QED  BY <2>0, <4>2 DEF Stop
    <3>. QED  BY <3>1, <3>2
  <2>2. CASE n # Len(q)
    <3>0. n \in 1..Len(Tail(q))
      <4>1. Len(Tail(q)) = Len(q) - 1 /\ Len(q) \in Nat /\ n \in 0..Len(q)
        BY <1>1, <1>4
      <4>2. n # 0 /\ n # Len(q)
        BY <1>5, <2>2
      <4>. DEFINE k == Len(q)
                  l == Len(Tail(q))
      <4>3. l = k - 1 /\ k \in Nat /\ n \in 0..k /\ n # 0 /\ n # k
        BY <4>1, <4>2
      <4>. HIDE DEF k, l
      <4>4. n \in 1..l
        BY <4>3
      <4>. QED  BY <4>4 DEF l
    <3>1. t[n] = q[n + 1]
      BY <1>1, <1>3, <3>0
    <3>2. ~Follows(t[n])
      BY <1>4, <2>2, <3>1 DEF Stop
    <3>. QED  BY <2>0, <3>2 DEF Stop
  <2>. QED  BY <2>1, <2>2
<1>8. n - 1 \in Stops(t)
  BY <1>6, <1>7 DEF Stops
<1>9. Rank(t) \in Nat /\ Rank(t) <= n - 1
  BY <1>3, <1>8, RankFacts
<1>. QED  BY <1>6, <1>9 DEF t, n

\* An operation that is over at once ends in a world with its types.
LEMMA FollowingTypes ==
    ASSUME NEW x \in WorldType, x.c.queue # << >>, Follows(Head(x.c.queue))
    PROVE  LET y == Started(x, Head(x.c.queue))
           IN  /\ y \in WorldType /\ ~y.c.delay
               /\ \E ext \in Endings : y.c.queue = Tail(x.c.queue) \o ext
<1>. DEFINE o == Head(x.c.queue)
            q == x.c.queue
            y == Started(x, o)
<1>1. x.c \in ControllerType /\ q \in Seq(Operation)
  BY WorldFields, ControllerFields
<1>2. o \in Operation /\ Tail(q) \in Seq(Operation) /\ Tail(q) \o << >> = Tail(q)
  BY <1>1, QueueFacts, ConcatEmptySeq
<1>3. o.type \in Immediate /\ o.user \in Users \cup {NoUser} /\ << >> \in Endings
  BY <1>2 DEF Follows, Operation, Endings
<1>. HIDE DEF o
<1>4. CASE o.type = "NOTIFY_RESULT_TO_UI"
  <2>1. y = With(x, NotifyCmdResult(x.c))
    BY <1>4 DEF Started, With
  <2>2. /\ NotifyCmdResult(x.c) \in ControllerType
        /\ NotifyCmdResult(x.c).queue = Tail(q) /\ ~NotifyCmdResult(x.c).delay
    BY <1>1, NotifyCmdResultFacts
  <2>3. y \in WorldType /\ y.c = NotifyCmdResult(x.c)
    BY <2>1, <2>2, WorldFields
  <2>. HIDE DEF y, q
  <2>. QED  BY <1>2, <1>3, <2>2, <2>3 DEF y, q, o
<1>5. CASE o.type = "NOTIFY_RESULT_TO_MTCCALL"
  <2>1. y = With(x, Popped(x.c))
    BY <1>5 DEF Started, With
  <2>2. /\ Popped(x.c) \in ControllerType
        /\ Popped(x.c).queue = Tail(q) /\ ~Popped(x.c).delay
    BY <1>1, PoppedFacts
  <2>3. y \in WorldType /\ y.c = Popped(x.c)
    BY <2>1, <2>2, WorldFields
  <2>. HIDE DEF y, q
  <2>. QED  BY <1>2, <1>3, <2>2, <2>3 DEF y, q, o
<1>6. CASE o.type = "TERMINATE_1TO1_CALL"
  <2>1. y = TerminateIndividualCall(x, o.user)
    BY <1>6 DEF Started
  <2>2. y \in WorldType /\ y.c.queue = Tail(q) /\ ~y.c.delay
    BY <1>3, <2>1, IndividualCallFacts
  <2>. HIDE DEF y, q
  <2>. QED  BY <1>2, <1>3, <2>2 DEF y, q, o
<1>7. CASE o.type = "TERMINATE_CONFERENCE"
  <2>. DEFINE d == ConferenceOver(x.c)
  <2>1. y = TerminateConference(x)
    BY <1>7 DEF Started
  <2>2. /\ y \in WorldType /\ ~y.c.delay
        /\ x.conf = "ENDED" => y.c.queue = Tail(q)
        /\ x.conf # "ENDED" => y.c.queue = Tail(d.queue)
    BY <2>1, TerminateConferenceFacts
  <2>3. \E ext \in Endings : d.queue = q \o ext
    <3>1. q \o << >> = q
      BY <1>1, ConcatEmptySeq
    <3>. QED  BY <1>1, <3>1, ConferenceOverFacts DEF Endings, SameQueue
  <2>4. PICK ext \in Endings : d.queue = q \o ext
    BY <2>3
  <2>. HIDE DEF d, y
  <2>5. Tail(d.queue) = Tail(q) \o ext
    BY <1>1, <2>4, TailOfConcat, EndingTypes
  <2>. HIDE DEF q
  <2>. QED  BY <1>2, <1>3, <2>2, <2>5 DEF y, q, o
<1>. QED  BY <1>3, <1>4, <1>5, <1>6, <1>7 DEF Immediate

\* DoNextOperation does what its definition says: the recursion is well-founded.
LEMMA DoNextOperationUnfolds ==
    ASSUME NEW x \in WorldType
    PROVE  DoNextOperation[x] =
              IF x.c.queue = << >> THEN x
              ELSE IF Head(x.c.queue).delayed THEN With(x, DelaySet(x.c))
              ELSE IF Follows(Head(x.c.queue))
                   THEN DoNextOperation[Started(x, Head(x.c.queue))]
              ELSE Started(x, Head(x.c.queue))
<1>. DEFINE E == {y \in WorldType : y.c.queue # << >> /\ Follows(Head(y.c.queue))}
            h == [y \in WorldType |-> IF y \in E THEN Started(y, Head(y.c.queue)) ELSE y]
            End(y) == IF y.c.queue = << >> THEN y
                      ELSE IF Head(y.c.queue).delayed THEN [y EXCEPT !.c.delay = TRUE]
                      ELSE Started(y, Head(y.c.queue))
            b == [y \in WorldType |-> End(y)]
            V == {End(y) : y \in WorldType}
            rank == [y \in WorldType |-> Rank(y.c.queue)]
            F(f) == [y \in WorldType |->
                        IF y.c.queue = << >> THEN y
                        ELSE LET o == Head(y.c.queue)
                             IN  IF o.delayed THEN [y EXCEPT !.c.delay = TRUE]
                                 ELSE IF o.type \in Immediate THEN f[Started(y, o)]
                                 ELSE Started(y, o)]
<1>1. \A y \in WorldType : y.c.queue \in Seq(Operation)
  BY WorldFields, ControllerFields
<1>2. rank \in [WorldType -> Nat]
  BY <1>1, RankFacts
<1>3. \A y \in E : h[y] \in WorldType /\ rank[h[y]] < rank[y]
  <2>. SUFFICES ASSUME NEW y \in E
                PROVE  h[y] \in WorldType /\ rank[h[y]] < rank[y]
    OBVIOUS
  <2>1. y \in WorldType /\ y.c.queue # << >> /\ Follows(Head(y.c.queue))
    OBVIOUS
  <2>2. h[y] = Started(y, Head(y.c.queue))
    OBVIOUS
  <2>3. /\ h[y] \in WorldType
        /\ \E ext \in Endings : h[y].c.queue = Tail(y.c.queue) \o ext
    BY <2>1, <2>2, FollowingTypes
  <2>. HIDE DEF h, E
  <2>4. Rank(h[y].c.queue) < Rank(y.c.queue)
    BY <1>1, <2>1, <2>3, RankFalls
  <2>. QED  BY <2>1, <2>3, <2>4
<1>4. h \in [WorldType -> WorldType]
  <2>. HIDE DEF E
  <2>1. h = [y \in WorldType |-> h[y]]
    OBVIOUS
  <2>2. \A y \in WorldType : h[y] \in WorldType
    BY <1>3
  <2>. HIDE DEF h
  <2>. QED  BY <2>1, <2>2
<1>5. b \in [WorldType -> V]
  <2>. HIDE DEF End
  <2>. QED  OBVIOUS
<1>6. \E f : f = [y \in WorldType |-> IF y \in E THEN f[h[y]] ELSE b[y]]
  <2>1. E \in SUBSET WorldType
    OBVIOUS
  <2>. HIDE DEF E, h, b, V, rank
  <2>2. \A y \in E : rank[h[y]] < rank[y]
    BY <1>3
  <2>3. PICK f \in [WorldType -> V] :
            \A y \in WorldType : f[y] = IF y \in E THEN f[h[y]] ELSE b[y]
    <3>1. EndsByRank(WorldType, E, h, V, b, rank)
      BY <1>2, <1>4, <1>5, <2>1, <2>2 DEF EndsByRank
    <3>. QED  BY <3>1, TailRecursion
  <2>4. f = [y \in WorldType |-> IF y \in E THEN f[h[y]] ELSE b[y]]
    BY <2>3
  <2>. QED  BY <2>4, Zenon
<1>7. \A f : F(f) = [y \in WorldType |-> IF y \in E THEN f[h[y]] ELSE b[y]]
  <2>. SUFFICES ASSUME NEW f, NEW y \in WorldType
                PROVE  (IF y.c.queue = << >> THEN y
                        ELSE LET o == Head(y.c.queue)
                             IN  IF o.delayed THEN [y EXCEPT !.c.delay = TRUE]
                                 ELSE IF o.type \in Immediate THEN f[Started(y, o)]
                                 ELSE Started(y, o))
                       = IF y \in E THEN f[h[y]] ELSE b[y]
    BY Zenon
  <2>. DEFINE o == Head(y.c.queue)
              s == Started(y, o)
              d == [y EXCEPT !.c.delay = TRUE]
  <2>1. y \in E <=> (y.c.queue # << >> /\ ~o.delayed /\ o.type \in Immediate)
    BY DEF Follows
  <2>2. b[y] = IF y.c.queue = << >> THEN y ELSE IF o.delayed THEN d ELSE s
    OBVIOUS
  <2>3. y \in E => h[y] = s
    OBVIOUS
  <2>. HIDE DEF o, s, d, E, h, b
  <2>4. (IF y.c.queue = << >> THEN y ELSE IF o.delayed THEN d
           ELSE IF o.type \in Immediate THEN f[s] ELSE s)
        = IF y \in E THEN f[h[y]] ELSE b[y]
    BY <2>1, <2>2, <2>3
  <2>. QED  BY <2>4 DEF o, s, d
<1>8. \E f : f = F(f)
  <2>. HIDE DEF F
  <2>. QED  BY <1>6, <1>7
<1>9. DoNextOperation = F(DoNextOperation)
  <2>1. DoNextOperation = CHOOSE f : f = F(f)
    BY DEF DoNextOperation
  <2>. HIDE DEF F
  <2>. QED  BY <1>8, <2>1
<1>10. DoNextOperation[x] =
          IF x.c.queue = << >> THEN x
          ELSE LET o == Head(x.c.queue)
               IN  IF o.delayed THEN [x EXCEPT !.c.delay = TRUE]
                   ELSE IF o.type \in Immediate THEN DoNextOperation[Started(x, o)]
                   ELSE Started(x, o)
  BY <1>9, Zenon
<1>11. [x EXCEPT !.c.delay = TRUE] = With(x, DelaySet(x.c))
  BY DEF With, DelaySet, WorldType, ControllerType
<1>. HIDE DEF E, h, b, V, rank, F
<1>. QED  BY <1>10, <1>11 DEF Follows

-----------------------------------------------------------------------------
(***************************************************************************)
(* A world fits when its queue is in order and agrees with the rest: a result  *)
(* is still owed (open) while the queue asks for one, the conference has ended    *)
(* when something is to close the controller, and the subscription is what the    *)
(* queue takes it for, unless it was lost.                                    *)
(***************************************************************************)
QueueFits(q, open, sub, cf, state) ==
    /\ Ordered(q)
    /\ Has(q, Asking) => open
    /\ Has(q, Closing) => cf = "ENDED"
    /\ Has(q, {"CHECK_CONNECTED"}) => flow = "notify_refer"
    /\ state = "CREATED" => q = << >> /\ sub = "none"
    /\ state = "IDLE" => ~Has(q, Asking)
    /\ state = "JOINING" => ~Has(q, {"TERMINATE_1TO1_CALL"})
    /\ q # << >> => (Has(Tail(q), {"SUBSCRIBE"}) => sub = "none")

\* The operations of q, which are yet to be started, find what they need.
Coming(c, q) ==
    /\ Has(q, {"UNSUBSCRIBE"}) => c.lost \/ c.sub \in {"SUBSCRIBING", "ACTIVE"}
    /\ \A i \in DOMAIN q :
          q[i].type = "REFER_INVITE" => c.refs[q[i].user]["invite"] = "none"

\* Where SUBSCRIBE comes before REFER, all but the call of the conference comes after it.
Needing == {"REFER_INVITE", "REFER_BYE", "TERMINATE_1TO1_CALL", "NOTIFY_RESULT_TO_UI",
            "CHECK_CONNECTED"}
Early(c) == ~c.lost /\ c.sub = "none" /\ flow = "notify_refer"
Untried(c, q) ==
    /\ c.state \in {"CREATED", "MERGING"}
    /\ \A u \in Users, r \in References : c.refs[u][r] = "none"
    /\ \A i \in DOMAIN q : q[i].type \in Needing =>
          \E j \in DOMAIN q : j < i /\ q[j].type = "SUBSCRIBE"

\* The subscription and what the engine makes of it.
SubFits(c, q, cf) ==
    /\ c.sub = "none" => c.eng = "none"
    /\ ~c.lost =>
          /\ c.sub = "SUBSCRIBING" => c.eng \in {"CREATE", "REFRESH"}
          /\ c.sub = "ACTIVE" => c.eng = "ACTIVE"
          /\ c.sub \in {"UNSUBSCRIBING", "IDLE"} =>
                cf = "ENDED" /\ ~Has(q, {"CHECK_CONNECTED"})
    /\ Early(c) => Untried(c, q)

Fitting(x) ==
    /\ QueueFits(x.c.queue, x.c.open, x.c.sub, x.conf, x.c.state)
    /\ SubFits(x.c, x.c.queue, x.conf)
    /\ x.c.queue # << >> => Coming(x.c, Tail(x.c.queue))
    /\ x.c.twice => x.c.stale
    /\ LinksLive(x.c)

\* What is under way for the operation in front, as UnderWay says of ctl.
UnderWayIn(x, o) ==
    /\ o.delayed => x.c.delay /\ (x.c.lost \/ x.c.sub \in {"SUBSCRIBING", "ACTIVE"})
    /\ ~o.delayed =>
          /\ o.type \in Lasting \ {"DESTROY_CONTROLLER"}
          /\ o.type = "CREATE_CONFERENCE_CALL" => x.conf = "STARTING"
          /\ o.type = "SUBSCRIBE" =>
                /\ x.c.sub # "none"
                /\ \/ x.c.lost \/ x.c.sub = "SUBSCRIBING"
                   \/ flow = "notify_refer" /\ x.c.sub = "ACTIVE"
          /\ o.type = "UNSUBSCRIBE" =>
                x.c.lost \/ (x.c.sub = "UNSUBSCRIBING" /\ x.c.eng \in PendingRequests)
          /\ o.type = "REFER_INVITE" =>
                x.c.refs[o.user]["invite"] \in {"sent", "accepted", "silent"}
          /\ o.type = "REFER_BYE" => x.c.refs[o.user]["bye"] \in {"sent", "unsent"}
          /\ o.type = "CHECK_CONNECTED" => flow = "notify_refer"

Waits(x) ==
    /\ x.c.queue # << >> => UnderWayIn(x, Head(x.c.queue))
    /\ x.c.delay => x.c.queue # << >> /\ Head(x.c.queue).delayed

\* Before and after the operations that can be started have been.
Ready(x) ==
    /\ Fitting(x)
    /\ ~x.c.delay
    /\ Has(x.c.queue, {"SUBSCRIBE"}) => x.c.sub = "none"
    /\ Has(x.c.queue, {"CREATE_CONFERENCE_CALL"}) =>
          ~Has(x.c.queue, Closing) /\ x.conf # "ENDED"
    /\ Coming(x.c, x.c.queue)
Settled(x) ==
    /\ Fitting(x)
    /\ x.c.queue = << >> => ~x.c.delay
    /\ x.c.closed \/ Waits(x)

\* The operations of p are those of q, or close the controller.
From(p, q) ==
    \A i \in DOMAIN p : p[i].type \in Closing \/ \E j \in DOMAIN q : p[i] = q[j]
\* u has not been asked in and is not going to be.
Untouched(c, u) ==
    /\ c.refs[u]["invite"] = "none"
    /\ \A i \in DOMAIN c.queue :
          ~(c.queue[i].type = "REFER_INVITE" /\ c.queue[i].user = u)

\* What started operations never do.
Effect(x, y) ==
    /\ y \in WorldType
    /\ x.c.closed => y.c.closed
    /\ y.c.stale <=> x.c.stale
    /\ y.c.lost <=> x.c.lost
    /\ RefsKept(x.c, y.c) /\ NobodyJoins(x.c, y.c)
    /\ \A u \in Users : Untouched(x.c, u) => Untouched(y.c, u)
    /\ From(y.c.queue, x.c.queue)
    /\ x.c.sub # "none" => y.c.sub # "none"
    /\ x.c.eng = "none" /\ ~Has(x.c.queue, {"SUBSCRIBE"}) => y.c.eng = "none"

\* The REFER in front is a new one.
NewFront(x, y) ==
    \A u \in Users : x.c.refs[u]["invite"] # "none" =>
        ~(FrontIs(y.c, "REFER_INVITE") /\ Head(y.c.queue).user = u)

\* What is in the one queue is in the other.
LEMMA FromHas ==
    ASSUME NEW p, NEW q, From(p, q)
    PROVE  \A T : T \cap Closing = {} => (Has(p, T) => Has(q, T))
BY DEF From, Has

\* The tail is part of its queue.
LEMMA FromTail ==
    ASSUME NEW q \in Seq(Operation), q # << >>
    PROVE  From(Tail(q), q)
<1>1. /\ Len(q) \in Nat /\ DOMAIN q = 1..Len(q)
      /\ Tail(q) \in Seq(Operation) /\ Len(Tail(q)) = Len(q) - 1
      /\ \A i \in 1..Len(Tail(q)) : Tail(q)[i] = q[i + 1]
  BY QueueFacts
<1>2. DOMAIN Tail(q) = 1..Len(Tail(q))
  BY <1>1, QueueFacts
<1>. QED  BY <1>1, <1>2 DEF From

\* So is the tail with an ending.
LEMMA FromMore ==
    ASSUME NEW t \in Seq(Operation), NEW q, NEW ext \in Endings, From(t, q)
    PROVE  From(t \o ext, q)
<1>1. ext \in Seq(Operation) /\ \A i \in DOMAIN ext : ext[i].type \in Closing
  BY EndingFacts
<1>2. /\ Len(t) \in Nat /\ Len(ext) \in Nat
      /\ DOMAIN t = 1..Len(t) /\ DOMAIN ext = 1..Len(ext)
  BY <1>1, QueueFacts
<1>. DEFINE s == t \o ext
<1>3. /\ DOMAIN s = 1..(Len(t) + Len(ext))
      /\ \A i \in 1..Len(t) : s[i] = t[i]
      /\ \A i \in (Len(t) + 1)..(Len(t) + Len(ext)) :
            s[i] = ext[i - Len(t)] /\ i - Len(t) \in 1..Len(ext)
  BY <1>1, ConcatFacts
<1>. HIDE DEF s
<1>4. \A i \in DOMAIN s : \/ i \in DOMAIN t /\ s[i] = t[i]
                          \/ i - Len(t) \in DOMAIN ext /\ s[i] = ext[i - Len(t)]
  BY <1>2, <1>3
<1>. QED  BY <1>1, <1>4 DEF From, s

\* One effect after another is an effect.
LEMMA EffectTransitive ==
    ASSUME NEW x, NEW y, NEW z, Effect(x, y), Effect(y, z)
    PROVE  Effect(x, z)
<1>1. RefsKept(x.c, z.c) /\ NobodyJoins(x.c, z.c)
  BY DEF Effect, RefsKept, NobodyJoins
<1>2. From(z.c.queue, x.c.queue)
  BY DEF Effect, From
<1>3. ~Has(x.c.queue, {"SUBSCRIBE"}) => ~Has(y.c.queue, {"SUBSCRIBE"})
  BY FromHas DEF Effect, Closing
<1>. QED  BY <1>1, <1>2, <1>3 DEF Effect

\* Nobody is touched when nobody else is asked in.
LEMMA UntouchedKept ==
    ASSUME NEW c, NEW d, SameInvites(c, d, Users), From(d.queue, c.queue)
    PROVE  \A u \in Users : Untouched(c, u) => Untouched(d, u)
BY DEF Untouched, SameInvites, From, Closing

\* Nothing at all is an effect.
LEMMA SameEffect ==
    ASSUME NEW x \in WorldType, NEW y \in WorldType, x.c.closed => y.c.closed,
           y.c.stale <=> x.c.stale, SameUsers(x.c, y.c), SameEngine(x.c, y.c),
           From(y.c.queue, x.c.queue)
    PROVE  Effect(x, y) /\ (LinksLive(x.c) => LinksLive(y.c))
<1>1. RefsKept(x.c, y.c) /\ NobodyJoins(x.c, y.c) /\ (LinksLive(x.c) => LinksLive(y.c))
  BY DEF SameUsers, RefsKept, NobodyJoins, LinksLive, Linked
<1>2. \A u \in Users : Untouched(x.c, u) => Untouched(y.c, u)
  BY UntouchedKept DEF SameUsers, SameInvites
<1>. QED  BY <1>1, <1>2 DEF Effect, SameEngine

\* A queue is part of itself.
LEMMA FromSelf == \A q : From(q, q) /\ From(<< >>, q)
BY DEF From

\* The operations to come find the same.
LEMMA ComingKept ==
    ASSUME NEW c, NEW d, NEW q, Coming(c, q), WellMade(q), SameEngine(c, d),
           SameInvites(c, d, Users)
    PROVE  Coming(d, q)
<1>1. \A i \in DOMAIN q : q[i].type = "REFER_INVITE" => q[i].user \in Users
  BY DEF WellMade, OfUser
<1>. QED  BY <1>1 DEF Coming, SameEngine, SameInvites

\* Those behind the front are among them.
LEMMA ComingTail ==
    ASSUME NEW c, NEW q \in Seq(Operation), q # << >>, Coming(c, q)
    PROVE  Coming(c, Tail(q))
<1>1. Has(Tail(q), {"UNSUBSCRIBE"}) => Has(q, {"UNSUBSCRIBE"})
  BY TailHas
<1>2. From(Tail(q), q)
  BY FromTail
<1>. QED  BY <1>1, <1>2 DEF Coming, From, Closing

\* Others, which ask nobody in, come last.
LEMMA ComingMore ==
    ASSUME NEW c, NEW q \in Seq(Operation), NEW ext \in Seq(Operation), Coming(c, q),
           ~Has(ext, {"REFER_INVITE"}),
           Has(ext, {"UNSUBSCRIBE"}) => c.lost \/ c.sub \in {"SUBSCRIBING", "ACTIVE"}
    PROVE  Coming(c, q \o ext)
<1>. DEFINE s == q \o ext
<1>1. Has(s, {"UNSUBSCRIBE"}) <=> (Has(q, {"UNSUBSCRIBE"}) \/ Has(ext, {"UNSUBSCRIBE"}))
  BY ConcatHas
<1>2. /\ Len(q) \in Nat /\ Len(ext) \in Nat /\ DOMAIN q = 1..Len(q)
      /\ DOMAIN ext = 1..Len(ext)
      /\ DOMAIN s = 1..(Len(q) + Len(ext))
      /\ \A i \in 1..Len(q) : s[i] = q[i]
      /\ \A i \in (Len(q) + 1)..(Len(q) + Len(ext)) :
            s[i] = ext[i - Len(q)] /\ i - Len(q) \in 1..Len(ext)
  BY QueueFacts, ConcatFacts
<1>. HIDE DEF s
<1>3. \A i \in DOMAIN s : \/ i \in DOMAIN q /\ s[i] = q[i]
                          \/ i - Len(q) \in DOMAIN ext /\ s[i] = ext[i - Len(q)]
  BY <1>2
<1>. QED  BY <1>1, <1>3 DEF Coming, Has, s

\* Before SUBSCRIBE nothing that needs it is in front.
LEMMA UntriedTail ==
    ASSUME NEW c, NEW q \in Seq(Operation), q # << >>, Untried(c, q)
    PROVE  /\ Head(q).type \notin Needing
           /\ Head(q).type # "SUBSCRIBE" => Untried(c, Tail(q))
<1>. DEFINE t == Tail(q)
<1>1. /\ Len(q) \in Nat /\ DOMAIN q = 1..Len(q) /\ 1 \in DOMAIN q
      /\ Head(q) = q[1] /\ t \in Seq(Operation)
      /\ Len(t) = Len(q) - 1
      /\ \A i \in 1..Len(t) : t[i] = q[i + 1]
  BY QueueFacts
<1>2. DOMAIN t = 1..Len(t)
  BY <1>1, QueueFacts
<1>. HIDE DEF t
<1>3. Head(q).type \notin Needing
  BY <1>1 DEF Untried
<1>4. ASSUME Head(q).type # "SUBSCRIBE", NEW i \in DOMAIN t, t[i].type \in Needing
      PROVE  \E j \in DOMAIN t : j < i /\ t[j].type = "SUBSCRIBE"
  <2>1. i + 1 \in DOMAIN q /\ q[i + 1] = t[i]
    BY <1>1, <1>2
  <2>2. PICK j \in DOMAIN q : j < i + 1 /\ q[j].type = "SUBSCRIBE"
    BY <1>4, <2>1 DEF Untried
  <2>3. j # 1
    BY <1>1, <1>4, <2>2
  <2>4. j - 1 \in DOMAIN t /\ j - 1 < i /\ t[j - 1] = q[j]
    BY <1>1, <1>2, <2>2, <2>3
  <2>. QED  BY <2>2, <2>4
<1>. QED  BY <1>3, <1>4 DEF Untried, t

\* Others, which need no subscription, come last.
LEMMA UntriedMore ==
    ASSUME NEW c, NEW q \in Seq(Operation), NEW ext \in Seq(Operation), Untried(c, q),
           ~Has(ext, Needing)
    PROVE  Untried(c, q \o ext)
<1>. DEFINE s == q \o ext
<1>1. /\ Len(q) \in Nat /\ Len(ext) \in Nat /\ DOMAIN q = 1..Len(q)
      /\ DOMAIN ext = 1..Len(ext)
      /\ DOMAIN s = 1..(Len(q) + Len(ext))
      /\ \A i \in 1..Len(q) : s[i] = q[i]
      /\ \A i \in (Len(q) + 1)..(Len(q) + Len(ext)) :
            s[i] = ext[i - Len(q)] /\ i - Len(q) \in 1..Len(ext)
  BY QueueFacts, ConcatFacts
<1>. HIDE DEF s
<1>2. ASSUME NEW i \in DOMAIN s, s[i].type \in Needing
      PROVE  \E j \in DOMAIN s : j < i /\ s[j].type = "SUBSCRIBE"
  <2>1. i \in DOMAIN q /\ s[i] = q[i]
    <3>1. \/ i \in DOMAIN q /\ s[i] = q[i]
          \/ i - Len(q) \in DOMAIN ext /\ s[i] = ext[i - Len(q)]
      BY <1>1
    <3>. QED  BY <1>2, <3>1 DEF Has
  <2>2. PICK j \in DOMAIN q : j < i /\ q[j].type = "SUBSCRIBE"
    BY <1>2, <2>1 DEF Untried
  <2>. QED  BY <1>1, <2>2
<1>. QED  BY <1>2 DEF Untried, s

\* The subscription still fits when it is the same and nothing is added that needs it.
LEMMA SubFitsKept ==
    ASSUME NEW c, NEW d, NEW q, NEW p, NEW cf, NEW cg, SubFits(c, q, cf), SameEngine(c, d),
           Has(p, {"CHECK_CONNECTED"}) => Has(q, {"CHECK_CONNECTED"}),
           cf = "ENDED" => cg = "ENDED",
           Early(c) => Untried(d, p)
    PROVE  SubFits(d, p, cg)
BY DEF SubFits, SameEngine, Early

\* The operation in front leaves the queue.
LEMMA FitsWithoutFront ==
    ASSUME NEW q \in Seq(Operation), NEW open, NEW sub, NEW cf, NEW state,
           q # << >>, QueueFits(q, open, sub, cf, state)
    PROVE  /\ QueueFits(Tail(q), open, sub, cf, state)
           /\ state # "CREATED"
           /\ Has(Tail(q), {"SUBSCRIBE"}) => sub = "none"
           /\ ~Has(Tail(q), {"CREATE_CONFERENCE_CALL"})
<1>. DEFINE t == Tail(q)
<1>1. t \in Seq(Operation) /\ Ordered(t) /\ ~Has(t, {"CREATE_CONFERENCE_CALL"})
  BY QueueFacts, TailOrdered DEF QueueFits
<1>2. /\ Has(t, Asking) => Has(q, Asking)
      /\ Has(t, Closing) => Has(q, Closing)
      /\ Has(t, {"CHECK_CONNECTED"}) => Has(q, {"CHECK_CONNECTED"})
      /\ Has(t, {"TERMINATE_1TO1_CALL"}) => Has(q, {"TERMINATE_1TO1_CALL"})
  BY TailHas
<1>3. Has(t, {"SUBSCRIBE"}) => sub = "none"
  BY DEF QueueFits
<1>. HIDE DEF t
<1>4. t # << >> /\ Has(Tail(t), {"SUBSCRIBE"}) => Has(t, {"SUBSCRIBE"})
  BY <1>1, TailHas
<1>5. QueueFits(t, open, sub, cf, state) /\ state # "CREATED"
  BY <1>1, <1>2, <1>3, <1>4 DEF QueueFits
<1>. QED  BY <1>1, <1>3, <1>5 DEF t

\* Operations that ask for nothing, and begin nothing, come last.
LEMMA FitsWithMore ==
    ASSUME NEW q \in Seq(Operation), NEW open, NEW sub, NEW cf, NEW state,
           NEW ext \in Seq(Operation), QueueFits(q, open, sub, cf, state), Ordered(ext),
           \A T : T \cap (Closing \cup {"TERMINATE_CONFERENCE"}) = {} => ~Has(ext, T),
           ext # << >> => state # "CREATED",
           Has(ext, Closing) => cf = "ENDED",
           Has(ext, {"UNSUBSCRIBE"}) => ~Has(q, {"UNSUBSCRIBE"}),
           Pending(ext) => ~Has(q, {"DESTROY_CONTROLLER"})
    PROVE  QueueFits(q \o ext, open, sub, cf, state)
<1>. DEFINE s == q \o ext
<1>1. /\ ~Has(ext, Asking) /\ ~Has(ext, {"CREATE_CONFERENCE_CALL"})
      /\ ~Has(ext, {"CHECK_CONNECTED"}) /\ ~Has(ext, {"TERMINATE_1TO1_CALL"})
      /\ ~Has(ext, {"SUBSCRIBE"}) /\ ~Has(ext, {"REFER_BYE"})
      /\ ~Has(ext, {"REFER_INVITE"})
  BY DEF Asking, Closing
<1>1a. Has(ext, {"UNSUBSCRIBE", "CHECK_CONNECTED"}) => Has(ext, {"UNSUBSCRIBE"})
  BY <1>1 DEF Has
<1>1b. Apart(q, ext)
  BY <1>1 DEF Apart, Has
<1>2. ~StartsWithTerm(ext)
  <2>1. ext # << >> => 1 \in DOMAIN ext
    BY QueueFacts
  <2>. QED  BY <1>1, <2>1 DEF StartsWithTerm, Has
<1>3. Ordered(s)
  BY <1>1, <1>1a, <1>1b, <1>2, ConcatOrdered DEF QueueFits
<1>4. /\ Has(s, Asking) => Has(q, Asking)
      /\ Has(s, {"CHECK_CONNECTED"}) => Has(q, {"CHECK_CONNECTED"})
      /\ Has(s, {"TERMINATE_1TO1_CALL"}) => Has(q, {"TERMINATE_1TO1_CALL"})
      /\ Has(s, Closing) => Has(q, Closing) \/ Has(ext, Closing)
  BY <1>1, ConcatHas
<1>5. s # << >> /\ Has(Tail(s), {"SUBSCRIBE"}) => q # << >> /\ Has(Tail(q), {"SUBSCRIBE"})
  <2>1. CASE q = << >>
    <3>1. s = ext
      BY <2>1, ConcatEmptySeq
    <3>. HIDE DEF s
    <3>2. s # << >> => ~Has(Tail(s), {"SUBSCRIBE"})
      BY <1>1, <3>1, TailHas
    <3>. QED  BY <3>2
  <2>2. CASE q # << >>
    <3>1. Tail(s) = Tail(q) \o ext /\ Tail(q) \in Seq(Operation)
      BY <2>2, TailOfConcat, QueueFacts
    <3>. HIDE DEF s
    <3>. DEFINE t == Tail(q)
    <3>2. Tail(s) = t \o ext /\ t \in Seq(Operation)
      BY <3>1
    <3>. HIDE DEF t
    <3>3. Has(t \o ext, {"SUBSCRIBE"}) <=> (Has(t, {"SUBSCRIBE"}) \/ Has(ext, {"SUBSCRIBE"}))
      BY <3>2, ConcatHas
    <3>4. Has(Tail(s), {"SUBSCRIBE"}) => Has(t, {"SUBSCRIBE"})
      BY <1>1, <3>2, <3>3
    <3>. QED  BY <2>2, <3>4 DEF t
  <2>. QED  BY <2>1, <2>2
<1>6. s = << >> => q = << >>
  BY ConcatEqualIffEmpty
<1>7. state = "CREATED" => s = << >>
  <2>1. state = "CREATED" => q = << >> /\ ext = << >>
    BY DEF QueueFits
  <2>2. << >> \o << >> = << >>
    BY ConcatEmptySeq, EmptySeq
  <2>. QED  BY <2>1, <2>2
<1>. HIDE DEF s
<1>8. QueueFits(s, open, sub, cf, state)
  BY <1>3, <1>4, <1>5, <1>7 DEF QueueFits
<1>. QED  BY <1>8 DEF s

\* The conference has ended: d is c with what is to end the subscription, if it is
\* active, and to close the controller then; q is what is left of c's queue.
OverWith(c, q, open, state, d) ==
    \E ext \in Endings :
       /\ d.queue = c.queue \o ext
       /\ QueueFits(q \o ext, open, c.sub, "ENDED", state)
       /\ Has(ext, {"UNSUBSCRIBE"}) => c.sub = "ACTIVE"
       /\ c.closed => d.closed
       /\ ext = << >> => d.closed /\ (d.delay <=> c.delay)
       /\ ext # << >> => ext[1].delayed /\ (d.delay <=> (c.delay \/ c.queue = << >>))

\* An ended conference fits, with the ending that has been put.
LEMMA OverFits ==
    ASSUME NEW c \in ControllerType, NEW q \in Seq(Operation), NEW open, NEW cf, NEW state,
           QueueFits(q, open, c.sub, cf, state), ~Has(q, Closing), ~Pending(c.queue)
    PROVE  OverWith(c, q, open, state, ConferenceOver(c))
<1>. DEFINE d == ConferenceOver(c)
<1>1. /\ c.sub = "ACTIVE" =>
            /\ d.queue = c.queue \o UnsubscribeDestroy
            /\ d.delay <=> (c.delay \/ c.queue = << >>)
            /\ d.closed <=> c.closed
      /\ c.sub # "ACTIVE" => d.queue = c.queue /\ (d.delay <=> c.delay) /\ d.closed
  BY ConferenceOverFacts DEF HasPendingOperation, Pending, SameQueue
<1>2. QueueFits(q, open, c.sub, "ENDED", state)
  BY DEF QueueFits
<1>3. c.queue \in Seq(Operation)
  BY ControllerFields
<1>. HIDE DEF d
<1>4. CASE c.sub = "ACTIVE"
  <2>. DEFINE ext == UnsubscribeDestroy
  <2>1. ext \in Endings
    BY DEF Endings
  <2>2. /\ ext # << >> /\ ext[1].delayed
    BY EndingTypes, OpTypes DEF Lasting
  <2>. HIDE DEF ext
  <2>3. /\ ext \in Seq(Operation) /\ Ordered(ext)
        /\ \A T : T \cap Closing = {} => ~Has(ext, T)
    BY <2>1, EndingFacts
  <2>4. \A T : T \cap (Closing \cup {"TERMINATE_CONFERENCE"}) = {} => ~Has(ext, T)
    BY <2>3
  <2>5. state # "CREATED"
    BY <1>4 DEF QueueFits
  <2>6. ~Has(q, {"DESTROY_CONTROLLER"}) /\ ~Has(q, {"UNSUBSCRIBE"})
    BY DEF Has, Closing
  <2>7. QueueFits(q \o ext, open, c.sub, "ENDED", state)
    BY <1>2, <1>4, <2>3, <2>4, <2>5, <2>6, FitsWithMore
  <2>. QED  BY <1>1, <1>4, <2>1, <2>2, <2>7 DEF d, ext, OverWith
<1>5. CASE c.sub # "ACTIVE"
  <2>1. << >> \in Endings /\ c.queue \o << >> = c.queue /\ q \o << >> = q
    BY <1>3, ConcatEmptySeq DEF Endings
  <2>2. ~Has(<< >>, {"UNSUBSCRIBE"})
    BY DEF Has
  <2>. QED  BY <1>1, <1>2, <1>5, <2>1, <2>2 DEF d, OverWith
<1>. QED  BY <1>4, <1>5

\* In an empty queue nothing is pending.
LEMMA NothingPending ==
    ASSUME NEW q \in Seq(Operation), Ordered(q), ~Has(q, Closing)
    PROVE  ~Pending(q)
BY DEF Ordered, WellMade, Has, Pending, Closing

(***************************************************************************)
(* One operation that is over at once.                                      *)
(***************************************************************************)
\* It leaves a world that is ready, with the next operation in front.
LEMMA FollowingStep ==
    ASSUME NEW x \in WorldType, Ready(x), x.c.queue # << >>, Follows(Head(x.c.queue))
    PROVE  LET y == Started(x, Head(x.c.queue))
           IN  /\ y \in WorldType /\ Ready(y) /\ Effect(x, y)
               /\ ~StartsWithTerm(y.c.queue)
               /\ ~StartsWithTerm(x.c.queue) => y.call = x.call
               /\ \A v \in Users : v # x.c.queue[1].user => y.call[v] = x.call[v]
<1>. DEFINE q == x.c.queue
            o == Head(q)
            t == Tail(q)
            y == Started(x, o)
<1>1. x.c \in ControllerType /\ q \in Seq(Operation)
  BY WorldFields, ControllerFields
<1>2. /\ o \in Operation /\ t \in Seq(Operation) /\ o = q[1]
  BY <1>1, QueueFacts
<1>3. o.type \in Immediate /\ o.user \in Users \cup {NoUser} /\ ~o.delayed
  BY <1>2 DEF Follows, Operation
<1>4. /\ QueueFits(q, x.c.open, x.c.sub, x.conf, x.c.state)
      /\ SubFits(x.c, q, x.conf) /\ Coming(x.c, q)
      /\ x.c.twice => x.c.stale
      /\ LinksLive(x.c)
      /\ Ordered(q) /\ WellMade(q)
  BY DEF Ready, Fitting, QueueFits, Ordered
<1>5. /\ QueueFits(t, x.c.open, x.c.sub, x.conf, x.c.state)
      /\ x.c.state # "CREATED"
      /\ Has(t, {"SUBSCRIBE"}) => x.c.sub = "none"
      /\ ~Has(t, {"CREATE_CONFERENCE_CALL"})
  BY <1>1, <1>4, FitsWithoutFront
<1>6. ~StartsWithTerm(t)
  BY <1>1, <1>3, <1>4, TailOrdered DEF Immediate
<1>7. /\ From(t, q) /\ WellMade(t) /\ Coming(x.c, t)
      /\ Has(t, {"CHECK_CONNECTED"}) => Has(q, {"CHECK_CONNECTED"})
  BY <1>1, <1>4, <1>5, FromTail, ComingTail, TailHas DEF QueueFits, Ordered
<1>7a. ASSUME Early(x.c)
       PROVE  Untried(x.c, t) /\ o.type \notin Needing
  <2>1. Untried(x.c, q)
    BY <1>4, <1>7a DEF SubFits
  <2>. QED  BY <1>1, <1>3, <2>1, UntriedTail DEF Immediate
<1>8. StartsWithTerm(q) <=> o.type = "TERMINATE_1TO1_CALL"
  BY <1>2 DEF StartsWithTerm
<1>9. o.type \in Asking => Has(q, Asking) /\ x.c.open
  BY <1>1, <1>4, TailHas DEF QueueFits
<1>10. o.type = "NOTIFY_RESULT_TO_UI" => ~Has(t, Asking)
  BY <1>1, <1>4, TailOrdered
<1>. HIDE DEF o, t
\* What is left to show once the queue is known to be t.
<1>11. ASSUME NEW z \in WorldType, z.c.queue = t, ~z.c.delay,
              QueueFits(t, z.c.open, z.c.sub, z.conf, z.c.state),
              x.conf = "ENDED" => z.conf = "ENDED",
              SameEngine(x.c, z.c), z.c.refs = x.c.refs,
              Early(x.c) => z.c.state = x.c.state,
              z.c.twice => z.c.stale, LinksLive(z.c)
       PROVE  Ready(z) /\ ~StartsWithTerm(z.c.queue)
  <2>1. SubFits(z.c, t, z.conf)
    <3>1. Early(x.c) => Untried(z.c, t)
      BY <1>7a, <1>11 DEF Untried
    <3>. QED  BY <1>4, <1>7, <1>11, <3>1, SubFitsKept
  <2>2. Coming(z.c, t)
    BY <1>7, <1>11, ComingKept DEF SameInvites
  <2>3. t # << >> => Coming(z.c, Tail(t))
    BY <1>2, <2>2, ComingTail
  <2>4. z.c.sub = x.c.sub
    BY <1>11 DEF SameEngine
  <2>. QED  BY <1>5, <1>6, <1>11, <2>1, <2>2, <2>3, <2>4 DEF Ready, Fitting
<1>12. CASE o.type = "NOTIFY_RESULT_TO_UI"
  <2>. DEFINE d == NotifyCmdResult(x.c)
  <2>1. /\ d \in ControllerType
        /\ d.queue = t /\ ~d.delay
        /\ d.state = "IDLE" /\ ~d.open /\ (d.stale <=> x.c.stale)
        /\ d.twice <=> (x.c.twice \/ ~x.c.open)
        /\ SameSub(x.c, d) /\ d.refs = x.c.refs
        /\ NobodyJoins(x.c, d) /\ (LinksLive(x.c) => LinksLive(d))
    BY <1>1, NotifyCmdResultFacts DEF t
  <2>2. y = With(x, d)
    BY <1>12 DEF Started, With
  <2>. HIDE DEF d
  <2>3. y \in WorldType /\ y.c = d /\ y.conf = x.conf /\ y.call = x.call
    BY <2>1, <2>2, WorldFields
  <2>. HIDE DEF y
  <2>4. x.c.open /\ (d.twice <=> x.c.twice) /\ d.sub = x.c.sub /\ SameEngine(x.c, d)
    BY <1>9, <1>12, <2>1 DEF Asking, SameSub, SameEngine
  <2>4a. ~Early(x.c)
    BY <1>7a, <1>12 DEF Needing
  <2>5. QueueFits(t, d.open, d.sub, x.conf, d.state)
    <3>1. /\ "IDLE" # "CREATED" /\ "IDLE" # "JOINING" /\ ~Has(t, Asking)
      BY <1>10, <1>12
    <3>. QED  BY <1>5, <2>1, <2>4, <3>1 DEF QueueFits
  <2>6. Ready(y) /\ ~StartsWithTerm(y.c.queue)
    BY <1>4, <1>11, <2>1, <2>3, <2>4, <2>4a, <2>5
  <2>7. RefsKept(x.c, d) /\ \A u \in Users : Untouched(x.c, u) => Untouched(d, u)
    BY <1>7, <2>1, UntouchedKept DEF RefsKept, SameInvites
  <2>8. Effect(x, y)
    BY <1>7, <2>1, <2>3, <2>4, <2>7 DEF Effect, SameSub
  <2>. QED  BY <2>3, <2>6, <2>8 DEF y, o
<1>13. CASE o.type = "NOTIFY_RESULT_TO_MTCCALL"
  <2>. DEFINE d == Popped(x.c)
  <2>1. /\ d \in ControllerType
        /\ SameTalk(x.c, d) /\ SameUsers(x.c, d) /\ SameSub(x.c, d)
        /\ d.queue = t /\ ~d.delay
    BY <1>1, PoppedFacts DEF t
  <2>2. y = With(x, d)
    BY <1>13 DEF Started, With
  <2>. HIDE DEF d
  <2>3. y \in WorldType /\ y.c = d /\ y.conf = x.conf /\ y.call = x.call
    BY <2>1, <2>2, WorldFields
  <2>. HIDE DEF y
  <2>4. Effect(x, y) /\ (LinksLive(x.c) => LinksLive(y.c))
    BY <1>7, <2>1, <2>3, SameEffect DEF SameTalk, SameSub, SameEngine
  <2>5. /\ d.state = x.c.state /\ (d.open <=> x.c.open) /\ (d.twice <=> x.c.twice)
        /\ (d.stale <=> x.c.stale) /\ d.sub = x.c.sub /\ SameEngine(x.c, d)
        /\ d.refs = x.c.refs
    BY <2>1 DEF SameTalk, SameSub, SameEngine, SameUsers
  <2>6. QueueFits(t, d.open, d.sub, x.conf, d.state)
    BY <1>5, <2>5 DEF QueueFits
  <2>7. Ready(y) /\ ~StartsWithTerm(y.c.queue)
    BY <1>4, <1>11, <2>1, <2>3, <2>4, <2>5, <2>6
  <2>. QED  BY <2>3, <2>4, <2>7 DEF y, o
<1>14. CASE o.type = "TERMINATE_1TO1_CALL"
  <2>1. /\ y \in WorldType /\ y.conf = x.conf
        /\ y.c.queue = t /\ ~y.c.delay
        /\ SameTalk(x.c, y.c) /\ SameUsers(x.c, y.c) /\ SameSub(x.c, y.c)
        /\ \A v \in Users : v # o.user => y.call[v] = x.call[v]
    <3>1. y = TerminateIndividualCall(x, o.user)
      BY <1>14 DEF Started
    <3>. QED  BY <1>3, <3>1, IndividualCallFacts DEF t
  <2>. HIDE DEF y
  <2>4. Effect(x, y) /\ (LinksLive(x.c) => LinksLive(y.c))
    BY <1>7, <2>1, SameEffect DEF SameTalk, SameSub, SameEngine
  <2>5. /\ y.c.state = x.c.state /\ (y.c.open <=> x.c.open) /\ (y.c.twice <=> x.c.twice)
        /\ (y.c.stale <=> x.c.stale) /\ y.c.sub = x.c.sub /\ SameEngine(x.c, y.c)
        /\ y.c.refs = x.c.refs
    BY <2>1 DEF SameTalk, SameSub, SameEngine, SameUsers
  <2>6. QueueFits(t, y.c.open, y.c.sub, y.conf, y.c.state)
    BY <1>5, <2>1, <2>5 DEF QueueFits
  <2>7. Ready(y) /\ ~StartsWithTerm(y.c.queue)
    BY <1>4, <1>11, <2>1, <2>4, <2>5, <2>6
  <2>8. StartsWithTerm(q) /\ o.user = q[1].user
    BY <1>2, <1>8, <1>14
  <2>. QED  BY <2>1, <2>4, <2>7, <2>8 DEF y, o
<1>15. CASE o.type = "TERMINATE_CONFERENCE"
  <2>. DEFINE d == ConferenceOver(x.c)
  <2>1. /\ y \in WorldType /\ y.conf = "ENDED" /\ y.call = x.call
        /\ ~y.c.delay
        /\ SameTalk(x.c, y.c) /\ SameUsers(x.c, y.c) /\ SameEngine(x.c, y.c)
        /\ x.conf = "ENDED" => y.c.queue = t /\ (y.c.closed <=> x.c.closed)
        /\ x.conf # "ENDED" => y.c.queue = Tail(d.queue) /\ (y.c.closed <=> d.closed)
    <3>1. y = TerminateConference(x)
      BY <1>15 DEF Started
    <3>. QED  BY <3>1, TerminateConferenceFacts DEF t
  <2>. HIDE DEF y, d
  <2>2. /\ y.c.state = x.c.state /\ (y.c.open <=> x.c.open) /\ (y.c.twice <=> x.c.twice)
        /\ (y.c.stale <=> x.c.stale) /\ y.c.sub = x.c.sub /\ y.c.refs = x.c.refs
    BY <2>1 DEF SameTalk, SameEngine, SameUsers
  <2>3. CASE x.conf = "ENDED"
    <3>1. Effect(x, y) /\ (LinksLive(x.c) => LinksLive(y.c))
      BY <1>7, <2>1, <2>2, <2>3, SameEffect
    <3>2. QueueFits(t, y.c.open, y.c.sub, y.conf, y.c.state)
      BY <1>5, <2>1, <2>2, <2>3 DEF QueueFits
    <3>3. Ready(y) /\ ~StartsWithTerm(y.c.queue)
      BY <1>4, <1>11, <2>1, <2>2, <2>3, <3>1, <3>2
    <3>. QED  BY <2>1, <3>1, <3>3 DEF y, o
  <2>4. CASE x.conf # "ENDED"
    <3>1. ~Has(q, Closing) /\ ~Has(t, Closing)
      BY <1>4, <1>5, <2>4 DEF QueueFits
    <3>2. ~Pending(q)
      BY <1>1, <1>4, <3>1, NothingPending
    <3>3. PICK ext \in Endings :
              /\ d.queue = q \o ext
              /\ QueueFits(t \o ext, x.c.open, x.c.sub, "ENDED", x.c.state)
              /\ Has(ext, {"UNSUBSCRIBE"}) => x.c.sub = "ACTIVE"
              /\ x.c.closed => d.closed
      <4>1. OverWith(x.c, t, x.c.open, x.c.state, d)
        BY <1>1, <1>2, <1>5, <3>1, <3>2, OverFits DEF d
      <4>. QED  BY <4>1 DEF OverWith
    <3>4. ext \in Seq(Operation) /\ \A T : T \cap Closing = {} => ~Has(ext, T)
      BY EndingFacts
    <3>5. y.c.queue = t \o ext
      BY <1>1, <2>1, <2>4, <3>3, <3>4, TailOfConcat DEF t
    <3>6. /\ Has(t \o ext, {"SUBSCRIBE"}) => Has(t, {"SUBSCRIBE"})
          /\ Has(t \o ext, {"CHECK_CONNECTED"}) => Has(t, {"CHECK_CONNECTED"})
      BY <1>2, <3>4, ConcatHas DEF Closing
    <3>7. ~Has(t \o ext, {"CREATE_CONFERENCE_CALL"})
      BY <1>2, <1>5, <3>4, ConcatHas DEF Closing
    <3>7a. From(y.c.queue, q)
      BY <1>2, <1>7, <3>5, FromMore
    <3>8. Effect(x, y) /\ (LinksLive(x.c) => LinksLive(y.c))
      BY <2>1, <2>2, <2>4, <3>3, <3>7a, SameEffect
    <3>8a. Coming(y.c, y.c.queue)
      <4>1. Coming(y.c, t)
        BY <1>7, <2>1, <2>2, ComingKept DEF SameInvites
      <4>2. ~Has(ext, {"REFER_INVITE"})
        BY <3>4 DEF Closing
      <4>. QED  BY <1>2, <2>2, <3>3, <3>4, <3>5, <4>1, <4>2, ComingMore
    <3>8b. y.c.queue # << >> => Coming(y.c, Tail(y.c.queue))
      BY <1>2, <3>4, <3>5, <3>8a, ConcatFacts, ComingTail
    <3>8c. SubFits(y.c, y.c.queue, y.conf)
      <4>1. ~Has(ext, Needing)
        BY <3>4 DEF Closing, Needing
      <4>2. Early(x.c) => Untried(y.c, t)
        BY <1>7a, <2>2 DEF Untried
      <4>3. Early(x.c) => Untried(y.c, y.c.queue)
        BY <1>2, <3>4, <3>5, <4>1, <4>2, UntriedMore
      <4>. QED  BY <1>4, <1>7, <2>1, <3>5, <3>6, <4>3, SubFitsKept
    <3>9. QueueFits(y.c.queue, y.c.open, y.c.sub, y.conf, y.c.state)
      BY <2>1, <2>2, <3>3, <3>5 DEF QueueFits
    <3>10. Ready(y)
      BY <1>4, <1>5, <2>1, <2>2, <3>5, <3>6, <3>7, <3>8, <3>8a, <3>8b, <3>8c, <3>9
         DEF Ready, Fitting
    <3>11. ~StartsWithTerm(y.c.queue)
      <4>1. t \o ext # << >> =>
               /\ (t \o ext)[1] \in {t[1], ext[1]}
               /\ (t # << >> => (t \o ext)[1] = t[1]) /\ (t = << >> => t \o ext = ext)
        <5>1. CASE t = << >>
          <6>1. t \o ext = ext
            BY <3>4, <5>1, ConcatEmptySeq
          <6>. QED  BY <5>1, <6>1
        <5>2. CASE t # << >>
          <6>1. 1 \in 1..Len(t)
            BY <1>2, <5>2, QueueFacts
          <6>. QED  BY <1>2, <3>4, <5>2, <6>1, ConcatFacts
        <5>. QED  BY <5>1, <5>2
      <4>2. ~StartsWithTerm(ext)
        BY EndingFacts
      <4>. QED  BY <1>6, <3>5, <4>1, <4>2 DEF StartsWithTerm
    <3>. QED  BY <2>1, <3>8, <3>10, <3>11 DEF y, o
  <2>. QED  BY <2>3, <2>4
<1>. QED  BY <1>3, <1>12, <1>13, <1>14, <1>15 DEF Immediate

\* An empty queue fits when no command is open.
LEMMA EmptyFits ==
    ASSUME NEW open, NEW sub, NEW cf, NEW state, state # "CREATED" \/ sub = "none"
    PROVE  /\ QueueFits(<< >>, open, sub, cf, state)
           /\ \A T : ~Has(<< >>, T)
BY DEF QueueFits, Ordered, WellMade, InTurn, Has

(***************************************************************************)
(* One operation that lasts, and one that is delayed.                         *)
(***************************************************************************)
\* What completes it is under way afterwards.
LEMMA LastingStep ==
    ASSUME NEW x \in WorldType, Ready(x), x.c.queue # << >>,
           ~Head(x.c.queue).delayed, ~Follows(Head(x.c.queue))
    PROVE  LET y == Started(x, Head(x.c.queue))
           IN  /\ y \in WorldType /\ Settled(y) /\ Effect(x, y) /\ NewFront(x, y)
               /\ y.call = x.call
<1>. DEFINE q == x.c.queue
            o == Head(q)
            t == Tail(q)
            y == Started(x, o)
<1>1. x.c \in ControllerType /\ q \in Seq(Operation)
  BY WorldFields, ControllerFields
<1>2. /\ o \in Operation /\ t \in Seq(Operation) /\ o = q[1]
  BY <1>1, QueueFacts
<1>3. o.type \in Lasting /\ o.user \in Users \cup {NoUser} /\ ~o.delayed
  BY <1>2 DEF Follows, Operation
<1>4. /\ QueueFits(q, x.c.open, x.c.sub, x.conf, x.c.state)
      /\ x.c.twice => x.c.stale
      /\ LinksLive(x.c)
      /\ SubFits(x.c, q, x.conf) /\ Coming(x.c, q)
      /\ Ordered(q) /\ WellMade(q) /\ ~x.c.delay
      /\ Has(q, {"SUBSCRIBE"}) => x.c.sub = "none"
      /\ Has(q, {"CREATE_CONFERENCE_CALL"}) => ~Has(q, Closing) /\ x.conf # "ENDED"
  BY DEF Ready, Fitting, QueueFits, Ordered
<1>5. /\ x.c.state # "CREATED"
      /\ Has(t, {"SUBSCRIBE"}) => x.c.sub = "none"
  BY <1>1, <1>4, FitsWithoutFront
<1>6. \A T : o.type \in T => Has(q, T)
  BY <1>1, TailHas
<1>7. /\ o.type \in OfUser => o.user \in Users
      /\ o.type = "SUBSCRIBE" => ~Has(t, {"SUBSCRIBE"})
      /\ o.type = "DESTROY_CONTROLLER" => ~Pending(t)
      /\ o.type = "UNSUBSCRIBE" =>
            ~Has(t, {"UNSUBSCRIBE"}) /\ ~Has(t, {"CHECK_CONNECTED"})
      /\ \A i \in DOMAIN t : Turn(o, t[i])
  BY <1>1, <1>4, TailOrdered
<1>7a. Coming(x.c, t) /\ From(q, q) /\ WellMade(t)
  BY <1>1, <1>4, ComingTail, FromSelf, FitsWithoutFront DEF QueueFits, Ordered
<1>7b. Early(x.c) => Untried(x.c, q) /\ o.type \notin Needing
  BY <1>1, <1>4, UntriedTail DEF SubFits
<1>7c. o.type = "REFER_INVITE" => x.c.refs[o.user]["invite"] = "none"
  <2>1. 1 \in DOMAIN q
    BY <1>1, QueueFacts
  <2>. QED  BY <1>2, <1>4, <2>1 DEF Coming
<1>. HIDE DEF o, t
\* What is left to show once the queue is known to be unchanged.
<1>8. ASSUME NEW z \in WorldType, z.c.queue = q, z.c.delay <=> x.c.delay,
             QueueFits(q, z.c.open, z.c.sub, z.conf, z.c.state), UnderWayIn(z, o),
             SubFits(z.c, q, z.conf), Coming(z.c, t),
             z.c.twice => z.c.stale, LinksLive(z.c)
      PROVE  Settled(z) /\ NewFront(x, z)
  <2>1. Settled(z)
    BY <1>4, <1>8 DEF Settled, Waits, Fitting, o, t
  <2>2. NewFront(x, z)
    BY <1>7c, <1>8 DEF NewFront, FrontIs, o
  <2>. QED  BY <2>1, <2>2
\* The queue and the subscription stay what they are.
<1>8a. ASSUME NEW z \in WorldType, z.c.queue = q, SameEngine(x.c, z.c),
              x.conf = "ENDED" => z.conf = "ENDED",
              Early(x.c) => z.c.refs = x.c.refs /\ z.c.state = x.c.state
       PROVE  SubFits(z.c, q, z.conf)
  <2>1. Early(x.c) => Untried(z.c, q)
    BY <1>7b, <1>8a DEF Untried
  <2>. QED  BY <1>4, <1>8a, <2>1, SubFitsKept
<1>8b. ASSUME NEW z \in WorldType, SameEngine(x.c, z.c), SameInvites(x.c, z.c, Users)
       PROVE  Coming(z.c, t)
  BY <1>7a, <1>8b, ComingKept
<1>9. CASE o.type = "CREATE_CONFERENCE_CALL"
  <2>1. y = ConfSet(x, "STARTING")
    BY <1>9 DEF Started, ConfSet
  <2>2. /\ y \in WorldType /\ y.c = x.c /\ y.conf = "STARTING" /\ y.call = x.call
    BY <2>1, WorldFields DEF ConferenceStates
  <2>. HIDE DEF y
  <2>3. ~Has(q, Closing)
    BY <1>4, <1>6, <1>9
  <2>4. QueueFits(q, x.c.open, x.c.sub, "STARTING", x.c.state)
    BY <1>4, <2>3 DEF QueueFits
  <2>5. UnderWayIn(y, o)
    BY <1>3, <1>9, <2>2 DEF UnderWayIn, Lasting
  <2>5a. SubFits(y.c, q, y.conf) /\ Coming(y.c, t)
    <3>1. SameEngine(x.c, y.c) /\ SameInvites(x.c, y.c, Users) /\ x.conf # "ENDED"
      BY <1>4, <1>6, <1>9, <2>2 DEF SameEngine, SameInvites
    <3>. QED  BY <1>8a, <1>8b, <2>2, <3>1
  <2>6. Settled(y) /\ NewFront(x, y)
    BY <1>4, <1>8, <2>2, <2>4, <2>5, <2>5a
  <2>7. Effect(x, y)
    BY <1>7a, <2>2, SameEffect DEF SameUsers, SameEngine
  <2>. QED  BY <2>2, <2>6, <2>7 DEF y, o
<1>10. CASE o.type = "SUBSCRIBE"
  <2>. DEFINE d == EngineSet(x.c, "SUBSCRIBING", "CREATE", x.c.notified, x.c.lost)
  <2>0. /\ "SUBSCRIBING" \in SubStates /\ "CREATE" \in EngineStates
        /\ x.c.notified \in BOOLEAN /\ x.c.lost \in BOOLEAN
    BY <1>1, ControllerFields DEF SubStates, EngineStates, PendingRequests
  <2>1. /\ d \in ControllerType /\ d.sub = "SUBSCRIBING" /\ d.eng = "CREATE"
        /\ (d.lost <=> x.c.lost) /\ (d.closed <=> x.c.closed)
        /\ SameQueue(x.c, d) /\ SameTalk(x.c, d) /\ SameUsers(x.c, d)
    BY <1>1, <2>0, EngineFacts
  <2>2. y = With(x, d)
    <3>1. d = [x.c EXCEPT !.sub = "SUBSCRIBING", !.eng = "CREATE"]
      BY <1>1 DEF EngineSet, ControllerType
    <3>. HIDE DEF d
    <3>. QED  BY <1>10, <3>1 DEF Started, With, WorldType
  <2>. HIDE DEF d
  <2>3. y \in WorldType /\ y.c = d /\ y.conf = x.conf /\ y.call = x.call
    BY <2>1, <2>2, WorldFields
  <2>. HIDE DEF y
  <2>4. x.c.sub = "none" /\ ~Has(t, {"SUBSCRIBE"})
    BY <1>4, <1>6, <1>7, <1>10
  <2>5. /\ d.state = x.c.state /\ (d.open <=> x.c.open) /\ (d.twice <=> x.c.twice)
        /\ (d.stale <=> x.c.stale) /\ d.queue = q /\ (d.delay <=> x.c.delay)
    BY <2>1 DEF SameTalk, SameQueue
  <2>6. QueueFits(q, d.open, d.sub, x.conf, d.state)
    BY <1>4, <1>5, <2>1, <2>4, <2>5 DEF QueueFits, t
  <2>7. UnderWayIn(y, o)
    BY <1>3, <1>10, <2>1, <2>3 DEF UnderWayIn, Lasting
  <2>8. /\ LinksLive(d) /\ RefsKept(x.c, d) /\ NobodyJoins(x.c, d)
        /\ SameInvites(x.c, d, Users)
    BY <1>4, <2>1 DEF LinksLive, Linked, RefsKept, NobodyJoins, SameUsers, SameInvites
  <2>8a. SubFits(y.c, q, y.conf)
    BY <2>1, <2>3 DEF SubFits, Early
  <2>8b. Coming(y.c, t)
    <3>1. \A i \in DOMAIN t : t[i].type = "REFER_INVITE" => t[i].user \in Users
      BY <1>7a DEF WellMade, OfUser
    <3>. QED  BY <1>7a, <2>1, <2>3, <2>8, <3>1 DEF Coming, SameInvites
  <2>9. Settled(y) /\ NewFront(x, y)
    BY <1>4, <1>8, <2>3, <2>5, <2>6, <2>7, <2>8, <2>8a, <2>8b
  <2>10. Effect(x, y)
    <3>1. From(y.c.queue, q) /\ Has(q, {"SUBSCRIBE"})
      BY <1>6, <1>7a, <1>10, <2>3, <2>5
    <3>2. \A u \in Users : Untouched(x.c, u) => Untouched(y.c, u)
      BY <2>3, <2>8, <3>1, UntouchedKept
    <3>. QED  BY <2>1, <2>3, <2>4, <2>5, <2>8, <3>1, <3>2 DEF Effect
  <2>. QED  BY <2>3, <2>9, <2>10 DEF y, o
<1>11. CASE o.type = "UNSUBSCRIBE"
  <2>. DEFINE d == StopSubscription(x.c)
              ends == x.c.sub \in {"SUBSCRIBING", "ACTIVE"} /\ x.c.eng # "none"
  <2>1. /\ d \in ControllerType
        /\ SameQueue(x.c, d) /\ SameTalk(x.c, d) /\ SameUsers(x.c, d)
        /\ d.closed <=> x.c.closed
        /\ d.lost <=> x.c.lost
        /\ ends => /\ d.sub = "UNSUBSCRIBING"
                   /\ d.eng = IF x.c.eng = "ACTIVE" THEN "REMOVE" ELSE x.c.eng
        /\ ~ends => d.sub = x.c.sub /\ d.eng = x.c.eng
    BY <1>1, StopSubscriptionFacts
  <2>2. y = With(x, d)
    BY <1>11 DEF Started, With
  <2>. HIDE DEF d
  <2>3. y \in WorldType /\ y.c = d /\ y.conf = x.conf /\ y.call = x.call
    BY <2>1, <2>2, WorldFields
  <2>. HIDE DEF y
  <2>4. /\ x.c.lost \/ x.c.sub \in {"SUBSCRIBING", "ACTIVE"}
        /\ x.conf = "ENDED"
    BY <1>4, <1>6, <1>11 DEF Coming, QueueFits, Closing
  <2>5. /\ d.state = x.c.state /\ (d.open <=> x.c.open) /\ (d.twice <=> x.c.twice)
        /\ (d.stale <=> x.c.stale) /\ d.queue = q /\ (d.delay <=> x.c.delay)
    BY <2>1 DEF SameTalk, SameQueue
  <2>5a. d.sub = "none" <=> x.c.sub = "none"
    BY <2>1
  <2>6. QueueFits(q, d.open, d.sub, x.conf, d.state)
    BY <1>4, <1>5, <2>5, <2>5a DEF QueueFits, t
  <2>6a. ~x.c.lost => d.sub = "UNSUBSCRIBING" /\ d.eng \in PendingRequests
    BY <1>4, <2>1, <2>4 DEF SubFits, PendingRequests
  <2>7. UnderWayIn(y, o)
    BY <1>3, <1>11, <2>1, <2>3, <2>6a DEF UnderWayIn, Lasting
  <2>8. /\ LinksLive(d) /\ RefsKept(x.c, d) /\ NobodyJoins(x.c, d)
        /\ SameInvites(x.c, d, Users)
    BY <1>4, <2>1 DEF LinksLive, Linked, RefsKept, NobodyJoins, SameUsers, SameInvites
  <2>8a. SubFits(y.c, q, y.conf)
    <3>1. ~Has(q, {"CHECK_CONNECTED"})
      BY <1>1, <1>7, <1>11, TailHas DEF o, t
    <3>2. d.sub = "none" => d.eng = "none"
      BY <1>4, <2>1 DEF SubFits
    <3>. QED  BY <2>1, <2>3, <2>4, <2>6a, <3>1, <3>2 DEF SubFits, Early
  <2>8b. Coming(y.c, t)
    <3>1. \A i \in DOMAIN t : t[i].type = "REFER_INVITE" => t[i].user \in Users
      BY <1>7a DEF WellMade, OfUser
    <3>. QED  BY <1>7, <1>7a, <1>11, <2>3, <2>8, <3>1 DEF Coming, SameInvites
  <2>9. Settled(y) /\ NewFront(x, y)
    BY <1>4, <1>8, <2>3, <2>5, <2>6, <2>7, <2>8, <2>8a, <2>8b
  <2>10. Effect(x, y)
    <3>1. From(y.c.queue, q)
      BY <1>7a, <2>3, <2>5
    <3>2. \A u \in Users : Untouched(x.c, u) => Untouched(y.c, u)
      BY <2>3, <2>8, <3>1, UntouchedKept
    <3>. QED  BY <2>1, <2>3, <2>5, <2>5a, <2>8, <3>1, <3>2 DEF Effect
  <2>. QED  BY <2>3, <2>9, <2>10 DEF y, o
<1>12. CASE o.type = "REFER_INVITE"
  <2>. DEFINE d == InviteParticipants(x, o.user)
  <2>0. o.user \in Users /\ x.c.open
    BY <1>4, <1>6, <1>7, <1>12 DEF OfUser, Asking, QueueFits
  <2>1. /\ d \in ControllerType
        /\ SameSub(x.c, d) /\ RefsKept(x.c, d) /\ NobodyJoins(x.c, d)
        /\ d.refs[o.user]["invite"] # "none" /\ SameInvites(x.c, d, Users \ {o.user})
        /\ LinksLive(x.c) => LinksLive(d)
        /\ d.state = x.c.state /\ (d.stale <=> x.c.stale)
        /\ x.conf = "UP" =>
              /\ SameQueue(x.c, d) /\ SameTalk(x.c, d)
              /\ d.refs[o.user]["invite"] = "sent"
        /\ x.conf # "UP" =>
              /\ d.queue = << >> /\ ~d.delay /\ ~d.open
              /\ d.twice <=> (x.c.twice \/ ~x.c.open)
    BY <2>0, InviteParticipantsFacts
  <2>2. y = With(x, d)
    BY <1>12 DEF Started, With
  <2>. HIDE DEF d
  <2>3. y \in WorldType /\ y.c = d /\ y.conf = x.conf /\ y.call = x.call
    BY <2>1, <2>2, WorldFields
  <2>. HIDE DEF y
  <2>4. d.sub = x.c.sub /\ (d.closed <=> x.c.closed) /\ (d.twice <=> x.c.twice)
    BY <2>0, <2>1 DEF SameSub, SameTalk
  <2>4a. SameEngine(x.c, d) /\ ~Early(x.c)
    BY <1>7b, <1>12, <2>1 DEF SameSub, SameEngine, Needing
  <2>4b. \A u \in Users : Untouched(x.c, u) =>
            u # o.user /\ d.refs[u]["invite"] = "none"
    <3>1. q[1] = o /\ 1 \in DOMAIN q
      BY <1>1, <1>2, QueueFacts
    <3>2. \A u \in Users : Untouched(x.c, u) => u # o.user
      BY <1>12, <3>1 DEF Untouched
    <3>. QED  BY <2>1, <3>2 DEF Untouched, SameInvites
  <2>5. CASE x.conf = "UP"
    <3>1. d.queue = q /\ (d.delay <=> x.c.delay) /\ (d.open <=> x.c.open)
      BY <2>1, <2>5 DEF SameQueue, SameTalk
    <3>2. QueueFits(q, d.open, d.sub, x.conf, d.state)
      BY <1>4, <2>1, <2>4, <3>1 DEF QueueFits
    <3>3. UnderWayIn(y, o)
      BY <1>3, <1>12, <2>1, <2>3, <2>5 DEF UnderWayIn, Lasting
    <3>3a. SubFits(y.c, q, y.conf)
      BY <1>8a, <2>3, <2>4a, <3>1
    <3>3b. Coming(y.c, t)
      <4>1. \A i \in DOMAIN t : t[i].type = "REFER_INVITE" => t[i].user \in Users \ {o.user}
        BY <1>7, <1>7a, <1>12 DEF WellMade, OfUser, Turn
      <4>. QED  BY <1>7a, <2>1, <2>3, <2>4a, <4>1 DEF Coming, SameInvites, SameEngine
    <3>4. Settled(y) /\ NewFront(x, y)
      BY <1>4, <1>8, <2>1, <2>3, <2>4, <3>1, <3>2, <3>3, <3>3a, <3>3b
    <3>5. Effect(x, y)
      <4>1. \A u \in Users : Untouched(x.c, u) => Untouched(y.c, u)
        BY <2>3, <2>4b, <3>1 DEF Untouched
      <4>. QED  BY <1>7a, <2>1, <2>3, <2>4, <2>4a, <3>1, <4>1 DEF Effect, SameEngine
    <3>. QED  BY <2>3, <3>4, <3>5 DEF y, o
  <2>6. CASE x.conf # "UP"
    <3>1. d.queue = << >> /\ ~d.delay
      BY <2>1, <2>6
    <3>2. /\ QueueFits(d.queue, d.open, d.sub, x.conf, d.state)
          /\ ~Has(d.queue, {"CHECK_CONNECTED"})
      BY <1>5, <2>1, <3>1, EmptyFits
    <3>2a. SubFits(d, d.queue, x.conf)
      BY <1>4, <2>4a, <3>2, SubFitsKept
    <3>3. Settled(y)
      BY <1>4, <2>1, <2>3, <2>4, <3>1, <3>2, <3>2a DEF Settled, Fitting, Waits
    <3>3a. NewFront(x, y)
      BY <2>3, <3>1 DEF NewFront, FrontIs
    <3>4. Effect(x, y)
      <4>1. \A u \in Users : Untouched(x.c, u) => Untouched(y.c, u)
        BY <2>3, <2>4b, <3>1 DEF Untouched
      <4>2. From(y.c.queue, q)
        BY <2>3, <3>1, FromSelf
      <4>. QED  BY <2>1, <2>3, <2>4, <2>4a, <4>1, <4>2 DEF Effect, SameEngine
    <3>. QED  BY <2>3, <3>3, <3>3a, <3>4 DEF y, o
  <2>. QED  BY <2>5, <2>6
<1>13. CASE o.type = "REFER_BYE"
  <2>. DEFINE d == RemoveParticipants(x, o.user)
  <2>0. o.user \in Users
    BY <1>7, <1>13 DEF OfUser
  <2>1. /\ d \in ControllerType
        /\ SameQueue(x.c, d) /\ SameTalk(x.c, d) /\ SameSub(x.c, d)
        /\ RefsKept(x.c, d) /\ NobodyJoins(x.c, d) /\ SameInvites(x.c, d, Users)
        /\ d.refs[o.user]["bye"] \in {"sent", "unsent"}
        /\ LinksLive(x.c) => LinksLive(d)
    BY <2>0, RemoveParticipantsFacts
  <2>2. y = With(x, d)
    BY <1>13 DEF Started, With
  <2>. HIDE DEF d
  <2>3. y \in WorldType /\ y.c = d /\ y.conf = x.conf /\ y.call = x.call
    BY <2>1, <2>2, WorldFields
  <2>. HIDE DEF y
  <2>5. /\ d.state = x.c.state /\ (d.open <=> x.c.open) /\ (d.twice <=> x.c.twice)
        /\ (d.stale <=> x.c.stale) /\ d.queue = q /\ (d.delay <=> x.c.delay)
        /\ d.sub = x.c.sub /\ (d.closed <=> x.c.closed) /\ SameEngine(x.c, d)
    BY <2>1 DEF SameTalk, SameQueue, SameSub, SameEngine
  <2>6. QueueFits(q, d.open, d.sub, x.conf, d.state)
    BY <1>4, <2>5 DEF QueueFits
  <2>7. UnderWayIn(y, o)
    BY <1>3, <1>13, <2>1, <2>3 DEF UnderWayIn, Lasting
  <2>7a. SubFits(y.c, q, y.conf) /\ Coming(y.c, t)
    <3>1. ~Early(x.c)
      BY <1>7b, <1>13 DEF Needing
    <3>. QED  BY <1>8a, <1>8b, <2>1, <2>3, <2>5, <3>1
  <2>8. Settled(y) /\ NewFront(x, y)
    BY <1>4, <1>8, <2>1, <2>3, <2>5, <2>6, <2>7, <2>7a
  <2>9. Effect(x, y)
    <3>1. From(y.c.queue, q)
      BY <1>7a, <2>3, <2>5
    <3>2. \A u \in Users : Untouched(x.c, u) => Untouched(y.c, u)
      BY <2>1, <2>3, <3>1, UntouchedKept
    <3>. QED  BY <2>1, <2>3, <2>5, <3>1, <3>2 DEF Effect, SameEngine
  <2>. QED  BY <2>3, <2>8, <2>9 DEF y, o
<1>14. CASE o.type = "CHECK_CONNECTED"
  <2>1. y = x
    BY <1>14 DEF Started
  <2>. HIDE DEF y
  <2>2. flow = "notify_refer"
    BY <1>4, <1>6, <1>14 DEF QueueFits
  <2>3. UnderWayIn(x, o)
    BY <1>3, <1>14, <2>2 DEF UnderWayIn, Lasting
  <2>4. Settled(x) /\ NewFront(x, x)
    <3>1. SameEngine(x.c, x.c) /\ SameInvites(x.c, x.c, Users)
      BY DEF SameEngine, SameInvites
    <3>. QED  BY <1>4, <1>7a, <1>8, <2>3
  <2>5. Effect(x, x)
    BY <1>7a, SameEffect DEF SameUsers, SameEngine
  <2>. QED  BY <2>1, <2>4, <2>5 DEF y, o
<1>15. CASE o.type = "DESTROY_CONTROLLER"
  <2>. DEFINE d == SendClosed(x.c)
  <2>1. ~HasPendingOperation(x.c)
    <3>1. Pending(q) => q[1].delayed \/ Pending(t)
      <4>1. /\ Len(q) \in Nat /\ DOMAIN q = 1..Len(q) /\ Len(t) = Len(q) - 1
            /\ \A i \in 1..Len(t) : t[i] = q[i + 1]
        BY <1>1, QueueFacts DEF t
      <4>2. DOMAIN t = 1..Len(t)
        BY <1>2, QueueFacts
      <4>3. \A i \in DOMAIN q : i = 1 \/ (i - 1 \in DOMAIN t /\ t[i - 1] = q[i])
        BY <4>1, <4>2
      <4>. QED  BY <4>3 DEF Pending
    <3>. QED  BY <1>2, <1>3, <1>7, <1>15, <3>1 DEF HasPendingOperation, Pending
  <2>2. /\ d \in ControllerType
        /\ SameTalk(x.c, d) /\ SameUsers(x.c, d) /\ SameEngine(x.c, d)
        /\ (d.delay <=> x.c.delay) /\ d.queue = q /\ d.closed
    BY <1>1, <2>1, SendClosedFacts
  <2>3. y = With(x, d)
    BY <1>15 DEF Started, With
  <2>. HIDE DEF d
  <2>4. y \in WorldType /\ y.c = d /\ y.conf = x.conf /\ y.call = x.call
    BY <2>2, <2>3, WorldFields
  <2>. HIDE DEF y
  <2>5. /\ d.state = x.c.state /\ (d.open <=> x.c.open) /\ (d.twice <=> x.c.twice)
        /\ (d.stale <=> x.c.stale) /\ d.sub = x.c.sub /\ d.refs = x.c.refs
    BY <2>2 DEF SameTalk, SameEngine, SameUsers
  <2>6. QueueFits(q, d.open, d.sub, x.conf, d.state)
    BY <1>4, <2>2, <2>5 DEF QueueFits
  <2>7. Effect(x, y) /\ (LinksLive(x.c) => LinksLive(y.c))
    BY <1>7a, <2>2, <2>4, <2>5, SameEffect
  <2>7a. SubFits(y.c, q, y.conf) /\ Coming(y.c, t)
    <3>1. SameInvites(x.c, d, Users)
      BY <2>5 DEF SameInvites
    <3>. QED  BY <1>8a, <1>8b, <2>2, <2>4, <2>5, <3>1
  <2>8. Settled(y)
    BY <1>4, <2>2, <2>4, <2>5, <2>6, <2>7, <2>7a DEF Settled, Fitting, t
  <2>9. NewFront(x, y)
    BY <1>15, <2>2, <2>4 DEF NewFront, FrontIs, o
  <2>. QED  BY <2>4, <2>7, <2>8, <2>9 DEF y, o
<1>. QED  BY <1>3, <1>9, <1>10, <1>11, <1>12, <1>13, <1>14, <1>15 DEF Lasting

\* The timer is, for one that is delayed.
LEMMA DelayedStep ==
    ASSUME NEW x \in WorldType, Ready(x), x.c.queue # << >>, Head(x.c.queue).delayed
    PROVE  LET y == With(x, DelaySet(x.c))
           IN  /\ y \in WorldType /\ Settled(y) /\ Effect(x, y) /\ NewFront(x, y)
               /\ y.call = x.call
<1>. DEFINE d == DelaySet(x.c)
            y == With(x, d)
<1>1. /\ d \in ControllerType /\ d.queue = x.c.queue /\ d.delay
      /\ SameTalk(x.c, d) /\ SameUsers(x.c, d) /\ SameSub(x.c, d)
  BY WorldFields, FieldFacts
<1>. HIDE DEF d
<1>2. y \in WorldType /\ y.c = d /\ y.conf = x.conf /\ y.call = x.call
  BY <1>1, WorldFields
<1>. HIDE DEF y
<1>3. /\ d.state = x.c.state /\ (d.open <=> x.c.open) /\ (d.twice <=> x.c.twice)
      /\ (d.stale <=> x.c.stale) /\ d.sub = x.c.sub /\ (d.closed <=> x.c.closed)
      /\ SameEngine(x.c, d) /\ SameInvites(x.c, d, Users) /\ d.refs = x.c.refs
  BY <1>1 DEF SameTalk, SameSub, SameEngine, SameUsers, SameInvites
<1>4. QueueFits(d.queue, d.open, d.sub, x.conf, d.state) /\ (d.twice => d.stale)
  BY <1>1, <1>3 DEF Ready, Fitting, QueueFits
<1>5. Effect(x, y) /\ (LinksLive(x.c) => LinksLive(y.c))
  BY <1>1, <1>2, <1>3, SameEffect, FromSelf
<1>6. LinksLive(x.c)
  BY DEF Ready, Fitting
<1>6a. /\ x.c.queue \in Seq(Operation) /\ SubFits(x.c, x.c.queue, x.conf)
       /\ Coming(x.c, x.c.queue) /\ Ordered(x.c.queue) /\ WellMade(x.c.queue)
  BY WorldFields, ControllerFields DEF Ready, Fitting, QueueFits, Ordered
<1>6b. Head(x.c.queue).type = "UNSUBSCRIBE" /\ Has(x.c.queue, {"UNSUBSCRIBE"})
  BY <1>6a, TailOrdered, TailHas
<1>6c. SubFits(d, d.queue, x.conf)
  <2>1. Early(x.c) => Untried(d, d.queue)
    BY <1>1, <1>3, <1>6a DEF SubFits, Untried
  <2>. QED  BY <1>1, <1>3, <1>6a, <2>1, SubFitsKept
<1>6d. Coming(d, d.queue) /\ Coming(d, Tail(d.queue))
  <2>1. Coming(d, x.c.queue)
    BY <1>3, <1>6a, ComingKept
  <2>. QED  BY <1>1, <1>6a, <2>1, ComingTail
<1>6e. d.lost \/ d.sub \in {"SUBSCRIBING", "ACTIVE"}
  BY <1>1, <1>6b, <1>6d DEF Coming
<1>7. Settled(y)
  BY <1>1, <1>2, <1>4, <1>5, <1>6, <1>6c, <1>6d, <1>6e
     DEF Settled, Fitting, Waits, UnderWayIn
<1>8. NewFront(x, y)
  BY <1>1, <1>2, <1>6b DEF NewFront, FrontIs
<1>. QED  BY <1>2, <1>5, <1>7, <1>8 DEF y, d

(***************************************************************************)
(* DoNextOperation: all operations that follow one another, and the one that   *)
(* lasts.  A call with a member ends only when that was asked for in front.     *)
(***************************************************************************)
Worked(x, y) ==
    /\ y \in WorldType /\ Settled(y) /\ Effect(x, y) /\ NewFront(x, y)
    /\ ~StartsWithTerm(x.c.queue) => y.call = x.call
    /\ \A v \in Users : v # x.c.queue[1].user => y.call[v] = x.call[v]

\* From a world that is ready DoNextOperation ends in one that is settled.
LEMMA OperationsWorkedOff ==
    ASSUME NEW x \in WorldType, Ready(x)
    PROVE  Worked(x, DoNextOperation[x])
<1>. DEFINE T == {n \in Nat : \A z \in WorldType :
                      Ready(z) /\ Rank(z.c.queue) = n => Worked(z, DoNextOperation[z])}
<1>1. ASSUME NEW n \in Nat, \A m \in Nat : m < n => m \in T
      PROVE  n \in T
  <2>. SUFFICES ASSUME NEW z \in WorldType, Ready(z), Rank(z.c.queue) = n
                PROVE  Worked(z, DoNextOperation[z])
    OBVIOUS
  <2>. DEFINE q == z.c.queue
              o == Head(q)
              s == Started(z, o)
              d == With(z, DelaySet(z.c))
              y == DoNextOperation[z]
  <2>0. z.c.queue \in Seq(Operation)
    BY WorldFields, ControllerFields
  <2>1. y = IF q = << >> THEN z
            ELSE IF o.delayed THEN d
            ELSE IF Follows(o) THEN DoNextOperation[s] ELSE s
    BY DoNextOperationUnfolds
  <2>. HIDE DEF y, s, d
  <2>2. CASE q = << >>
    <3>1. Effect(z, z) /\ NewFront(z, z)
      BY <2>2, SameEffect, FromSelf DEF SameUsers, SameEngine, NewFront, FrontIs
    <3>2. Settled(z)
      BY <2>2 DEF Ready, Settled, Waits
    <3>3. y = z
      BY <2>1, <2>2
    <3>. QED  BY <3>1, <3>2, <3>3 DEF Worked, y
  <2>3. CASE q # << >> /\ o.delayed
    <3>1. d \in WorldType /\ Settled(d) /\ Effect(z, d) /\ NewFront(z, d) /\ d.call = z.call
      BY <2>3, DelayedStep DEF d
    <3>2. y = d
      BY <2>1, <2>3
    <3>. QED  BY <3>1, <3>2 DEF Worked, y
  <2>4. CASE q # << >> /\ ~o.delayed /\ ~Follows(o)
    <3>1. s \in WorldType /\ Settled(s) /\ Effect(z, s) /\ NewFront(z, s) /\ s.call = z.call
      BY <2>4, LastingStep DEF s
    <3>2. y = s
      BY <2>1, <2>4
    <3>. QED  BY <3>1, <3>2 DEF Worked, y
  <2>5. CASE q # << >> /\ ~o.delayed /\ Follows(o)
    <3>1. /\ s \in WorldType /\ Ready(s) /\ Effect(z, s)
          /\ ~StartsWithTerm(s.c.queue)
          /\ ~StartsWithTerm(q) => s.call = z.call
          /\ \A v \in Users : v # q[1].user => s.call[v] = z.call[v]
      BY <2>5, FollowingStep DEF s
    <3>2. \E ext \in Endings : s.c.queue = Tail(q) \o ext
      BY <2>5, FollowingTypes DEF s
    <3>3. s.c.queue \in Seq(Operation)
      BY <3>1, WorldFields, ControllerFields
    <3>4. Rank(s.c.queue) \in Nat /\ Rank(s.c.queue) < n
      BY <2>0, <2>5, <3>2, <3>3, RankFalls, RankFacts
    <3>5. Worked(s, DoNextOperation[s])
      BY <1>1, <3>1, <3>4
    <3>6. y = DoNextOperation[s]
      BY <2>1, <2>5
    <3>7. Effect(z, y)
      BY <3>1, <3>5, <3>6, EffectTransitive DEF Worked
    <3>8. NewFront(z, y)
      BY <3>1, <3>5, <3>6, <2>0 DEF Worked, NewFront, Effect, RefsKept, References
    <3>. QED  BY <3>1, <3>5, <3>6, <3>7, <3>8 DEF Worked, y
  <2>. QED  BY <2>2, <2>3, <2>4, <2>5
<1>2. T = Nat
  <2>. HIDE DEF T
  <2>1. T \subseteq Nat
    BY DEF T
  <2>. QED  BY <1>1, <2>1, InductionOnRank
<1>3. Rank(x.c.queue) \in Nat
  BY WorldFields, ControllerFields, RankFacts
<1>. QED  BY <1>2, <1>3

-----------------------------------------------------------------------------
(***************************************************************************)
(* What an event changes before and after the operations: no operation and no  *)
(* call; no reference is made, and none that was is forgotten.                 *)
(***************************************************************************)
NoneKept(c, d) ==
    \A u \in Users, r \in References : d.refs[u][r] = "none" <=> c.refs[u][r] = "none"

\* The reference of the operation in front is still there to complete it.
FrontKept(c, d) ==
    c.queue # << >> =>
        LET o == Head(c.queue)
        IN  /\ o.type = "REFER_INVITE" =>
                  (c.refs[o.user]["invite"] \in {"sent", "accepted", "silent"} =>
                      d.refs[o.user]["invite"] \in {"sent", "accepted", "silent"})
            /\ o.type = "REFER_BYE" =>
                  (c.refs[o.user]["bye"] \in {"sent", "unsent"} =>
                      d.refs[o.user]["bye"] \in {"sent", "unsent"})

Alike(x, z) ==
    /\ z \in WorldType /\ z.conf = x.conf /\ z.call = x.call
    /\ SameQueue(x.c, z.c) /\ SameSub(x.c, z.c)
    /\ z.c.state = x.c.state /\ (z.c.open <=> x.c.open) /\ (z.c.twice <=> x.c.twice)
    /\ x.c.stale => z.c.stale
    /\ NoneKept(x.c, z.c)
    /\ LinksLive(x.c) => LinksLive(z.c)

\* Nobody is touched either.
LEMMA NoneKeptFacts ==
    ASSUME NEW c, NEW d, NoneKept(c, d)
    PROVE  /\ RefsKept(c, d)
           /\ d.queue = c.queue => \A u \in Users : Untouched(c, u) => Untouched(d, u)
BY DEF NoneKept, RefsKept, Untouched, References

\* The operations to come do not mind which references there are otherwise.
LEMMA ComingAlike ==
    ASSUME NEW c, NEW d, NEW q, Coming(c, q), WellMade(q), SameEngine(c, d), NoneKept(c, d)
    PROVE  Coming(d, q)
<1>1. \A i \in DOMAIN q : q[i].type = "REFER_INVITE" => q[i].user \in Users
  BY DEF WellMade, OfUser
<1>. QED  BY <1>1 DEF Coming, SameEngine, NoneKept, References

\* A world like one that fits, fits.
LEMMA AlikeFits ==
    ASSUME NEW x \in WorldType, NEW z, Alike(x, z)
    PROVE  /\ Fitting(x) => Fitting(z)
           /\ Settled(x) /\ FrontKept(x.c, z.c) => Settled(z)
<1>1. /\ z.c.queue = x.c.queue /\ (z.c.delay <=> x.c.delay)
      /\ z.c.sub = x.c.sub /\ (z.c.closed <=> x.c.closed)
      /\ z.c.eng = x.c.eng /\ (z.c.lost <=> x.c.lost) /\ SameEngine(x.c, z.c)
      /\ z.conf = x.conf /\ z.c.state = x.c.state /\ NoneKept(x.c, z.c)
      /\ (z.c.open <=> x.c.open) /\ (z.c.twice <=> x.c.twice) /\ (x.c.stale => z.c.stale)
  BY DEF Alike, SameQueue, SameSub, SameEngine
<1>1a. x.c.queue \in Seq(Operation)
  BY WorldFields, ControllerFields
<1>2. Fitting(x) => Fitting(z)
  <2>. SUFFICES ASSUME Fitting(x) PROVE Fitting(z)
    OBVIOUS
  <2>1. QueueFits(z.c.queue, z.c.open, z.c.sub, z.conf, z.c.state)
    BY <1>1 DEF Fitting, QueueFits
  <2>2. SubFits(z.c, z.c.queue, z.conf)
    <3>1. Early(x.c) => Untried(z.c, x.c.queue)
      BY <1>1 DEF Fitting, SubFits, Untried, NoneKept
    <3>. QED  BY <1>1, <3>1, SubFitsKept DEF Fitting
  <2>3. z.c.queue # << >> => Coming(z.c, Tail(z.c.queue))
    <3>. SUFFICES ASSUME x.c.queue # << >> PROVE Coming(z.c, Tail(x.c.queue))
      BY <1>1
    <3>. DEFINE t == Tail(x.c.queue)
    <3>1. Coming(x.c, t) /\ WellMade(t)
      BY <1>1a, TailOrdered DEF Fitting, QueueFits, Ordered
    <3>. HIDE DEF t
    <3>2. Coming(z.c, t)
      BY <1>1, <3>1, ComingAlike
    <3>. QED  BY <3>2 DEF t
  <2>. QED  BY <1>1, <2>1, <2>2, <2>3 DEF Fitting, Alike
<1>3. Fitting(x) /\ Waits(x) /\ FrontKept(x.c, z.c) => Waits(z)
  <2>. SUFFICES ASSUME Fitting(x), Waits(x), FrontKept(x.c, z.c) PROVE Waits(z)
    OBVIOUS
  <2>. DEFINE o == Head(x.c.queue)
  <2>2. CASE x.c.queue # << >>
    <3>1. /\ o.type = "REFER_INVITE" =>
                (x.c.refs[o.user]["invite"] \in {"sent", "accepted", "silent"} =>
                    z.c.refs[o.user]["invite"] \in {"sent", "accepted", "silent"})
          /\ o.type = "REFER_BYE" =>
                (x.c.refs[o.user]["bye"] \in {"sent", "unsent"} =>
                    z.c.refs[o.user]["bye"] \in {"sent", "unsent"})
      BY <2>2 DEF FrontKept
    <3>2. UnderWayIn(x, o)
      BY <2>2 DEF Waits
    <3>. HIDE DEF o
    <3>3. UnderWayIn(z, o)
      BY <1>1, <3>1, <3>2 DEF UnderWayIn
    <3>4. x.c.delay => o.delayed
      BY DEF Waits, o
    <3>. QED  BY <1>1, <2>2, <3>3, <3>4 DEF Waits, o
  <2>3. CASE x.c.queue = << >>
    BY <1>1, <2>3 DEF Waits
  <2>. QED  BY <2>2, <2>3
<1>. QED  BY <1>1, <1>2, <1>3 DEF Settled

\* A controller like the one it replaces makes a world that is.
LEMMA AlikeWith ==
    ASSUME NEW x \in WorldType, NEW d \in ControllerType,
           SameQueue(x.c, d), SameSub(x.c, d), d.state = x.c.state,
           d.open <=> x.c.open, d.twice <=> x.c.twice, x.c.stale => d.stale,
           NoneKept(x.c, d), LinksLive(x.c) => LinksLive(d)
    PROVE  Alike(x, With(x, d))
BY WorldFields DEF Alike

\* The same references are alike.
LEMMA SameRefs ==
    ASSUME NEW c, NEW d, d.refs = c.refs
    PROVE  NoneKept(c, d) /\ FrontKept(c, d)
BY DEF NoneKept, FrontKept

(***************************************************************************)
(* CompleteCurrentAndDoNextOperation.  Only a REFER_INVITE that is done may end *)
(* a call, and only that with its own user.                                    *)
(***************************************************************************)
\* A world that is settled is settled again, with the front gone if it fitted.
LEMMA CompleteWorks ==
    ASSUME NEW x \in WorldType, Fitting(x), NEW type, NEW u,
           type = "SUBSCRIBE" => x.c.sub # "none"
    PROVE  LET y == Complete(x, type, u)
           IN  /\ y \in WorldType /\ Effect(x, y)
               /\ ~Fits(x.c, type, u) => y = x
               /\ Fits(x.c, type, u) =>
                     /\ Settled(y) /\ NewFront(x, y) /\ From(y.c.queue, Tail(x.c.queue))
                     /\ x.c.eng = "none" /\ ~Has(Tail(x.c.queue), {"SUBSCRIBE"}) =>
                           y.c.eng = "none"
               /\ \A v \in Users : y.call[v] # x.call[v] =>
                     /\ type = "REFER_INVITE" /\ Fits(x.c, type, u)
                     /\ v = Head(x.c.queue).user /\ x.c.state # "JOINING"
<1>. DEFINE y == Complete(x, type, u)
            q == x.c.queue
            d == Popped(x.c)
            p == With(x, d)
            z == DoNextOperation[p]
<1>1. CASE ~Fits(x.c, type, u)
  <2>1. y = x
    BY <1>1 DEF Complete
  <2>2. Effect(x, x)
    BY SameEffect, FromSelf DEF SameUsers, SameEngine
  <2>. HIDE DEF y
  <2>. QED  BY <1>1, <2>1, <2>2 DEF y
<1>2. CASE Fits(x.c, type, u)
  <2>1. /\ q # << >> /\ Head(q).type = type /\ x.c \in ControllerType
        /\ q \in Seq(Operation)
    BY <1>2, WorldFields, ControllerFields DEF Fits, FrontIs
  <2>2. /\ d \in ControllerType
        /\ SameTalk(x.c, d) /\ SameUsers(x.c, d) /\ SameSub(x.c, d)
        /\ d.queue = Tail(q) /\ ~d.delay
    BY <2>1, PoppedFacts
  <2>3. y = z
    BY <1>2 DEF Complete, With
  <2>. HIDE DEF d, z, y
  <2>4. p \in WorldType /\ p.c = d /\ p.conf = x.conf /\ p.call = x.call
    BY <2>2, WorldFields
  <2>. HIDE DEF p
  <2>5. /\ d.state = x.c.state /\ (d.open <=> x.c.open) /\ (d.twice <=> x.c.twice)
        /\ (d.stale <=> x.c.stale) /\ d.sub = x.c.sub /\ (d.closed <=> x.c.closed)
        /\ SameEngine(x.c, d) /\ SameInvites(x.c, d, Users) /\ d.refs = x.c.refs
    BY <2>2 DEF SameTalk, SameSub, SameEngine, SameUsers, SameInvites
  <2>6. /\ QueueFits(Tail(q), x.c.open, x.c.sub, x.conf, x.c.state)
        /\ Has(Tail(q), {"SUBSCRIBE"}) => x.c.sub = "none"
        /\ ~Has(Tail(q), {"CREATE_CONFERENCE_CALL"})
    BY <2>1, FitsWithoutFront DEF Fitting
  <2>7. QueueFits(d.queue, d.open, d.sub, p.conf, d.state)
    BY <2>2, <2>4, <2>5, <2>6 DEF QueueFits
  <2>8. /\ Tail(q) \in Seq(Operation) /\ From(Tail(q), q) /\ WellMade(Tail(q))
        /\ Has(Tail(q), {"CHECK_CONNECTED"}) => Has(q, {"CHECK_CONNECTED"})
    BY <2>1, <2>6, QueueFacts, FromTail, TailHas DEF QueueFits, Ordered
  <2>9. Effect(x, p) /\ (LinksLive(x.c) => LinksLive(p.c))
    BY <2>2, <2>4, <2>5, <2>8, SameEffect
  <2>9a. SubFits(d, d.queue, p.conf)
    <3>1. Early(x.c) => Untried(x.c, Tail(q))
      BY <2>1, UntriedTail DEF Fitting, SubFits, Early
    <3>2. Early(x.c) => Untried(d, Tail(q))
      BY <2>5, <3>1 DEF Untried
    <3>. QED  BY <2>2, <2>4, <2>5, <2>8, <3>2, SubFitsKept DEF Fitting
  <2>9b. Coming(d, d.queue) /\ (d.queue # << >> => Coming(d, Tail(d.queue)))
    <3>1. Coming(x.c, Tail(q))
      BY <2>1 DEF Fitting
    <3>2. Coming(d, Tail(q))
      BY <2>5, <2>8, <3>1, ComingKept
    <3>. QED  BY <2>2, <2>8, <3>2, ComingTail
  <2>10. Ready(p)
    BY <2>2, <2>4, <2>5, <2>6, <2>7, <2>9, <2>9a, <2>9b DEF Ready, Fitting
  <2>11. Worked(p, z)
    BY <2>4, <2>10, OperationsWorkedOff DEF z
  <2>12. Effect(x, z)
    BY <2>9, <2>11, EffectTransitive DEF Worked
  <2>13. /\ From(z.c.queue, Tail(q)) /\ NewFront(x, z)
         /\ x.c.eng = "none" /\ ~Has(Tail(q), {"SUBSCRIBE"}) => z.c.eng = "none"
    BY <2>2, <2>4, <2>5, <2>11 DEF Worked, Effect, NewFront, SameEngine
  <2>14. ASSUME NEW v \in Users, z.call[v] # x.call[v]
         PROVE  /\ type = "REFER_INVITE" /\ v = Head(q).user /\ x.c.state # "JOINING"
    <3>1. StartsWithTerm(Tail(q)) /\ v = Tail(q)[1].user
      BY <2>2, <2>4, <2>11, <2>14 DEF Worked
    <3>2. Head(q).type = "REFER_INVITE" /\ Head(q).user = Tail(q)[1].user
      BY <2>1, <3>1, TailOrdered DEF Fitting, QueueFits
    <3>3. Has(Tail(q), {"TERMINATE_1TO1_CALL"})
      <4>1. Tail(q) \in Seq(Operation) /\ Tail(q) # << >>
        BY <2>1, <3>1, QueueFacts DEF StartsWithTerm
      <4>2. 1 \in DOMAIN Tail(q)
        BY <4>1, QueueFacts
      <4>. QED  BY <3>1, <4>2 DEF Has, StartsWithTerm
    <3>. QED  BY <2>1, <2>6, <3>1, <3>2, <3>3 DEF QueueFits
  <2>. QED  BY <1>2, <2>3, <2>11, <2>12, <2>13, <2>14 DEF Worked, y
<1>. QED  BY <1>1, <1>2

(***************************************************************************)
(* Put.                                                                     *)
(***************************************************************************)
\* What is to come finds what it needs when each part does.
LEMMA ComingConcat ==
    ASSUME NEW c, NEW q \in Seq(Operation), NEW p \in Seq(Operation), Coming(c, q), Coming(c, p)
    PROVE  Coming(c, q \o p)
<1>. DEFINE s == q \o p
<1>1. Has(s, {"UNSUBSCRIBE"}) <=> (Has(q, {"UNSUBSCRIBE"}) \/ Has(p, {"UNSUBSCRIBE"}))
  BY ConcatHas
<1>2. /\ Len(q) \in Nat /\ Len(p) \in Nat /\ DOMAIN q = 1..Len(q)
      /\ DOMAIN p = 1..Len(p)
      /\ DOMAIN s = 1..(Len(q) + Len(p))
      /\ \A i \in 1..Len(q) : s[i] = q[i]
      /\ \A i \in (Len(q) + 1)..(Len(q) + Len(p)) :
            s[i] = p[i - Len(q)] /\ i - Len(q) \in 1..Len(p)
  BY QueueFacts, ConcatFacts
<1>. HIDE DEF s
<1>3. \A i \in DOMAIN s : \/ i \in DOMAIN q /\ s[i] = q[i]
                          \/ i - Len(q) \in DOMAIN p /\ s[i] = p[i - Len(q)]
  BY <1>2
<1>. QED  BY <1>1, <1>3 DEF Coming, s

\* Operations that fit behind the queue leave a settled world.
LEMMA PutWorks ==
    ASSUME NEW x \in WorldType, Settled(x), NEW ops \in Seq(Operation), ~StartsWithTerm(ops),
           QueueFits(x.c.queue \o ops, x.c.open, x.c.sub, x.conf, x.c.state),
           Has(ops, {"SUBSCRIBE"}) => x.c.sub = "none",
           ~Has(ops, Closing), Has(ops, {"CREATE_CONFERENCE_CALL"}) => x.conf # "ENDED",
           SubFits(x.c, x.c.queue \o ops, x.conf), Coming(x.c, ops)
    PROVE  LET y == Put(x, ops)
               z == With(x, Appended(x.c, ops))
           IN  /\ y \in WorldType /\ Settled(y) /\ Effect(z, y) /\ y.call = x.call
               /\ z \in WorldType /\ z.c.queue = x.c.queue \o ops
               /\ SameTalk(x.c, z.c) /\ SameUsers(x.c, z.c) /\ SameSub(x.c, z.c)
<1>. DEFINE q == x.c.queue
            d == Appended(x.c, ops)
            z == With(x, d)
            y == Put(x, ops)
            n == DoNextOperation[z]
<1>1. x.c \in ControllerType /\ q \in Seq(Operation)
  BY WorldFields, ControllerFields
<1>2. /\ d \in ControllerType
      /\ SameTalk(x.c, d) /\ SameUsers(x.c, d) /\ SameSub(x.c, d)
      /\ d.queue = q \o ops /\ (d.delay <=> x.c.delay)
  BY <1>1, AppendedFacts
<1>3. y = IF q = << >> THEN n ELSE z
  BY DEF Put, With
<1>. HIDE DEF d, n, y
<1>4. z \in WorldType /\ z.c = d /\ z.conf = x.conf /\ z.call = x.call
  BY <1>2, WorldFields
<1>. HIDE DEF z
<1>5. /\ d.state = x.c.state /\ (d.open <=> x.c.open) /\ (d.twice <=> x.c.twice)
      /\ (d.stale <=> x.c.stale) /\ d.sub = x.c.sub /\ (d.closed <=> x.c.closed)
      /\ (d.lost <=> x.c.lost) /\ d.eng = x.c.eng /\ d.refs = x.c.refs
      /\ SameEngine(x.c, d) /\ SameInvites(x.c, d, Users)
  BY <1>2 DEF SameTalk, SameSub, SameUsers, SameEngine, SameInvites
<1>5a. Ordered(q \o ops) /\ q \o ops \in Seq(Operation) /\ (q # << >> => q \o ops # << >>)
  BY <1>1, ConcatFacts, TailOfConcat DEF QueueFits
<1>5b. SubFits(d, q \o ops, x.conf)
  <2>1. Early(x.c) => Untried(d, q \o ops)
    BY <1>5 DEF SubFits, Untried
  <2>. QED  BY <1>5, <2>1, SubFitsKept
<1>5c. q # << >> => Coming(d, Tail(q \o ops))
  <2>. SUFFICES ASSUME q # << >> PROVE Coming(d, Tail(q \o ops))
    OBVIOUS
  <2>1. Tail(q \o ops) = Tail(q) \o ops /\ Tail(q) \in Seq(Operation)
    BY <1>1, TailOfConcat, QueueFacts
  <2>2. Coming(x.c, Tail(q))
    BY DEF Settled, Fitting
  <2>. DEFINE t == Tail(q \o ops)
  <2>3. Coming(x.c, t)
    BY <2>1, <2>2, ComingConcat
  <2>4. WellMade(t)
    BY <1>5a, TailOrdered DEF Ordered
  <2>. HIDE DEF t
  <2>5. Coming(d, t)
    BY <1>5, <2>3, <2>4, ComingKept
  <2>. QED  BY <2>5 DEF t
<1>5d. Coming(d, ops) /\ (q = << >> /\ ops # << >> => Coming(d, Tail(ops)))
  <2>1. q = << >> => WellMade(ops)
    <3>1. q = << >> => q \o ops = ops
      BY ConcatEmptySeq
    <3>. QED  BY <1>5a, <3>1 DEF Ordered
  <2>2. \A i \in DOMAIN ops : ops[i].type = "REFER_INVITE" =>
           d.refs[ops[i].user]["invite"] = "none"
    BY <1>5 DEF Coming
  <2>3. Coming(d, ops)
    BY <1>5, <2>2 DEF Coming
  <2>. QED  BY <2>3, ComingTail
<1>6. Fitting(z)
  <2>1. QueueFits(d.queue, d.open, d.sub, z.conf, d.state)
    BY <1>2, <1>4, <1>5 DEF QueueFits
  <2>2. (x.c.twice => x.c.stale) /\ LinksLive(x.c)
    BY DEF Settled, Fitting
  <2>3. LinksLive(d)
    BY <1>2, <2>2 DEF SameUsers, LinksLive, Linked
  <2>4. d.queue # << >> => Coming(d, Tail(d.queue))
    <3>1. q = << >> => q \o ops = ops
      BY ConcatEmptySeq
    <3>. QED  BY <1>2, <1>5c, <1>5d, <3>1
  <2>. QED  BY <1>2, <1>4, <1>5, <1>5b, <2>1, <2>2, <2>3, <2>4 DEF Fitting
<1>7. CASE q = << >>
  <2>1. q \o ops = ops
    BY <1>7, ConcatEmptySeq
  <2>2. Ready(z)
    BY <1>2, <1>4, <1>5, <1>5d, <1>6, <1>7, <2>1 DEF Ready, Settled
  <2>3. Worked(z, n)
    BY <1>4, <2>2, OperationsWorkedOff DEF n
  <2>. QED  BY <1>2, <1>3, <1>4, <1>7, <2>1, <2>3 DEF Worked, y, z, d
<1>8. CASE q # << >>
  <2>1. Head(q \o ops) = Head(q) /\ q \o ops # << >>
    <3>1. 1 \in 1..Len(q) /\ Head(q) = q[1] /\ (q \o ops)[1] = q[1] /\ q \o ops \in Seq(Operation)
      BY <1>1, <1>8, QueueFacts, ConcatFacts
    <3>2. q \o ops # << >>
      BY <1>1, <1>8, TailOfConcat
    <3>. QED  BY <3>1, <3>2, QueueFacts
  <2>2. UnderWayIn(x, Head(q)) => UnderWayIn(z, Head(q))
    BY <1>2, <1>4, <1>5 DEF UnderWayIn
  <2>3. Settled(z)
    BY <1>2, <1>4, <1>5, <1>6, <1>8, <2>1, <2>2 DEF Settled, Waits
  <2>4. Effect(z, z)
    BY <1>4, SameEffect, FromSelf DEF SameUsers, SameEngine
  <2>. QED  BY <1>2, <1>3, <1>4, <1>8, <2>3, <2>4 DEF y, z, d
<1>. QED  BY <1>7, <1>8

TerminateOps == <<Op("TERMINATE_CONFERENCE", NoUser)>>

\* The end of the conference always fits there.
LEMMA PutTerminateWorks ==
    ASSUME NEW x \in WorldType, Settled(x), x.c.state # "CREATED"
    PROVE  LET y == Put(x, TerminateOps)
           IN  /\ y \in WorldType /\ Settled(y) /\ y.call = x.call
               /\ \A u \in Users : Untouched(x.c, u) => Untouched(y.c, u)
<1>. DEFINE q == x.c.queue
            o == Op("TERMINATE_CONFERENCE", NoUser)
            ops == <<o>>
            z == With(x, Appended(x.c, ops))
            y == Put(x, ops)
<1>1. o \in Operation /\ o.type = "TERMINATE_CONFERENCE" /\ ~o.delayed
  BY OpTypes DEF Immediate
<1>. HIDE DEF o
<1>2. ops \in Seq(Operation) /\ DOMAIN ops = {1} /\ ops[1] = o
  BY <1>1
<1>. HIDE DEF ops
<1>3. Ordered(ops) /\ ~StartsWithTerm(ops) /\ ~Pending(ops)
  BY <1>1, <1>2 DEF Ordered, WellMade, InTurn, StartsWithTerm, Pending, OfUser
<1>4. \A T : "TERMINATE_CONFERENCE" \notin T => ~Has(ops, T)
  BY <1>1, <1>2 DEF Has
<1>4a. /\ ~Has(ops, {"REFER_INVITE"}) /\ ~Has(ops, Needing) /\ ~Has(ops, {"CHECK_CONNECTED"})
       /\ ~Has(ops, {"CREATE_CONFERENCE_CALL"})
  BY <1>4 DEF Needing
<1>5. /\ ~Has(ops, Closing) /\ ~Has(ops, {"UNSUBSCRIBE"}) /\ ~Has(ops, {"SUBSCRIBE"})
      /\ \A T : T \cap (Closing \cup {"TERMINATE_CONFERENCE"}) = {} => ~Has(ops, T)
  BY <1>4 DEF Closing
<1>6. q \in Seq(Operation)
  BY WorldFields, ControllerFields
<1>7. QueueFits(q, x.c.open, x.c.sub, x.conf, x.c.state)
  BY DEF Settled, Fitting
<1>8. QueueFits(q \o ops, x.c.open, x.c.sub, x.conf, x.c.state)
  BY <1>2, <1>3, <1>5, <1>6, <1>7, FitsWithMore
<1>8a. SubFits(x.c, q \o ops, x.conf)
  <2>1. Early(x.c) => Untried(x.c, q \o ops)
    BY <1>2, <1>4a, <1>6, UntriedMore DEF Settled, Fitting, SubFits
  <2>2. Has(q \o ops, {"CHECK_CONNECTED"}) => Has(q, {"CHECK_CONNECTED"})
    BY <1>2, <1>4a, <1>6, ConcatHas
  <2>3. SubFits(x.c, q, x.conf) /\ SameEngine(x.c, x.c)
    BY DEF Settled, Fitting, SameEngine
  <2>. QED  BY <2>1, <2>2, <2>3, SubFitsKept
<1>8b. Coming(x.c, ops)
  BY <1>4a, <1>5 DEF Coming, Has
<1>. HIDE DEF z, y
<1>9. /\ y \in WorldType /\ Settled(y) /\ Effect(z, y) /\ y.call = x.call
      /\ z \in WorldType /\ z.c.queue = q \o ops
      /\ SameTalk(x.c, z.c) /\ SameUsers(x.c, z.c) /\ SameSub(x.c, z.c)
  BY <1>2, <1>3, <1>4a, <1>5, <1>8, <1>8a, <1>8b, PutWorks DEF y, z
<1>10. ASSUME NEW u \in Users, Untouched(x.c, u)
       PROVE  Untouched(y.c, u)
  <2>1. \A i \in DOMAIN (q \o ops) : \/ i \in DOMAIN q /\ (q \o ops)[i] = q[i]
                                    \/ (q \o ops)[i] = o
    <3>1. /\ Len(q) \in Nat /\ DOMAIN q = 1..Len(q) /\ Len(ops) = 1
          /\ DOMAIN (q \o ops) = 1..(Len(q) + Len(ops))
          /\ \A i \in 1..Len(q) : (q \o ops)[i] = q[i]
          /\ \A i \in (Len(q) + 1)..(Len(q) + Len(ops)) :
                (q \o ops)[i] = ops[i - Len(q)] /\ i - Len(q) \in 1..Len(ops)
      <4>1. Len(ops) \in Nat /\ DOMAIN ops = 1..Len(ops)
        BY <1>2, QueueFacts
      <4>2. Len(ops) = 1
        BY <1>2, <4>1
      <4>. QED  BY <1>2, <1>6, <4>2, QueueFacts, ConcatFacts
    <3>. QED  BY <1>2, <3>1
  <2>2. Untouched(z.c, u)
    BY <1>1, <1>9, <1>10, <2>1 DEF Untouched, SameUsers
  <2>. QED  BY <1>9, <2>2 DEF Effect
<1>. QED  BY <1>9, <1>10 DEF y, ops, o, TerminateOps

(***************************************************************************)
(* Recover.                                                                 *)
(***************************************************************************)
GivenUp(x, y) ==
    /\ y \in WorldType /\ Settled(y) /\ y.conf = x.conf /\ y.call = x.call
    /\ y.c.queue = << >> /\ ~y.c.delay /\ (y.c.stale <=> x.c.stale)
    /\ SameUsers(x.c, y.c) /\ SameSub(x.c, y.c) /\ y.c.state # "CREATED"

\* A merge given up leaves a settled world and no command open.
LEMMA MergeFailedWorks ==
    ASSUME NEW x \in WorldType, Fitting(x), Has(x.c.queue, Asking)
    PROVE  /\ GivenUp(x, With(x, MergeFailed(x.c)))
           /\ ~Early(x.c) => GivenUp(x, GiveUp(x))
<1>. DEFINE d == MergeFailed(x.c)
            e == StateSet(d, "IDLE")
<1>1. x.c \in ControllerType /\ x.c.queue \in Seq(Operation)
  BY WorldFields, ControllerFields
<1>2. /\ d \in ControllerType
      /\ SameUsers(x.c, d) /\ SameSub(x.c, d)
      /\ d.state = x.c.state /\ ~d.open /\ (d.stale <=> x.c.stale)
      /\ d.twice <=> (x.c.twice \/ ~x.c.open)
      /\ d.queue = << >> /\ ~d.delay
  BY <1>1, MergeFailedFacts
<1>3. GiveUp(x) = With(x, e)
  BY DEF GiveUp, With, StateSet
<1>. HIDE DEF d
<1>4. /\ e \in ControllerType /\ e.state = "IDLE"
      /\ SameQueue(d, e) /\ SameUsers(d, e) /\ SameSub(d, e)
      /\ (e.open <=> d.open) /\ (e.twice <=> d.twice) /\ (e.stale <=> d.stale)
  BY <1>2, FieldFacts DEF States
<1>. HIDE DEF e
<1>5. /\ x.c.open /\ x.c.state # "CREATED" /\ (x.c.twice => x.c.stale) /\ LinksLive(x.c)
  <2>1. x.c.queue # << >>
    BY DEF Has
  <2>. QED  BY <2>1 DEF Fitting, QueueFits
<1>6. ASSUME NEW b \in ControllerType, b.queue = << >>, ~b.delay, b.stale <=> x.c.stale,
             b.twice <=> x.c.twice, SameUsers(x.c, b), SameSub(x.c, b), b.state # "CREATED",
             Early(x.c) => b.state = x.c.state
      PROVE  GivenUp(x, With(x, b))
  <2>. DEFINE y == With(x, b)
  <2>1. y \in WorldType /\ y.c = b /\ y.conf = x.conf /\ y.call = x.call
    BY <1>6, WorldFields
  <2>. HIDE DEF y
  <2>2. QueueFits(b.queue, b.open, b.sub, x.conf, b.state)
    BY <1>6, EmptyFits
  <2>3. LinksLive(b)
    BY <1>5, <1>6 DEF SameUsers, LinksLive, Linked
  <2>3a. SubFits(b, << >>, x.conf)
    <3>1. ~Has(<< >>, {"CHECK_CONNECTED"})
      BY EmptyFits
    <3>2. Early(x.c) => Untried(b, << >>)
      BY <1>6 DEF Fitting, SubFits, Untried, SameUsers
    <3>3. SubFits(x.c, x.c.queue, x.conf) /\ SameEngine(x.c, b)
      BY <1>6 DEF Fitting, SameSub, SameEngine
    <3>. QED  BY <3>1, <3>2, <3>3, SubFitsKept
  <2>4. Settled(y)
    BY <1>5, <1>6, <2>1, <2>2, <2>3, <2>3a DEF Settled, Fitting, Waits
  <2>. QED  BY <1>6, <2>1, <2>4 DEF GivenUp, y
<1>7. GivenUp(x, With(x, d))
  BY <1>2, <1>5, <1>6
<1>8. ~Early(x.c) => GivenUp(x, With(x, e))
  <2>1. e.queue = << >> /\ ~e.delay /\ SameUsers(x.c, e) /\ SameSub(x.c, e)
    BY <1>2, <1>4 DEF SameQueue, SameUsers, SameSub
  <2>. QED  BY <1>2, <1>4, <1>5, <1>6, <2>1
<1>. QED  BY <1>3, <1>7, <1>8 DEF d

\* The end of the call with v is due to the REFER in front, which is v's and decided.
OwnEnd(x, y, v) ==
    /\ FrontIs(x.c, "REFER_INVITE") /\ v = Head(x.c.queue).user
    /\ y.c.part[v].in => y.c.part[v].status \in {"connected", "disconnected"}

\* Recover ends in a settled world; a call that ends is that of the REFER in front.
LEMMA RecoverWorks ==
    ASSUME NEW x \in WorldType, Settled(x), NEW y \in Recover(x)
    PROVE  /\ y \in WorldType /\ Settled(y)
           /\ x.c.closed => y.c.closed
           /\ y.c.stale <=> x.c.stale
           /\ RefsKept(x.c, y.c) /\ NewFront(x, y)
           /\ \A u \in Users : Untouched(x.c, u) => Untouched(y.c, u)
           /\ \A v \in Users : y.call[v] # x.call[v] => OwnEnd(x, y, v)
<1>. DEFINE q == x.c.queue
            Goal == /\ y \in WorldType /\ Settled(y)
                    /\ x.c.closed => y.c.closed
                    /\ y.c.stale <=> x.c.stale
                    /\ RefsKept(x.c, y.c) /\ NewFront(x, y)
                    /\ \A u \in Users : Untouched(x.c, u) => Untouched(y.c, u)
                    /\ \A v \in Users : y.call[v] # x.call[v] => OwnEnd(x, y, v)
<1>1. x.c \in ControllerType /\ q \in Seq(Operation) /\ Fitting(x)
  BY WorldFields, ControllerFields DEF Settled
<1>2. GivenUp(x, y) => Goal
  <2>1. DOMAIN << >> = {}
    OBVIOUS
  <2>. QED  BY <2>1 DEF GivenUp, SameUsers, SameSub, RefsKept, NewFront, FrontIs, Untouched
<1>3. CASE FrontIs(x.c, "CREATE_CONFERENCE_CALL")
  <2>1. y = With(x, MergeFailed(x.c))
    BY <1>3 DEF Recover, With, FrontIs
  <2>2. Has(q, Asking)
    BY <1>1, <1>3, TailHas DEF FrontIs, Asking
  <2>3. GivenUp(x, y)
    BY <1>1, <2>1, <2>2, MergeFailedWorks
  <2>. QED  BY <1>2, <2>3
<1>4. CASE FrontIs(x.c, "REFER_INVITE")
  <2>. DEFINE u == Head(q).user
  <2>0. ~FrontIs(x.c, "CREATE_CONFERENCE_CALL")
    BY <1>4 DEF FrontIs
  <2>1. PICK st \in Statuses(x.c, u) : y = RecoverOnReferring(x, st)
    <3>1. Recover(x) = {RecoverOnReferring(x, st) : st \in Statuses(x.c, u)}
      BY <1>4, <2>0 DEF Recover
    <3>. QED  BY <3>1
  <2>2. Has(q, Asking) /\ u \in Users
    <3>1. q # << >> /\ Head(q).type = "REFER_INVITE"
      BY <1>4 DEF FrontIs
    <3>2. Has(q, Asking)
      BY <1>1, <3>1, TailHas DEF Asking
    <3>3. u \in Users
      BY <1>1, <3>1, TailOrdered DEF Fitting, QueueFits, OfUser
    <3>. QED  BY <3>2, <3>3
  <2>3. ~Early(x.c)
    <3>1. q # << >> /\ Head(q).type \in Needing
      BY <1>4 DEF FrontIs, Needing
    <3>. QED  BY <1>1, <3>1, UntriedTail DEF Fitting, SubFits
  <2>4. /\ GivenUp(x, With(x, MergeFailed(x.c))) /\ GivenUp(x, GiveUp(x))
    BY <1>1, <2>2, <2>3, MergeFailedWorks
  <2>5. u \in {NoUser, u} /\ Fits(x.c, "REFER_INVITE", u)
    BY <1>4 DEF Fits
  <2>6. CASE x.conf # "UP"
    <3>1. y = With(x, MergeFailed(x.c))
      BY <2>1, <2>6 DEF RecoverOnReferring, With
    <3>. QED  BY <1>2, <2>4, <3>1
  <2>7. CASE x.conf = "UP" /\ st = "connected"
    <3>1. y = Complete(x, "REFER_INVITE", u)
      BY <2>1, <2>7 DEF RecoverOnReferring
    <3>2. /\ y \in WorldType /\ Effect(x, y) /\ Settled(y) /\ NewFront(x, y)
          /\ \A v \in Users : y.call[v] # x.call[v] => v = u
      BY <1>1, <2>5, <3>1, CompleteWorks
    <3>3. y.c.part[u].in => y.c.part[u].status = "connected"
      BY <2>1, <2>2, <2>7, <3>2 DEF Effect, NobodyJoins, Statuses
    <3>. HIDE DEF u
    <3>4. \A v \in Users : y.call[v] # x.call[v] => OwnEnd(x, y, v)
      BY <1>4, <3>2, <3>3 DEF OwnEnd, u
    <3>. QED  BY <3>2, <3>4 DEF Effect
  <2>8. CASE x.conf = "UP" /\ st # "connected"
    <3>. DEFINE alone == Connected(x.c) = {} \/ Cardinality(Participants(x.c)) > 2
                out == IF x.c.part[u].in THEN Status(x.c, u, "disconnected") ELSE x.c
                z == With(x, out)
    <3>1. y = IF alone THEN GiveUp(x) ELSE Complete(z, "REFER_INVITE", u)
      BY <2>1, <2>8 DEF RecoverOnReferring, With
    <3>. HIDE DEF alone, u
    <3>2. CASE alone
      BY <1>2, <2>4, <3>1, <3>2
    <3>3. CASE ~alone
      <4>0. "disconnected" \in {"connecting", "connected", "disconnected"} /\ u # NoUser
            /\ u \in Users \cup {NoUser}
        BY <2>2 DEF Users, NoUser
      <4>1. /\ out \in ControllerType
            /\ SameQueue(x.c, out) /\ SameTalk(x.c, out) /\ SameSub(x.c, out)
            /\ out.refs = x.c.refs /\ (LinksLive(x.c) => LinksLive(out))
        <5>1. CASE x.c.part[u].in
          BY <1>1, <4>0, <5>1, StatusFacts
        <5>2. CASE ~x.c.part[u].in
          BY <1>1, <5>2 DEF SameQueue, SameTalk, SameSub
        <5>. QED  BY <5>1, <5>2
      <4>2. out.part[u].in => out.part[u].status = "disconnected"
        <5>1. CASE x.c.part[u].in
          BY <1>1, <4>0, <5>1, StatusFacts
        <5>2. CASE ~x.c.part[u].in
          BY <5>2
        <5>. QED  BY <5>1, <5>2
      <4>. HIDE DEF out
      <4>3. z \in WorldType /\ z.c = out /\ z.call = x.call
        BY <4>1, WorldFields
      <4>4. Alike(x, z)
        <5>1. NoneKept(x.c, out)
          BY <4>1, SameRefs
        <5>. QED  BY <4>1, <5>1, AlikeWith DEF SameTalk
      <4>. HIDE DEF z
      <4>5. Fitting(z)
        BY <1>1, <4>4, AlikeFits
      <4>6. Fits(z.c, "REFER_INVITE", u)
        BY <2>5, <4>1, <4>3 DEF Fits, FrontIs, SameQueue, u
      <4>6a. y = Complete(z, "REFER_INVITE", u)
        BY <3>1, <3>3
      <4>7. /\ y \in WorldType /\ Effect(z, y) /\ Settled(y) /\ NewFront(z, y)
            /\ \A v \in Users : y.call[v] # z.call[v] => v = Head(z.c.queue).user
        BY <4>3, <4>5, <4>6, <4>6a, CompleteWorks
      <4>8. Head(z.c.queue).user = u
        BY <4>1, <4>3 DEF SameQueue, u
      <4>9. y.c.part[u].in => y.c.part[u].status = "disconnected"
        BY <2>2, <4>2, <4>3, <4>7 DEF Effect, NobodyJoins, u
      <4>10. \A v \in Users : y.call[v] # x.call[v] => OwnEnd(x, y, v)
        BY <1>4, <4>3, <4>7, <4>8, <4>9 DEF OwnEnd, u
      <4>11. /\ x.c.closed => y.c.closed
             /\ y.c.stale <=> x.c.stale
             /\ RefsKept(x.c, y.c) /\ NewFront(x, y)
        BY <4>1, <4>3, <4>7 DEF Effect, SameTalk, SameSub, RefsKept, NewFront
      <4>12. \A v \in Users : Untouched(x.c, v) => Untouched(y.c, v)
        <5>1. \A v \in Users : Untouched(x.c, v) => Untouched(z.c, v)
          BY <4>1, <4>3 DEF Untouched, SameQueue
        <5>. QED  BY <4>7, <5>1 DEF Effect
      <4>. QED  BY <4>7, <4>10, <4>11, <4>12
    <3>. QED  BY <3>2, <3>3
  <2>. QED  BY <2>6, <2>7, <2>8
<1>5. CASE ~FrontIs(x.c, "CREATE_CONFERENCE_CALL") /\ ~FrontIs(x.c, "REFER_INVITE")
  <2>1. y = x
    BY <1>5 DEF Recover
  <2>. QED  BY <1>5, <2>1 DEF RefsKept, NewFront
<1>. QED  BY <1>3, <1>4, <1>5

\* When the conference call has ended, Recover gives up what is in front or does nothing.
LEMMA RecoverOfEnded ==
    ASSUME NEW x \in WorldType, Fitting(x), x.conf # "UP", NEW y \in Recover(x)
    PROVE  \/ GivenUp(x, y)
           \/ y = x /\ ~FrontIs(x.c, "CREATE_CONFERENCE_CALL") /\ ~FrontIs(x.c, "REFER_INVITE")
<1>. DEFINE q == x.c.queue
<1>1. q \in Seq(Operation)
  BY WorldFields, ControllerFields
<1>2. CASE FrontIs(x.c, "CREATE_CONFERENCE_CALL") \/ FrontIs(x.c, "REFER_INVITE")
  <2>1. Has(q, Asking)
    BY <1>1, <1>2, TailHas DEF FrontIs, Asking
  <2>2. y = With(x, MergeFailed(x.c))
    BY <1>2 DEF Recover, RecoverOnReferring, With, FrontIs
  <2>. QED  BY <2>1, <2>2, MergeFailedWorks
<1>3. CASE ~FrontIs(x.c, "CREATE_CONFERENCE_CALL") /\ ~FrontIs(x.c, "REFER_INVITE")
  <2>1. y = x
    BY <1>3 DEF Recover
  <2>. QED  BY <1>3, <2>1
<1>. QED  BY <1>2, <1>3

-----------------------------------------------------------------------------
(***************************************************************************)
(* The inductive invariant, and what a step has to show: the event ends in a   *)
(* world y that is settled, and a call that ended did so for a reason.         *)
(***************************************************************************)
\* Nobody beyond the first n has been asked in or is going to be.
Unasked(c, n) == \A u \in Users : u > n => Untouched(c, u)

IInv == TypeOK /\ Fitting(World(ctl)) /\ Waits(World(ctl)) /\ Unasked(ctl, asked)

Reason(y, v) ==
    \/ y.c.stale
    \/ OwnEnd(World(ctl), y, v)
    \/ y.c.queue = ctl.queue /\ ~y.c.closed
Lawful(y) ==
    /\ y \in WorldType /\ Settled(y)
    /\ \A v \in Users : y.call[v] # call[v] => Reason(y, v)
Outcome(y) == Lawful(y) /\ Unasked(y.c, asked)

\* The body of OwnAnswer.
AnswersOwn ==
    \A u \in Users :
        (call[u] /\ ~call'[u] /\ ctl'.queue # ctl.queue) =>
            \/ ctl'.stale
            \/ /\ FrontIs(ctl, "REFER_INVITE")
               /\ Head(ctl.queue).user = u
               /\ ctl'.part[u].in => ctl'.part[u].status \in {"connected", "disconnected"}

\* The state as a world.
LEMMA CurrentWorld ==
    ASSUME IInv
    PROVE  /\ World(ctl) \in WorldType /\ Settled(World(ctl)) /\ Fitting(World(ctl))
           /\ World(ctl).c = ctl /\ World(ctl).conf = conf /\ World(ctl).call = call
           /\ ctl \in ControllerType /\ ctl.queue \in Seq(Operation)
<1>1. /\ World(ctl) \in WorldType
      /\ World(ctl).c = ctl /\ World(ctl).conf = conf /\ World(ctl).call = call
      /\ ctl \in ControllerType
  BY DEF IInv, TypeOK, World, WorldType
<1>2. ctl.queue \in Seq(Operation)
  BY <1>1, ControllerFields
<1>. QED  BY <1>1, <1>2 DEF IInv, Settled, Waits

\* A controller that was closed is deleted with all that belongs to it.
LEMMA ReleasedFacts ==
    ASSUME NEW c \in ControllerType
    PROVE  LET d == Released(c)
           IN  /\ d \in ControllerType /\ d.closed /\ d.queue = << >> /\ ~d.delay
               /\ d.state = "CREATED" /\ d.sub = "none" /\ ~d.open
               /\ (d.twice <=> c.twice) /\ (d.stale <=> c.stale)
               /\ LinksLive(d) /\ \A u \in Users : ~d.part[u].in /\ Untouched(d, u)
               /\ \A cf : SubFits(d, << >>, cf)
<1>. DEFINE ps == [u \in Users |-> Absent]
            rs == [u \in Users |-> NoReferences]
            n == NewController
            d == Released(c)
<1>1. ps \in [Users -> Participant] /\ rs \in [Users -> Lives]
  BY AbsentType DEF NoReferences, Lives
<1>2. \A u \in Users : ~ps[u].in
  BY AbsentType
<1>3. << >> \in Seq(Operation) /\ c.twice \in BOOLEAN /\ c.stale \in BOOLEAN
  BY EmptySeq, ControllerFields
<1>4. n = [state |-> "CREATED", queue |-> << >>, delay |-> FALSE, wait |-> FALSE,
           part |-> ps, refs |-> rs, sub |-> "none", eng |-> "none", notified |-> FALSE,
           closed |-> FALSE, open |-> FALSE, twice |-> FALSE, stale |-> FALSE,
           lost |-> FALSE]
  BY Zenon DEF NewController
<1>5. d = [n EXCEPT !.closed = TRUE, !.twice = c.twice, !.stale = c.stale]
  BY Zenon DEF Released
<1>5a. \A u \in Users, r \in References : rs[u][r] = "none"
  BY DEF NoReferences
<1>. HIDE DEF ps, rs, n, d
<1>6. n \in ControllerType
  BY <1>1, <1>3, <1>4
     DEF ControllerType, Participant, Lives, Operation, States, PendingRequests
<1>7. d \in ControllerType
  BY <1>3, <1>5, <1>6 DEF ControllerType
<1>8. /\ d.closed /\ d.queue = << >> /\ ~d.delay /\ d.state = "CREATED" /\ d.sub = "none"
      /\ ~d.open /\ d.part = ps /\ d.refs = rs /\ d.eng = "none"
      /\ (d.twice <=> c.twice) /\ (d.stale <=> c.stale)
  BY <1>3, <1>4, <1>5
<1>9. DOMAIN << >> = {} /\ "invite" \in References
  BY DEF References
<1>10. \A u \in Users : ~d.part[u].in /\ Untouched(d, u)
  BY <1>2, <1>5a, <1>8, <1>9 DEF Untouched
<1>11. ASSUME NEW cf
       PROVE  SubFits(d, << >>, cf)
  BY <1>5a, <1>8, <1>9 DEF SubFits, Untried
<1>. QED  BY <1>7, <1>8, <1>10, <1>11 DEF LinksLive, Linked, d

\* The invariant follows from the outcome of an event, and so does OwnAnswer.
LEMMA OutcomeKeepsInvariant ==
    ASSUME IInv, NEW y, Lawful(y), Unasked(y.c, asked'), Becomes(y),
           commands' \in 0..MaxCommands, asked' \in 0..MaxUsers
    PROVE  IInv' /\ AnswersOwn
<1>. DEFINE d == IF y.c.closed THEN Released(y.c) ELSE y.c
            z == With(y, d)
<1>1. /\ y \in WorldType /\ Settled(y) /\ y.c \in ControllerType
      /\ Fitting(y) /\ (y.c.twice => y.c.stale) /\ LinksLive(y.c)
  BY WorldFields DEF Lawful, Settled, Fitting
<1>2. ctl' = d /\ conf' = y.conf /\ call' = y.call /\ flow' = flow
  BY DEF Becomes
<1>3. /\ d \in ControllerType /\ LinksLive(d)
      /\ (d.stale <=> y.c.stale)
      /\ \A u \in Users : d.part[u].in => y.c.part[u].in /\ d.part[u].status = y.c.part[u].status
  BY <1>1, ReleasedFacts
<1>4. Fitting(z) /\ Waits(z)
  <2>1. z \in WorldType /\ z.c = d /\ z.conf = y.conf
    BY <1>1, <1>3, WorldFields
  <2>2. CASE y.c.closed
    <3>1. /\ d.queue = << >> /\ ~d.delay /\ d.state = "CREATED" /\ d.sub = "none"
          /\ (d.twice <=> y.c.twice)
      BY <1>1, <2>2, ReleasedFacts
    <3>. HIDE DEF d, z
    <3>2. QueueFits(d.queue, d.open, d.sub, y.conf, d.state) /\ SubFits(d, d.queue, y.conf)
      BY <1>1, <2>2, <3>1, EmptyFits, ReleasedFacts DEF d
    <3>. QED  BY <1>1, <1>3, <2>1, <3>1, <3>2 DEF Fitting, Waits
  <2>3. CASE ~y.c.closed
    <3>1. d = y.c
      BY <2>3
    <3>. HIDE DEF d, z
    <3>2. Waits(y)
      BY <1>1, <2>3 DEF Settled
    <3>. QED  BY <1>1, <2>1, <3>1, <3>2 DEF Fitting, Waits, UnderWayIn
  <2>. QED  BY <2>2, <2>3
<1>. HIDE DEF d
<1>5. World(ctl)' = z
  <2>1. z = [c |-> d, conf |-> y.conf, call |-> y.call]
    BY <1>1 DEF With, WorldType
  <2>. QED  BY <1>2, <2>1 DEF World
<1>6. (Fitting(World(ctl)) /\ Waits(World(ctl)))'
  <2>. HIDE DEF z
  <2>1. (Fitting(World(ctl)))'
    BY <1>2, <1>4, <1>5 DEF Fitting, QueueFits, SubFits, Early, Untried, Coming
  <2>2. (Waits(World(ctl)))'
    BY <1>2, <1>4, <1>5 DEF Waits, UnderWayIn
  <2>. QED  BY <2>1, <2>2
<1>6a. Unasked(ctl, asked)'
  <2>1. \A u \in Users : Untouched(y.c, u) => Untouched(d, u)
    BY <1>1, ReleasedFacts DEF d
  <2>. QED  BY <1>2, <2>1 DEF Unasked, Untouched
<1>7. TypeOK'
  BY <1>1, <1>2, <1>3 DEF IInv, TypeOK, WorldType, LinksLive
<1>8. ASSUME NEW u \in Users, call[u], ~call'[u], ctl'.queue # ctl.queue
      PROVE  \/ ctl'.stale
             \/ /\ FrontIs(ctl, "REFER_INVITE")
                /\ Head(ctl.queue).user = u
                /\ ctl'.part[u].in => ctl'.part[u].status \in {"connected", "disconnected"}
  <2>1. Reason(y, u)
    BY <1>2, <1>8 DEF Lawful
  <2>2. ~(y.c.queue = ctl.queue /\ ~y.c.closed)
    BY <1>2, <1>8 DEF d
  <2>3. OwnEnd(World(ctl), y, u) => FrontIs(ctl, "REFER_INVITE") /\ u = Head(ctl.queue).user
    BY CurrentWorld DEF OwnEnd
  <2>. QED  BY <1>2, <1>3, <2>1, <2>2, <2>3 DEF Reason, OwnEnd
<1>. QED  BY <1>6, <1>6a, <1>7, <1>8 DEF IInv, AnswersOwn

(***************************************************************************)
(* Ways to an outcome.                                                      *)
(***************************************************************************)
Calm(y) == y \in WorldType /\ Fitting(y) /\ y.call = call /\ Unasked(y.c, asked)
Quiet(y) == Calm(y) /\ Settled(y)

\* A settled world in which no call has ended is an outcome.
LEMMA QuietOutcome ==
    ASSUME NEW y, Quiet(y)
    PROVE  Outcome(y)
BY DEF Quiet, Calm, Outcome, Lawful

\* Alike to a calm world is calm.
LEMMA AlikeQuiet ==
    ASSUME NEW x, Calm(x), NEW z, Alike(x, z)
    PROVE  /\ Calm(z)
           /\ Quiet(x) /\ FrontKept(x.c, z.c) => Quiet(z)
<1>1. \A u \in Users : Untouched(x.c, u) => Untouched(z.c, u)
  BY NoneKeptFacts DEF Alike, SameQueue
<1>. QED  BY <1>1, AlikeFits DEF Quiet, Calm, Unasked, Alike

\* And to an outcome an outcome.
LEMMA AlikeOutcome ==
    ASSUME NEW y, Outcome(y), NEW z, Alike(y, z), FrontKept(y.c, z.c), NobodyJoins(y.c, z.c)
    PROVE  Outcome(z)
<1>1. z \in WorldType /\ Settled(z) /\ z.call = y.call
  BY AlikeFits DEF Outcome, Lawful, Alike
<1>2. \A v \in Users : Reason(y, v) => Reason(z, v)
  BY DEF Reason, OwnEnd, Alike, SameQueue, SameSub, NobodyJoins
<1>3. \A u \in Users : Untouched(y.c, u) => Untouched(z.c, u)
  BY NoneKeptFacts DEF Alike, SameQueue
<1>. QED  BY <1>1, <1>2, <1>3 DEF Outcome, Lawful, Unasked

\* Any operation but a REFER_INVITE is completed without the end of a call.
LEMMA QuietComplete ==
    ASSUME NEW x, Calm(x), NEW type, NEW u,
           type # "REFER_INVITE" \/ x.c.state = "JOINING",
           type = "SUBSCRIBE" => x.c.sub # "none",
           ~Fits(x.c, type, u) => Settled(x)
    PROVE  LET y == Complete(x, type, u)
           IN  /\ Quiet(y) /\ Effect(x, y)
               /\ ~Fits(x.c, type, u) => y = x
               /\ Fits(x.c, type, u) =>
                     /\ NewFront(x, y) /\ From(y.c.queue, Tail(x.c.queue))
                     /\ x.c.eng = "none" /\ ~Has(Tail(x.c.queue), {"SUBSCRIBE"}) =>
                           y.c.eng = "none"
<1>1. x \in WorldType /\ Fitting(x)
  BY DEF Calm
<1>. DEFINE y == Complete(x, type, u)
<1>2. /\ y \in WorldType /\ Effect(x, y)
      /\ ~Fits(x.c, type, u) => y = x
      /\ Fits(x.c, type, u) =>
            /\ Settled(y) /\ NewFront(x, y) /\ From(y.c.queue, Tail(x.c.queue))
            /\ x.c.eng = "none" /\ ~Has(Tail(x.c.queue), {"SUBSCRIBE"}) => y.c.eng = "none"
      /\ \A v \in Users : y.call[v] = x.call[v]
  BY <1>1, CompleteWorks
<1>. HIDE DEF y
<1>3. y.call = x.call
  <2>1. y.call \in [Users -> BOOLEAN] /\ x.call \in [Users -> BOOLEAN]
    BY <1>1, <1>2, WorldFields
  <2>. QED  BY <1>2, <2>1
<1>4. Settled(y) /\ Unasked(y.c, asked)
  BY <1>2 DEF Calm, Unasked, Effect
<1>. QED  BY <1>2, <1>3, <1>4 DEF Quiet, Calm, Settled, y

\* A REFER_INVITE is, if the user in front has been decided or the event was stale.
LEMMA InviteComplete ==
    ASSUME IInv, NEW x, Alike(World(ctl), x), FrontKept(ctl, x.c), NEW u,
           LET v == Head(ctl.queue).user
           IN  Fits(ctl, "REFER_INVITE", u) =>
                  \/ x.c.stale
                  \/ x.c.part[v].in => x.c.part[v].status \in {"connected", "disconnected"}
    PROVE  LET y == Complete(x, "REFER_INVITE", u)
           IN  /\ Outcome(y) /\ RefsKept(x.c, y.c)
               /\ ~Fits(ctl, "REFER_INVITE", u) => y = x
               /\ Fits(ctl, "REFER_INVITE", u) => NewFront(x, y)
<1>. DEFINE w == World(ctl)
            y == Complete(x, "REFER_INVITE", u)
<1>1. /\ x \in WorldType /\ Settled(x) /\ Fitting(x) /\ x.call = call /\ x.c.queue = ctl.queue
      /\ Unasked(x.c, asked)
  <2>1. \A v \in Users : Untouched(ctl, v) => Untouched(x.c, v)
    BY CurrentWorld, NoneKeptFacts DEF Alike, SameQueue
  <2>2. Unasked(x.c, asked)
    BY <2>1 DEF IInv, Unasked
  <2>. QED  BY <2>2, CurrentWorld, AlikeFits DEF Alike, SameQueue
<1>2. /\ y \in WorldType /\ Effect(x, y)
      /\ ~Fits(x.c, "REFER_INVITE", u) => y = x
      /\ Fits(x.c, "REFER_INVITE", u) => Settled(y) /\ NewFront(x, y)
      /\ \A v \in Users : y.call[v] # x.call[v] =>
            Fits(x.c, "REFER_INVITE", u) /\ v = Head(x.c.queue).user
  BY <1>1, CompleteWorks
<1>. HIDE DEF y
<1>3. Fits(x.c, "REFER_INVITE", u) <=> Fits(ctl, "REFER_INVITE", u)
  BY <1>1 DEF Fits, FrontIs
<1>4. ASSUME NEW v \in Users, y.call[v] # call[v]
      PROVE  Reason(y, v)
  <2>1. Fits(ctl, "REFER_INVITE", u) /\ v = Head(ctl.queue).user
    BY <1>1, <1>2, <1>3, <1>4
  <2>2. CASE x.c.stale
    BY <1>2, <2>2 DEF Effect, Reason
  <2>3. CASE x.c.part[v].in => x.c.part[v].status \in {"connected", "disconnected"}
    <3>1. y.c.part[v].in => y.c.part[v].status \in {"connected", "disconnected"}
      BY <1>2, <2>3 DEF Effect, NobodyJoins
    <3>2. OwnEnd(w, y, v)
      BY <2>1, <3>1, CurrentWorld DEF OwnEnd, Fits
    <3>. QED  BY <3>2 DEF Reason
  <2>. QED  BY <2>1, <2>2, <2>3
<1>5. Unasked(y.c, asked) /\ RefsKept(x.c, y.c)
  BY <1>1, <1>2 DEF Unasked, Effect
<1>. QED  BY <1>1, <1>2, <1>3, <1>4, <1>5 DEF Outcome, Lawful, y

\* Recover ends in an outcome.
LEMMA RecoverOutcome ==
    ASSUME IInv, NEW x, Alike(World(ctl), x), FrontKept(ctl, x.c), NEW y \in Recover(x)
    PROVE  Outcome(y) /\ RefsKept(x.c, y.c) /\ NewFront(x, y)
<1>1. /\ x \in WorldType /\ Settled(x) /\ x.call = call /\ x.c.queue = ctl.queue
      /\ Unasked(x.c, asked)
  <2>1. \A v \in Users : Untouched(ctl, v) => Untouched(x.c, v)
    BY CurrentWorld, NoneKeptFacts DEF Alike, SameQueue
  <2>2. Unasked(x.c, asked)
    BY <2>1 DEF IInv, Unasked
  <2>. QED  BY <2>2, CurrentWorld, AlikeFits DEF Alike, SameQueue
<1>2. /\ y \in WorldType /\ Settled(y) /\ RefsKept(x.c, y.c) /\ NewFront(x, y)
      /\ \A v \in Users : Untouched(x.c, v) => Untouched(y.c, v)
      /\ \A v \in Users : y.call[v] # x.call[v] => OwnEnd(x, y, v)
  BY <1>1, RecoverWorks
<1>3. \A v \in Users : OwnEnd(x, y, v) => OwnEnd(World(ctl), y, v)
  BY <1>1, CurrentWorld DEF OwnEnd, FrontIs
<1>4. Unasked(y.c, asked)
  BY <1>1, <1>2 DEF Unasked
<1>. QED  BY <1>1, <1>2, <1>3, <1>4 DEF Outcome, Lawful, Reason

-----------------------------------------------------------------------------
(***************************************************************************)
(* The events of the calls.                                                 *)
(***************************************************************************)
\* The state with another controller.
LEMMA WorldOf == \A d : World(d) = With(World(ctl), d)
BY DEF World, With

\* An event that ends in an outcome keeps the invariant.
LEMMA EventKeepsInvariant ==
    ASSUME IInv, NEW y, Outcome(y), Event(y)
    PROVE  IInv' /\ AnswersOwn
<1>1. Becomes(y) /\ commands' = commands /\ asked' = asked
  BY DEF Event
<1>2. commands' \in 0..MaxCommands /\ asked' \in 0..MaxUsers
  BY <1>1 DEF IInv, TypeOK
<1>3. Lawful(y) /\ Unasked(y.c, asked')
  BY <1>1 DEF Outcome
<1>. QED  BY <1>1, <1>2, <1>3, OutcomeKeepsInvariant

\* The conference call comes up (CREATE_CONFERENCE_CALL is completed).
LEMMA EstablishedKeeps ==
    ASSUME IInv, ConferenceEstablished
    PROVE  IInv' /\ AnswersOwn
<1>. DEFINE w == World(ctl)
            x == ConfSet(w, "UP")
            y == Complete(x, "CREATE_CONFERENCE_CALL", NoUser)
<1>1. conf = "STARTING" /\ Event(y)
  BY DEF ConferenceEstablished, ConfSet
<1>2. /\ w \in WorldType /\ Settled(w) /\ Fitting(w) /\ Waits(w)
      /\ w.c = ctl /\ w.conf = conf /\ w.call = call /\ ctl.queue \in Seq(Operation)
      /\ Unasked(ctl, asked)
  BY CurrentWorld DEF IInv
<1>3. "UP" \in ConferenceStates
  BY DEF ConferenceStates
<1>. HIDE DEF w
<1>4. x \in WorldType /\ x.c = ctl /\ x.conf = "UP" /\ x.call = call
  BY <1>2, <1>3, WorldFields
<1>. HIDE DEF x
<1>5. Fitting(x)
  <2>1. QueueFits(ctl.queue, ctl.open, ctl.sub, "UP", ctl.state) /\ SubFits(ctl, ctl.queue, "UP")
    BY <1>1, <1>2 DEF Fitting, QueueFits, SubFits
  <2>. QED  BY <1>2, <1>4, <2>1 DEF Fitting
<1>6. /\ y \in WorldType /\ Effect(x, y) /\ (~Fits(x.c, "CREATE_CONFERENCE_CALL", NoUser) => y = x)
      /\ Fits(x.c, "CREATE_CONFERENCE_CALL", NoUser) => Settled(y)
      /\ \A v \in Users : y.call[v] = x.call[v]
  BY <1>4, <1>5, CompleteWorks
<1>. HIDE DEF y
<1>7. Outcome(y)
  <2>1. ~Fits(x.c, "CREATE_CONFERENCE_CALL", NoUser) => Settled(x)
    <3>1. SUFFICES ASSUME ~Fits(ctl, "CREATE_CONFERENCE_CALL", NoUser) PROVE Settled(x)
      BY <1>4
    <3>2. ctl.queue # << >> => Head(ctl.queue).type # "CREATE_CONFERENCE_CALL"
      BY <3>1 DEF Fits, FrontIs
    <3>3. Waits(x)
      BY <1>2, <1>4, <3>2 DEF Waits, UnderWayIn
    <3>4. ctl.queue = << >> => ~ctl.delay
      BY <1>2 DEF Settled
    <3>. QED  BY <1>4, <1>5, <3>3, <3>4 DEF Settled
  <2>2. Unasked(y.c, asked)
    BY <1>2, <1>4, <1>6 DEF Unasked, Effect
  <2>. QED  BY <1>4, <1>6, <2>1, <2>2 DEF Outcome, Lawful
<1>. QED  BY <1>1, <1>7, EventKeepsInvariant

\* The conference call has ended: what is in front has been given up or goes on.
LEMMA OverWorks ==
    ASSUME NEW x \in WorldType, x.conf = "ENDED", Fitting(x), Waits(x),
           ~Has(x.c.queue, Closing)
    PROVE  LET y == With(x, ConferenceOver(x.c))
           IN  /\ y \in WorldType /\ Settled(y) /\ y.call = x.call
               /\ \A u \in Users : Untouched(x.c, u) => Untouched(y.c, u)
<1>. DEFINE c == x.c
            q == x.c.queue
            d == ConferenceOver(x.c)
            y == With(x, d)
<1>1. c \in ControllerType /\ q \in Seq(Operation)
  BY WorldFields, ControllerFields
<1>2. d \in ControllerType /\ SameTalk(c, d) /\ SameUsers(c, d) /\ SameEngine(c, d)
  BY <1>1, ConferenceOverFacts
<1>3. QueueFits(q, c.open, c.sub, "ENDED", c.state) /\ ~Pending(q)
  BY <1>1, NothingPending DEF Fitting, QueueFits
<1>4. PICK ext \in Endings :
         /\ d.queue = q \o ext
         /\ QueueFits(q \o ext, c.open, c.sub, "ENDED", c.state)
         /\ Has(ext, {"UNSUBSCRIBE"}) => c.sub = "ACTIVE"
         /\ ext = << >> => d.closed /\ (d.delay <=> c.delay)
         /\ ext # << >> => ext[1].delayed /\ (d.delay <=> (c.delay \/ q = << >>))
  <2>1. OverWith(c, q, c.open, c.state, d)
    BY <1>1, <1>3, OverFits
  <2>. HIDE DEF d
  <2>. QED  BY <2>1 DEF OverWith
<1>. HIDE DEF d
<1>5. y \in WorldType /\ y.c = d /\ y.conf = "ENDED" /\ y.call = x.call
  BY <1>2, WorldFields
<1>. HIDE DEF y
<1>5a. /\ ext \in Seq(Operation) /\ \A T : T \cap Closing = {} => ~Has(ext, T)
  BY <1>4, EndingFacts
<1>5b. /\ ~Has(ext, Needing) /\ ~Has(ext, {"CHECK_CONNECTED"}) /\ ~Has(ext, {"REFER_INVITE"})
  BY <1>5a DEF Needing, Closing
<1>5c. SubFits(d, d.queue, "ENDED")
  <2>1. Early(c) => Untried(c, q \o ext)
    BY <1>1, <1>5a, <1>5b, UntriedMore DEF Fitting, SubFits
  <2>2. Early(c) => Untried(d, q \o ext)
    BY <1>2, <2>1 DEF Untried, SameTalk, SameUsers
  <2>3. Has(q \o ext, {"CHECK_CONNECTED"}) => Has(q, {"CHECK_CONNECTED"})
    BY <1>1, <1>5a, <1>5b, ConcatHas
  <2>4. SubFits(c, q, x.conf)
    BY DEF Fitting
  <2>. QED  BY <1>2, <1>4, <2>2, <2>3, <2>4, SubFitsKept
<1>5d. d.queue # << >> => Coming(d, Tail(d.queue))
  <2>1. Coming(c, ext)
    BY <1>4, <1>5b DEF Coming, Has
  <2>2. q \o ext \in Seq(Operation) /\ Ordered(q \o ext)
    BY <1>1, <1>4, <1>5a, ConcatFacts DEF QueueFits
  <2>3. q # << >> => Coming(c, Tail(q \o ext))
    <3>1. q # << >> => Tail(q \o ext) = Tail(q) \o ext /\ Tail(q) \in Seq(Operation)
      BY <1>1, <1>5a, TailOfConcat, QueueFacts
    <3>. QED  BY <1>5a, <2>1, <3>1, ComingConcat DEF Fitting
  <2>4. q = << >> /\ ext # << >> => Coming(c, Tail(q \o ext))
    <3>1. q = << >> => q \o ext = ext
      BY <1>5a, ConcatEmptySeq
    <3>. QED  BY <1>5a, <2>1, <3>1, ComingTail
  <2>5. q \o ext # << >> => Coming(c, Tail(q \o ext))
    <3>1. q = << >> /\ ext = << >> => q \o ext = << >>
      BY <1>1, ConcatEmptySeq
    <3>. QED  BY <2>3, <2>4, <3>1
  <2>6. q \o ext # << >> => WellMade(Tail(q \o ext))
    BY <2>2, TailOrdered DEF Ordered
  <2>7. SameInvites(c, d, Users)
    BY <1>2 DEF SameUsers, SameInvites
  <2>. QED  BY <1>2, <1>4, <2>5, <2>6, <2>7, ComingKept
<1>5e. \A u \in Users : Untouched(c, u) => Untouched(d, u)
  <2>1. From(q, q)
    BY FromSelf
  <2>2. From(d.queue, q)
    BY <1>1, <1>4, <2>1, FromMore
  <2>. QED  BY <1>2, <2>2, UntouchedKept DEF SameUsers, SameInvites
<1>6. Fitting(y)
  <2>1. QueueFits(d.queue, d.open, d.sub, y.conf, d.state)
    BY <1>2, <1>4, <1>5 DEF SameTalk, SameEngine, QueueFits
  <2>2. (d.twice => d.stale) /\ LinksLive(d)
    BY <1>2 DEF SameTalk, SameUsers, Fitting, LinksLive, Linked
  <2>. QED  BY <1>5, <1>5c, <1>5d, <2>1, <2>2 DEF Fitting
<1>7. ext \in Seq(Operation)
  BY <1>4, EndingFacts
<1>8. ASSUME ext = << >>
      PROVE  Settled(y)
  <2>1. q \o ext = q
    BY <1>1, <1>8, ConcatEmptySeq
  <2>2. y.c.closed /\ (y.c.queue = << >> => ~y.c.delay)
    BY <1>4, <1>5, <1>8, <2>1 DEF Waits
  <2>. QED  BY <1>6, <2>2 DEF Settled
<1>9. ASSUME ext # << >>, q = << >>
      PROVE  Settled(y)
  <2>1. q \o ext = ext
    BY <1>7, <1>9, ConcatEmptySeq
  <2>2. Head(ext) = ext[1]
    BY <1>7, <1>9, QueueFacts
  <2>3. d.sub = "ACTIVE"
    <3>1. Ordered(ext)
      BY <1>4, EndingFacts
    <3>2. Has(ext, {"UNSUBSCRIBE"})
      BY <1>4, <1>7, <1>9, <2>2, <3>1, TailOrdered, TailHas
    <3>. QED  BY <1>2, <1>4, <3>2 DEF SameEngine
  <2>4. y.c.queue = ext /\ y.c.delay /\ Head(ext).delayed /\ y.c.sub = "ACTIVE"
    BY <1>4, <1>5, <1>9, <2>1, <2>2, <2>3
  <2>. QED  BY <1>6, <1>9, <2>4 DEF Settled, Waits, UnderWayIn
<1>10. ASSUME ext # << >>, q # << >>
       PROVE  Settled(y)
  <2>1. Head(q \o ext) = Head(q) /\ q \o ext # << >>
    <3>1. 1 \in 1..Len(q) /\ Head(q) = q[1] /\ (q \o ext)[1] = q[1]
          /\ q \o ext \in Seq(Operation)
      BY <1>1, <1>7, <1>10, QueueFacts, ConcatFacts
    <3>2. q \o ext # << >>
      BY <1>1, <1>7, <1>10, TailOfConcat
    <3>. QED  BY <3>1, <3>2, QueueFacts
  <2>2. ~Head(q).delayed
    BY <1>1, <1>3, <1>10, QueueFacts DEF Pending
  <2>3. ~c.delay /\ UnderWayIn(x, Head(q))
    BY <1>10, <2>2 DEF Waits
  <2>4. UnderWayIn(y, Head(q))
    BY <1>2, <1>5, <2>2, <2>3 DEF UnderWayIn, SameUsers, SameEngine
  <2>5. y.c.queue # << >> /\ Head(y.c.queue) = Head(q) /\ ~y.c.delay
    BY <1>4, <1>5, <1>10, <2>1, <2>3
  <2>. QED  BY <1>6, <2>4, <2>5 DEF Settled, Waits
<1>11. Settled(y)
  BY <1>8, <1>9, <1>10
<1>. QED  BY <1>5, <1>5e, <1>11 DEF y, d

\* The conference call ends, with or without a subscription to end.
LEMMA TerminatedKeeps ==
    ASSUME IInv, ConferenceTerminated
    PROVE  IInv' /\ AnswersOwn
<1>. DEFINE w == World(ctl)
            e == ConfSet(w, "ENDED")
<1>1. /\ conf # "ENDED"
      /\ \E x \in Recover(e) : Event(With(x, ConferenceOver(x.c)))
  BY DEF ConferenceTerminated, ConfSet, With
<1>2. PICK x \in Recover(e) : Event(With(x, ConferenceOver(x.c)))
  BY <1>1
<1>3. /\ w \in WorldType /\ Fitting(w) /\ Waits(w)
      /\ w.c = ctl /\ w.conf = conf /\ w.call = call /\ ctl.queue \in Seq(Operation)
      /\ Unasked(ctl, asked)
  BY CurrentWorld DEF IInv
<1>4. "ENDED" \in ConferenceStates
  BY DEF ConferenceStates
<1>. HIDE DEF w
<1>5. e \in WorldType /\ e.c = ctl /\ e.conf = "ENDED" /\ e.call = call
  BY <1>3, <1>4, WorldFields
<1>. HIDE DEF e
<1>6. ~Has(ctl.queue, Closing)
  BY <1>1, <1>3 DEF Fitting, QueueFits
<1>7. Fitting(e)
  <2>1. QueueFits(ctl.queue, ctl.open, ctl.sub, "ENDED", ctl.state)
        /\ SubFits(ctl, ctl.queue, "ENDED")
    BY <1>3 DEF Fitting, QueueFits, SubFits
  <2>. QED  BY <1>3, <1>5, <2>1 DEF Fitting
<1>8. \/ GivenUp(e, x)
      \/ x = e /\ ~FrontIs(e.c, "CREATE_CONFERENCE_CALL")
  BY <1>2, <1>5, <1>7, RecoverOfEnded
<1>9. /\ x \in WorldType /\ x.conf = "ENDED" /\ x.call = call /\ Fitting(x) /\ Waits(x)
      /\ ~Has(x.c.queue, Closing) /\ Unasked(x.c, asked)
  <2>1. CASE GivenUp(e, x)
    <3>1. ~Has(<< >>, Closing) /\ DOMAIN << >> = {}
      BY DEF Has
    <3>2. Unasked(x.c, asked)
      BY <1>3, <1>5, <2>1, <3>1 DEF GivenUp, SameUsers, Unasked, Untouched
    <3>. QED  BY <1>5, <2>1, <3>1, <3>2 DEF GivenUp, Settled, Waits
  <2>2. CASE x = e /\ ~FrontIs(e.c, "CREATE_CONFERENCE_CALL")
    <3>1. ctl.queue # << >> => Head(ctl.queue).type # "CREATE_CONFERENCE_CALL"
      BY <1>5, <2>2 DEF FrontIs
    <3>2. Waits(e)
      BY <1>3, <1>5, <3>1 DEF Waits, UnderWayIn
    <3>. QED  BY <1>3, <1>5, <1>6, <1>7, <2>2, <3>2
  <2>. QED  BY <1>8, <2>1, <2>2
<1>10. Quiet(With(x, ConferenceOver(x.c)))
  <2>. DEFINE y == With(x, ConferenceOver(x.c))
  <2>1. /\ y \in WorldType /\ Settled(y) /\ y.call = x.call
        /\ \A u \in Users : Untouched(x.c, u) => Untouched(y.c, u)
    BY <1>9, OverWorks
  <2>. HIDE DEF y
  <2>2. Quiet(y)
    BY <1>9, <2>1 DEF Quiet, Calm, Settled, Unasked
  <2>. QED  BY <2>2 DEF y
<1>. QED  BY <1>2, <1>10, QuietOutcome, EventKeepsInvariant

\* The call with a member ends by itself.
LEMMA IndividualCallKeeps ==
    ASSUME IInv, NEW u \in Users, IndividualCallTerminated(u)
    PROVE  IInv' /\ AnswersOwn
<1>. DEFINE w == World(ctl)
            d == OneToOneTerminated(ctl)
            z == With(w, d)
            y == [z EXCEPT !.call[u] = FALSE]
<1>1. Event(y)
  BY WorldOf DEF IndividualCallTerminated
<1>2. /\ w \in WorldType /\ Settled(w)
      /\ w.c = ctl /\ w.conf = conf /\ w.call = call /\ ctl \in ControllerType
  BY CurrentWorld
<1>3. SameAll(ctl, d)
  BY <1>2, TimerFacts
<1>. HIDE DEF w, d
<1>4. Alike(w, z) /\ z.c = d
  <2>1. NoneKept(ctl, d) /\ (LinksLive(ctl) => LinksLive(d)) /\ d \in ControllerType
    BY <1>3, SameRefs DEF SameAll, SameUsers, LinksLive, Linked
  <2>. QED  BY <1>2, <1>3, <2>1, AlikeWith, WorldFields DEF SameAll, SameTalk
<1>. HIDE DEF z
<1>5. z \in WorldType /\ Settled(z)
  BY <1>2, <1>3, <1>4, AlikeFits, SameRefs DEF Alike, SameAll, SameUsers
<1>6. y \in WorldType /\ y.c = z.c /\ y.conf = z.conf
  BY <1>5 DEF WorldType
<1>. HIDE DEF y
<1>7. Settled(y)
  BY <1>5, <1>6 DEF Settled, Fitting, Waits, UnderWayIn
<1>8. y.c.queue = ctl.queue /\ ~y.c.closed
  BY <1>1, <1>3, <1>4, <1>6 DEF Event, SameAll, SameQueue, SameSub
<1>8a. Unasked(y.c, asked)
  BY <1>3, <1>4, <1>6 DEF IInv, Unasked, Untouched, SameAll, SameQueue, SameUsers
<1>9. Outcome(y)
  BY <1>6, <1>7, <1>8, <1>8a DEF Outcome, Lawful, Reason
<1>. QED  BY <1>1, <1>9, EventKeepsInvariant

-----------------------------------------------------------------------------
(***************************************************************************)
(* What an event notes of participants and references changes nothing that    *)
(* the queue, the calls or the answers to commands depend on.                   *)
(***************************************************************************)
Akin(c, d) ==
    /\ d \in ControllerType
    /\ SameQueue(c, d) /\ SameSub(c, d)
    /\ d.state = c.state /\ (d.open <=> c.open) /\ (d.twice <=> c.twice)
    /\ c.stale => d.stale
    /\ NoneKept(c, d)
    /\ LinksLive(c) => LinksLive(d)

\* Akin is transitive.
LEMMA AkinTransitive ==
    ASSUME NEW b, NEW c, NEW d, Akin(b, c), Akin(c, d)
    PROVE  Akin(b, d)
BY DEF Akin, SameQueue, SameSub, NoneKept

\* A controller is akin to itself.
LEMMA AkinSelf ==
    ASSUME NEW c \in ControllerType
    PROVE  Akin(c, c)
BY DEF Akin, SameQueue, SameSub, NoneKept

\* And to one that differs in the final sipfrag timer only.
LEMMA AkinSame ==
    ASSUME NEW c, NEW d, SameAll(c, d)
    PROVE  Akin(c, d) /\ NobodyJoins(c, d)
BY DEF SameAll, SameTalk, SameUsers, Akin, NoneKept, NobodyJoins, LinksLive, Linked

\* Controllers that are akin make worlds alike.
LEMMA AkinAlike ==
    ASSUME NEW x \in WorldType, NEW d, Akin(x.c, d)
    PROVE  Alike(x, With(x, d)) /\ With(x, d).c = d
BY AlikeWith, WorldFields DEF Akin

\* c.stale only ever becomes true.
StaleSet(c, s) == [c EXCEPT !.stale = @ \/ s]

\* Nothing else changes with it.
LEMMA StaleFacts ==
    ASSUME NEW c \in ControllerType, NEW s \in BOOLEAN
    PROVE  LET d == StaleSet(c, s)
           IN  /\ Akin(c, d) /\ NobodyJoins(c, d)
               /\ d.part = c.part /\ d.refs = c.refs /\ (d.stale <=> c.stale \/ s)
<1>. DEFINE t == c.stale \/ s
            d == StaleSet(c, s)
<1>1. t \in BOOLEAN /\ c.stale \in BOOLEAN
  BY ControllerFields
<1>2. d = [c EXCEPT !.stale = t]
  BY DEF StaleSet
<1>. HIDE DEF t, d
<1>3. /\ d \in ControllerType /\ d.stale = t /\ d.part = c.part /\ d.refs = c.refs
      /\ SameQueue(c, d) /\ SameSub(c, d)
      /\ d.state = c.state /\ (d.open <=> c.open) /\ (d.twice <=> c.twice)
  BY <1>1, <1>2 DEF ControllerType, SameQueue, SameSub
<1>4. NoneKept(c, d) /\ NobodyJoins(c, d) /\ (LinksLive(c) => LinksLive(d))
  BY <1>3 DEF NoneKept, NobodyJoins, LinksLive, Linked
<1>. QED  BY <1>3, <1>4 DEF Akin, t, d

\* Noting that an event was stale is akin.
LEMMA AkinStale ==
    ASSUME NEW c \in ControllerType, NEW type, NEW u
    PROVE  /\ Akin(c, Foreign(c, type, u)) /\ NobodyJoins(c, Foreign(c, type, u))
           /\ Akin(c, Userless(c, type, u)) /\ NobodyJoins(c, Userless(c, type, u))
           /\ Foreign(c, type, u).refs = c.refs /\ Userless(c, type, u).refs = c.refs
           /\ Userless(c, type, u).part = c.part
           /\ u = NoUser /\ FrontIs(c, type) => Userless(c, type, u).stale
<1>. DEFINE f == FrontIs(c, type) /\ Head(c.queue).user # u
            n == u = NoUser /\ FrontIs(c, type)
<1>1. f \in BOOLEAN /\ n \in BOOLEAN
  OBVIOUS
<1>2. Foreign(c, type, u) = StaleSet(c, f) /\ Userless(c, type, u) = StaleSet(c, n)
  BY DEF Foreign, Userless, StaleSet
<1>3. n = (u = NoUser /\ FrontIs(c, type))
  OBVIOUS
<1>. HIDE DEF f, n
<1>4. /\ Akin(c, StaleSet(c, f)) /\ NobodyJoins(c, StaleSet(c, f))
      /\ StaleSet(c, f).refs = c.refs
  BY <1>1, StaleFacts
<1>5. /\ Akin(c, StaleSet(c, n)) /\ NobodyJoins(c, StaleSet(c, n))
      /\ StaleSet(c, n).part = c.part /\ StaleSet(c, n).refs = c.refs /\ (n => StaleSet(c, n).stale)
  BY <1>1, StaleFacts
<1>. QED  BY <1>2, <1>3, <1>4, <1>5

\* One reference is all that changes: whether it completes the operation in front.
OnlyRef(c, d, u, r) ==
    /\ d.refs[u][r] # "none"
    /\ \A w \in Users, s \in References : <<w, s>> # <<u, r>> =>
          d.refs[w][s] = c.refs[w][s]
TypeOf(r) == IF r = "bye" THEN "REFER_BYE" ELSE "REFER_INVITE"
FrontOf(c, u, r) == FrontIs(c, TypeOf(r)) /\ Head(c.queue).user = u

\* It does not unless it is that of the operation in front and is gone.
LEMMA OneRef ==
    ASSUME NEW c, c.queue \in Seq(Operation), WellMade(c.queue), NEW d,
           NEW u \in Users, NEW r \in References, OnlyRef(c, d, u, r), c.refs[u][r] # "none"
    PROVE  /\ NoneKept(c, d)
           /\ ~FrontOf(c, u, r) => FrontKept(c, d)
           /\ r = "invite" /\ d.refs[u][r] \in {"accepted", "silent"} => FrontKept(c, d)
<1>1. NoneKept(c, d)
  BY DEF NoneKept, OnlyRef
<1>2. CASE c.queue = << >>
  BY <1>1, <1>2 DEF FrontKept
<1>3. CASE c.queue # << >>
  <2>. DEFINE o == Head(c.queue)
  <2>1. o.type \in {"REFER_INVITE", "REFER_BYE"} => o.user \in Users
    BY <1>3, QueueFacts DEF WellMade, OfUser
  <2>2. FrontOf(c, u, r) <=> o.type = TypeOf(r) /\ o.user = u
    BY <1>3 DEF FrontOf, FrontIs
  <2>3. FrontKept(c, d) <=>
           /\ o.type = "REFER_INVITE" =>
                 (c.refs[o.user]["invite"] \in {"sent", "accepted", "silent"} =>
                     d.refs[o.user]["invite"] \in {"sent", "accepted", "silent"})
           /\ o.type = "REFER_BYE" =>
                 (c.refs[o.user]["bye"] \in {"sent", "unsent"} =>
                     d.refs[o.user]["bye"] \in {"sent", "unsent"})
    BY <1>3 DEF FrontKept
  <2>. HIDE DEF o
  <2>4. ASSUME o.type = "REFER_INVITE", ~FrontOf(c, u, r)
        PROVE  d.refs[o.user]["invite"] = c.refs[o.user]["invite"]
    <3>1. <<o.user, "invite">> # <<u, r>>
      BY <2>2, <2>4 DEF TypeOf
    <3>. QED  BY <2>1, <2>4, <3>1 DEF OnlyRef, References
  <2>5. ASSUME o.type = "REFER_BYE", ~FrontOf(c, u, r) \/ r = "invite"
        PROVE  d.refs[o.user]["bye"] = c.refs[o.user]["bye"]
    <3>1. <<o.user, "bye">> # <<u, r>>
      BY <2>2, <2>5 DEF TypeOf
    <3>. QED  BY <2>1, <2>5, <3>1 DEF OnlyRef, References
  <2>6. ASSUME o.type = "REFER_INVITE", r = "invite",
               d.refs[u][r] \in {"accepted", "silent"}
        PROVE  d.refs[o.user]["invite"] \in {"accepted", "silent"}
               \/ d.refs[o.user]["invite"] = c.refs[o.user]["invite"]
    <3>1. CASE o.user = u
      BY <2>6, <3>1
    <3>2. CASE o.user # u
      BY <2>1, <2>6, <3>2 DEF OnlyRef, References
    <3>. QED  BY <3>1, <3>2
  <2>. QED  BY <1>1, <2>3, <2>4, <2>5, <2>6
<1>. QED  BY <1>2, <1>3

\* So is a change of participants that keeps the links live.
LEMMA AkinUsers ==
    ASSUME NEW c \in ControllerType
    PROVE  /\ \A us : /\ Akin(c, Removed(c, us)) /\ NobodyJoins(c, Removed(c, us))
                      /\ Removed(c, us).refs = c.refs
           /\ Akin(c, NotifyUsersInfo(c)) /\ NobodyJoins(c, NotifyUsersInfo(c))
           /\ NotifyUsersInfo(c).refs = c.refs
           /\ \A u \in Users, r \in References :
                 LET d == RemoveReference(c, u, r)
                 IN  /\ c.refs[u][r] # "none" => Akin(c, d)
                     /\ NobodyJoins(c, d) /\ OnlyRef(c, d, u, r)
           /\ \A u \in Users \cup {NoUser},
                 st \in {"connecting", "connected", "disconnected"} :
                 LET d == Status(c, u, st)
                 IN  /\ Akin(c, d) /\ d.refs = c.refs
                     /\ u # NoUser => d.part[u].status = st
<1>1. ASSUME NEW us
      PROVE  /\ Akin(c, Removed(c, us)) /\ NobodyJoins(c, Removed(c, us))
             /\ Removed(c, us).refs = c.refs
  <2>. DEFINE d == Removed(c, us)
  <2>1. /\ d \in ControllerType /\ SameQueue(c, d) /\ SameTalk(c, d) /\ SameSub(c, d)
        /\ d.refs = c.refs /\ NobodyJoins(c, d) /\ (LinksLive(c) => LinksLive(d))
    BY RemovedFacts
  <2>. HIDE DEF d
  <2>2. Akin(c, d)
    BY <2>1, SameRefs DEF Akin, SameTalk
  <2>. QED  BY <2>1, <2>2 DEF d
<1>2. ASSUME NEW u \in Users, NEW r \in References
      PROVE  LET d == RemoveReference(c, u, r)
             IN  /\ c.refs[u][r] # "none" => Akin(c, d)
                 /\ NobodyJoins(c, d) /\ OnlyRef(c, d, u, r)
  <2>. DEFINE d == RemoveReference(c, u, r)
  <2>1. /\ d \in ControllerType /\ SameQueue(c, d) /\ SameTalk(c, d) /\ SameSub(c, d)
        /\ NobodyJoins(c, d) /\ (LinksLive(c) => LinksLive(d))
        /\ d.refs[u][r] = "gone"
        /\ \A w \in Users, s \in References : <<w, s>> # <<u, r>> =>
              d.refs[w][s] = c.refs[w][s]
    BY RemoveReferenceFacts
  <2>. HIDE DEF d
  <2>2. OnlyRef(c, d, u, r)
    BY <2>1 DEF OnlyRef
  <2>3. c.refs[u][r] # "none" => NoneKept(c, d)
    BY <2>2 DEF NoneKept, OnlyRef
  <2>4. c.refs[u][r] # "none" => Akin(c, d)
    BY <2>1, <2>3 DEF Akin, SameTalk
  <2>. QED  BY <2>1, <2>2, <2>4 DEF d
<1>3. ASSUME NEW u \in Users \cup {NoUser},
             NEW st \in {"connecting", "connected", "disconnected"}
      PROVE  LET d == Status(c, u, st)
             IN  Akin(c, d) /\ d.refs = c.refs /\ (u # NoUser => d.part[u].status = st)
  <2>. DEFINE d == Status(c, u, st)
  <2>0. st \in {"connecting", "connected", "disconnected"} /\ u \in Users \cup {NoUser}
    BY <1>3
  <2>1. /\ d \in ControllerType
        /\ SameQueue(c, d) /\ SameTalk(c, d) /\ SameSub(c, d) /\ d.refs = c.refs
        /\ u # NoUser => d.part[u].status = st
        /\ LinksLive(c) => LinksLive(d)
    BY <2>0, StatusFacts, SMTT(20)
  <2>. HIDE DEF d
  <2>2. Akin(c, d)
    BY <2>1, SameRefs DEF Akin, SameTalk
  <2>. QED  BY <2>1, <2>2 DEF d
<1>. QED  BY <1>1, <1>2, <1>3 DEF NotifyUsersInfo

\* The reference of u is there and is not gone.
LEMMA AkinAccepted ==
    ASSUME NEW c \in ControllerType, NEW u \in Users, NEW r \in References,
           c.refs[u][r] # "none"
    PROVE  LET d == RefSet(c, u, r, "accepted")
           IN  Akin(c, d) /\ OnlyRef(c, d, u, r) /\ d.refs[u][r] = "accepted"
<1>. DEFINE d == RefSet(c, u, r, "accepted")
<1>1. "accepted" \in RefMade
  BY DEF RefMade
<1>2. /\ d \in ControllerType
      /\ SameQueue(c, d) /\ SameTalk(c, d) /\ SameSub(c, d) /\ d.part = c.part
      /\ d.refs[u][r] = "accepted"
      /\ \A w \in Users, s \in References : <<w, s>> # <<u, r>> =>
            d.refs[w][s] = c.refs[w][s]
  BY <1>1, RefFieldFacts
<1>. HIDE DEF d
<1>3. (LinksLive(c) => LinksLive(d)) /\ OnlyRef(c, d, u, r)
  BY <1>2 DEF LinksLive, Linked, OnlyRef
<1>4. NoneKept(c, d)
  BY <1>3 DEF NoneKept, OnlyRef
<1>. QED  BY <1>2, <1>3, <1>4 DEF Akin, SameTalk, d

\* So is one whose end came without a code.
LEMMA AkinSilent ==
    ASSUME NEW c \in ControllerType, NEW u \in Users, NEW r \in References,
           c.refs[u][r] # "none"
    PROVE  LET d == RefSet(RemoveReference(c, u, r), u, r, "silent")
           IN  Akin(c, d) /\ OnlyRef(c, d, u, r) /\ d.refs[u][r] = "silent"
<1>. DEFINE b == RemoveReference(c, u, r)
            d == RefSet(b, u, r, "silent")
<1>1. Akin(c, b) /\ OnlyRef(c, b, u, r) /\ b \in ControllerType
  BY AkinUsers DEF Akin
<1>. HIDE DEF b
<1>2. "silent" \in RefMade
  BY DEF RefMade
<1>3. /\ d \in ControllerType
      /\ SameQueue(b, d) /\ SameTalk(b, d) /\ SameSub(b, d) /\ d.part = b.part
      /\ d.refs[u][r] = "silent"
      /\ \A w \in Users, s \in References : <<w, s>> # <<u, r>> =>
            d.refs[w][s] = b.refs[w][s]
  BY <1>1, <1>2, RefFieldFacts
<1>. HIDE DEF d
<1>4. (LinksLive(b) => LinksLive(d)) /\ NoneKept(b, d) /\ OnlyRef(c, d, u, r)
  BY <1>1, <1>3 DEF LinksLive, Linked, OnlyRef, NoneKept
<1>5. Akin(b, d)
  BY <1>3, <1>4 DEF Akin, SameTalk
<1>. QED  BY <1>1, <1>3, <1>4, <1>5, AkinTransitive DEF b, d

-----------------------------------------------------------------------------
(***************************************************************************)
(* The events of the references.                                            *)
(***************************************************************************)
\* The world of the present state is calm, and settled unless the front is disturbed.
LEMMA QuietNow ==
    ASSUME IInv, NEW d, Akin(ctl, d)
    PROVE  /\ Alike(World(ctl), World(d)) /\ Calm(World(d)) /\ World(d).c = d
           /\ FrontKept(ctl, d) => Quiet(World(d))
           /\ d.refs = ctl.refs => FrontKept(ctl, d)
<1>1. /\ World(ctl) \in WorldType /\ Settled(World(ctl)) /\ World(ctl).c = ctl
      /\ World(ctl).call = call /\ Fitting(World(ctl)) /\ Unasked(ctl, asked)
  BY CurrentWorld DEF IInv
<1>2. Quiet(World(ctl)) /\ Calm(World(ctl))
  BY <1>1 DEF Quiet, Calm
<1>3. Alike(World(ctl), World(d)) /\ World(d).c = d
  BY <1>1, AkinAlike, WorldOf
<1>4. Calm(World(d)) /\ (FrontKept(ctl, d) => Quiet(World(d)))
  BY <1>1, <1>2, <1>3, AlikeQuiet
<1>. QED  BY <1>3, <1>4, SameRefs

\* What the queue of a world that fits is made of.
LEMMA FittingQueue ==
    ASSUME NEW x \in WorldType, Fitting(x)
    PROVE  x.c \in ControllerType /\ x.c.queue \in Seq(Operation) /\ Ordered(x.c.queue)
           /\ WellMade(x.c.queue)
BY WorldFields, ControllerFields DEF Fitting, QueueFits, Ordered

\* An operation that was completed, or did not fit, is not in front.
LEMMA FrontDone ==
    ASSUME NEW x \in WorldType, Fitting(x), NEW u \in Users, NEW r \in References,
           NEW user \in {u, NoUser}, x.c.refs[u][r] # "none", NEW y \in WorldType,
           ~Fits(x.c, TypeOf(r), user) => y = x,
           Fits(x.c, TypeOf(r), user) =>
              /\ r = "invite" => NewFront(x, y)
              /\ r = "bye" => From(y.c.queue, Tail(x.c.queue))
    PROVE  ~FrontOf(y.c, u, r)
<1>. SUFFICES ASSUME FrontOf(y.c, u, r) PROVE FALSE
  OBVIOUS
<1>. DEFINE q == x.c.queue
            p == y.c.queue
<1>1. q \in Seq(Operation) /\ Ordered(q) /\ p \in Seq(Operation)
  BY FittingQueue, WorldFields, ControllerFields
<1>2. p # << >> /\ Head(p).type = TypeOf(r) /\ Head(p).user = u
  BY DEF FrontOf, FrontIs
<1>3. Fits(x.c, TypeOf(r), user)
  BY <1>2 DEF Fits, FrontIs
<1>4. q # << >> /\ Head(q).type = TypeOf(r)
  BY <1>3 DEF Fits, FrontIs
<1>5. CASE r = "invite"
  BY <1>2, <1>3, <1>5 DEF NewFront, FrontIs, TypeOf
<1>6. CASE r = "bye"
  <2>1. Has(p, {"REFER_BYE"})
    BY <1>1, <1>2, <1>6, TailHas DEF TypeOf
  <2>2. Has(Tail(q), {"REFER_BYE"})
    BY <1>3, <1>6, <2>1, FromHas DEF Closing
  <2>. QED  BY <1>1, <1>4, <1>6, <2>2, TailOrdered DEF TypeOf
<1>. QED  BY <1>5, <1>6 DEF References

\* The last R-NOTIFY of a reference deletes it, which leaves an outcome.
LEMMA EndedOutcome ==
    ASSUME NEW y, Outcome(y), NEW u \in Users, NEW r \in References, NEW last,
           last => y.c.refs[u][r] # "none" /\ ~FrontOf(y.c, u, r)
    PROVE  Outcome(Ended(y, u, r, last))
<1>. DEFINE d == RemoveReference(y.c, u, r)
<1>1. y \in WorldType /\ y.c \in ControllerType /\ Fitting(y)
      /\ y.c.queue \in Seq(Operation) /\ WellMade(y.c.queue)
  BY FittingQueue DEF Outcome, Lawful, Settled
<1>2. /\ y.c.refs[u][r] # "none" => Akin(y.c, d)
      /\ NobodyJoins(y.c, d) /\ OnlyRef(y.c, d, u, r)
  BY <1>1, AkinUsers
<1>3. Ended(y, u, r, last) = IF last THEN With(y, d) ELSE y
  BY DEF Ended, With
<1>. HIDE DEF d
<1>4. ASSUME last
      PROVE  Outcome(With(y, d))
  <2>1. Akin(y.c, d) /\ FrontKept(y.c, d)
    BY <1>1, <1>2, <1>4, OneRef
  <2>2. Alike(y, With(y, d)) /\ With(y, d).c = d
    BY <1>1, <2>1, AkinAlike
  <2>. QED  BY <1>2, <2>1, <2>2, AlikeOutcome
<1>. QED  BY <1>3, <1>4

\* GetConfUser finds the user of the reference, or none.
LEMMA LinkedUser ==
    ASSUME NEW u \in Users, NEW r
    PROVE  GetConfUser(ctl, u, r) \in {u, NoUser} /\ GetConfUser(ctl, u, r) \in Users \cup {NoUser}
BY DEF GetConfUser

\* What the queue of the controller is made of.
LEMMA QueueNow ==
    ASSUME IInv
    PROVE  ctl.queue \in Seq(Operation) /\ WellMade(ctl.queue)
BY CurrentWorld, FittingQueue

\* A REFER is accepted.
LEMMA StartedKeeps ==
    ASSUME IInv, NEW u \in Users, NEW r \in References, OnReferenceStarted(u, r)
    PROVE  IInv' /\ AnswersOwn
<1>. DEFINE user == GetConfUser(ctl, u, r)
            a == RefSet(ctl, u, r, "accepted")
            b == Userless(a, "REFER_BYE", user)
            s == Status(b, user, "disconnected")
            i == Userless(a, "REFER_INVITE", user)
<1>1. /\ ctl.refs[u][r] = "sent"
      /\ \/ r = "bye" /\ Event(Complete(World(s), "REFER_BYE", user))
         \/ r = "invite" /\ ctl.state # "JOINING" /\ Event(World(a))
         \/ r = "invite" /\ ctl.state = "JOINING"
            /\ Event(Complete(World(i), "REFER_INVITE", user))
  BY DEF OnReferenceStarted, RefSet
<1>2. ctl \in ControllerType
  BY CurrentWorld
<1>3. /\ Akin(ctl, a) /\ a \in ControllerType
      /\ OnlyRef(ctl, a, u, r) /\ a.refs[u][r] = "accepted"
  BY <1>1, <1>2, AkinAccepted DEF Akin
<1>. HIDE DEF a
<1>4. user \in Users \cup {NoUser} /\ user \in {u, NoUser}
  BY LinkedUser
<1>. HIDE DEF user
<1>5. /\ Akin(a, b) /\ b \in ControllerType /\ Akin(a, i) /\ i \in ControllerType
      /\ b.refs = a.refs /\ i.refs = a.refs
  BY <1>3, AkinStale DEF Akin
<1>. HIDE DEF b, i
<1>6. Akin(b, s) /\ s.refs = b.refs
  BY <1>4, <1>5, AkinUsers
<1>. HIDE DEF s
<1>7. Akin(ctl, i) /\ Akin(ctl, s)
  BY <1>3, <1>5, <1>6, AkinTransitive
<1>8. OnlyRef(ctl, s, u, r) /\ OnlyRef(ctl, i, u, r) /\ i.refs[u][r] = "accepted"
  BY <1>3, <1>5, <1>6 DEF OnlyRef
<1>9. CASE r = "bye" /\ Event(Complete(World(s), "REFER_BYE", user))
  <2>1. Calm(World(s)) /\ World(s).c = s /\ (FrontKept(ctl, s) => Quiet(World(s)))
    BY <1>7, QuietNow
  <2>2. ASSUME ~Fits(s, "REFER_BYE", user)
        PROVE  Settled(World(s))
    <3>1. ~Fits(ctl, "REFER_BYE", user)
      BY <1>7, <2>2 DEF Fits, FrontIs, Akin, SameQueue
    <3>2. ~FrontOf(ctl, u, r)
      BY <1>4, <1>9, <3>1 DEF FrontOf, Fits, FrontIs, TypeOf
    <3>3. FrontKept(ctl, s)
      BY <1>1, <1>8, <3>2, QueueNow, OneRef
    <3>. QED  BY <2>1, <3>3 DEF Quiet
  <2>3. Quiet(Complete(World(s), "REFER_BYE", user))
    BY <2>1, <2>2, QuietComplete
  <2>. QED  BY <1>9, <2>3, QuietOutcome, EventKeepsInvariant
<1>10. CASE r = "invite"
  <2>1. FrontKept(ctl, a) /\ FrontKept(ctl, i)
    BY <1>1, <1>3, <1>8, <1>10, QueueNow, OneRef
  <2>2. Quiet(World(a)) /\ Quiet(World(i)) /\ World(i).c = i /\ Calm(World(i))
    BY <1>3, <1>7, <2>1, QuietNow
  <2>3. Settled(World(i)) /\ i.state = ctl.state
    BY <1>7, <2>2 DEF Akin, Quiet
  <2>4. ctl.state = "JOINING" => Quiet(Complete(World(i), "REFER_INVITE", user))
    BY <2>2, <2>3, QuietComplete
  <2>. QED  BY <1>1, <1>10, <2>2, <2>4, QuietOutcome, EventKeepsInvariant
<1>. QED  BY <1>1, <1>9, <1>10

\* An R-NOTIFY arrives, with any sipfrag code.
LEMMA UpdatedKeeps ==
    ASSUME IInv, NEW u \in Users, NEW r \in References, NEW code, NEW last,
           code = "trying" => ~last, OnReferenceUpdated(u, r, code, last)
    PROVE  IInv' /\ AnswersOwn
<1>. DEFINE user == GetConfUser(ctl, u, r)
            bt == Userless(ctl, "REFER_BYE", user)
            bs == Status(bt, user, "disconnected")
            bb == IF code = "ok" THEN bs ELSE bt
            it == Userless(ctl, "REFER_INVITE", user)
            is == Status(it, user, "connected")
            ok == StopFinalSipfragWaitTimer(is)
            ff == StopFinalSipfragWaitTimer(Foreign(ctl, "REFER_INVITE", u))
            tr == CheckNStart(Status(ctl, user, "connecting"), "CONDITION_SIPFRAG_100_RECEIVED")
            no == RefSet(RemoveReference(ctl, u, r), u, r, "silent")
<1>1. /\ ctl.refs[u][r] # "none"
      /\ \/ r = "bye" /\ Event(Ended(Complete(World(bb), "REFER_BYE", user), u, r, last))
         \/ r = "invite" /\ Event(Ended(Complete(World(ok), "REFER_INVITE", user), u, r, last))
         \/ r = "invite" /\ \E x \in Recover(World(ff)) : Event(Ended(x, u, r, last))
         \/ ~last /\ Event(Ended(World(tr), u, r, last))
         \/ r = "invite" /\ Event(World(no))
  BY DEF OnReferenceUpdated, RefSet
<1>2. ctl \in ControllerType /\ user \in Users \cup {NoUser} /\ user \in {u, NoUser}
  BY CurrentWorld, LinkedUser
<1>. HIDE DEF user
<1>3. /\ Akin(ctl, bt) /\ Akin(ctl, it) /\ it.part = ctl.part
      /\ user = NoUser /\ FrontIs(ctl, "REFER_INVITE") => it.stale
      /\ bt \in ControllerType /\ it \in ControllerType
      /\ bt.refs = ctl.refs /\ it.refs = ctl.refs
  BY <1>2, AkinStale DEF Akin
<1>. HIDE DEF bt, it
<1>4. /\ Akin(bt, bs) /\ Akin(it, is) /\ bs \in ControllerType /\ is \in ControllerType
      /\ user # NoUser => is.part[user].status = "connected"
      /\ bs.refs = bt.refs /\ is.refs = it.refs
  <2>1. \A v \in ControllerType, st \in {"connecting", "connected", "disconnected"} :
           /\ Akin(v, Status(v, user, st)) /\ Status(v, user, st).refs = v.refs
           /\ user # NoUser => Status(v, user, st).part[user].status = st
    BY <1>2, AkinUsers
  <2>2. Akin(bt, bs) /\ bs \in ControllerType /\ bs.refs = bt.refs
    BY <1>3, <2>1 DEF Akin
  <2>3. Akin(it, is) /\ is \in ControllerType /\ is.refs = it.refs
        /\ (user # NoUser => is.part[user].status = "connected")
    BY <1>3, <2>1 DEF Akin
  <2>. QED  BY <2>2, <2>3
<1>. HIDE DEF bs, is
<1>5. Akin(is, ok) /\ ok.part = is.part /\ ok.refs = is.refs
  <2>1. SameAll(is, ok)
    BY <1>4, TimerFacts
  <2>. QED  BY <2>1, AkinSame DEF SameAll, SameUsers
<1>. HIDE DEF ok
<1>6. /\ Akin(ctl, ok) /\ Akin(ctl, bb) /\ ok.refs = ctl.refs /\ bb.refs = ctl.refs
      /\ ok \in ControllerType /\ bb \in ControllerType
  BY <1>3, <1>4, <1>5, AkinTransitive DEF Akin
<1>7. Akin(ctl, ff) /\ ff.refs = ctl.refs
  <2>. DEFINE g == Foreign(ctl, "REFER_INVITE", u)
  <2>1. Akin(ctl, g) /\ g \in ControllerType /\ g.refs = ctl.refs
    BY <1>2, AkinStale DEF Akin
  <2>. HIDE DEF g
  <2>2. SameAll(g, StopFinalSipfragWaitTimer(g))
    BY <2>1, TimerFacts
  <2>3. Akin(g, StopFinalSipfragWaitTimer(g))
    BY <2>2, AkinSame
  <2>4. Akin(ctl, StopFinalSipfragWaitTimer(g))
    BY <2>1, <2>3, AkinTransitive
  <2>. QED  BY <2>1, <2>2, <2>4 DEF SameAll, SameUsers, g
<1>8. Akin(ctl, tr) /\ tr.refs = ctl.refs
  <2>. DEFINE g == Status(ctl, user, "connecting")
            h == CheckNStart(g, "CONDITION_SIPFRAG_100_RECEIVED")
  <2>1. Akin(ctl, g) /\ g \in ControllerType /\ g.refs = ctl.refs
    BY <1>2, AkinUsers DEF Akin
  <2>. HIDE DEF g
  <2>2. SameAll(g, h)
    BY <2>1, TimerFacts
  <2>. HIDE DEF h
  <2>3. Akin(g, h)
    BY <2>2, AkinSame
  <2>4. Akin(ctl, h)
    BY <2>1, <2>3, AkinTransitive
  <2>. QED  BY <2>1, <2>2, <2>4 DEF SameAll, SameUsers, g, h
<1>8a. Akin(ctl, no) /\ OnlyRef(ctl, no, u, r) /\ no.refs[u][r] = "silent"
  BY <1>1, <1>2, AkinSilent
<1>. HIDE DEF ff, tr, bb, no
<1>9. CASE r = "bye" /\ Event(Ended(Complete(World(bb), "REFER_BYE", user), u, r, last))
  <2>. DEFINE y == Complete(World(bb), "REFER_BYE", user)
  <2>1. Quiet(World(bb)) /\ Calm(World(bb)) /\ World(bb).c = bb
    BY <1>6, QuietNow
  <2>2. World(bb) \in WorldType /\ Fitting(World(bb)) /\ Settled(World(bb))
    BY <2>1 DEF Quiet, Calm
  <2>3. /\ Quiet(y) /\ Effect(World(bb), y)
        /\ ~Fits(bb, "REFER_BYE", user) => y = World(bb)
        /\ Fits(bb, "REFER_BYE", user) => From(y.c.queue, Tail(bb.queue))
    BY <2>1, <2>2, QuietComplete
  <2>. HIDE DEF y
  <2>4. y.c.refs[u][r] # "none" /\ y \in WorldType
    BY <1>1, <1>6, <2>1, <2>3 DEF Effect, RefsKept
  <2>5. ~FrontOf(y.c, u, r)
    BY <1>1, <1>2, <1>6, <1>9, <2>1, <2>2, <2>3, <2>4, FrontDone DEF TypeOf
  <2>6. Outcome(Ended(y, u, r, last))
    BY <2>3, <2>4, <2>5, QuietOutcome, EndedOutcome
  <2>. QED  BY <1>9, <2>6, EventKeepsInvariant DEF y
<1>10. CASE r = "invite" /\ Event(Ended(Complete(World(ok), "REFER_INVITE", user), u, r, last))
  <2>. DEFINE y == Complete(World(ok), "REFER_INVITE", user)
  <2>1. /\ Alike(World(ctl), World(ok)) /\ World(ok).c = ok /\ FrontKept(ctl, ok)
        /\ World(ok) \in WorldType /\ Fitting(World(ok))
    BY <1>6, QuietNow DEF Calm
  <2>2. ASSUME Fits(ctl, "REFER_INVITE", user)
        PROVE  \/ ok.stale
               \/ ok.part[Head(ctl.queue).user].status = "connected"
    <3>1. CASE user = NoUser
      <4>1. FrontIs(ctl, "REFER_INVITE")
        BY <2>2 DEF Fits
      <4>. QED  BY <1>3, <1>4, <1>5, <3>1, <4>1 DEF Akin
    <3>2. CASE user # NoUser
      <4>1. user = Head(ctl.queue).user
        BY <2>2, <3>2 DEF Fits
      <4>. QED  BY <1>4, <1>5, <3>2, <4>1
    <3>. QED  BY <3>1, <3>2
  <2>3. /\ Outcome(y) /\ RefsKept(ok, y.c)
        /\ ~Fits(ctl, "REFER_INVITE", user) => y = World(ok)
        /\ Fits(ctl, "REFER_INVITE", user) => NewFront(World(ok), y)
    BY <2>1, <2>2, InviteComplete
  <2>. HIDE DEF y
  <2>4. y.c.refs[u][r] # "none" /\ y \in WorldType
    BY <1>1, <1>6, <2>3 DEF RefsKept, Outcome, Lawful
  <2>5. Fits(ctl, "REFER_INVITE", user) <=> Fits(ok, "REFER_INVITE", user)
    BY <1>6 DEF Akin, SameQueue, Fits, FrontIs
  <2>6. ~FrontOf(y.c, u, r)
    BY <1>1, <1>2, <1>6, <1>10, <2>1, <2>3, <2>4, <2>5, FrontDone DEF TypeOf
  <2>7. Outcome(Ended(y, u, r, last))
    BY <2>3, <2>4, <2>6, EndedOutcome
  <2>. QED  BY <1>10, <2>7, EventKeepsInvariant DEF y
<1>11. CASE r = "invite" /\ \E x \in Recover(World(ff)) : Event(Ended(x, u, r, last))
  <2>1. PICK x \in Recover(World(ff)) : Event(Ended(x, u, r, last))
    BY <1>11
  <2>2. Alike(World(ctl), World(ff)) /\ World(ff).c = ff /\ FrontKept(ctl, ff)
    BY <1>7, QuietNow
  <2>3. Outcome(x) /\ RefsKept(ff, x.c) /\ NewFront(World(ff), x)
    BY <2>1, <2>2, RecoverOutcome
  <2>4. x.c.refs[u][r] # "none"
    BY <1>1, <1>7, <2>3 DEF RefsKept
  <2>5. ~FrontOf(x.c, u, r)
    BY <1>1, <1>7, <1>11, <2>2, <2>3 DEF NewFront, FrontOf, TypeOf
  <2>6. Outcome(Ended(x, u, r, last))
    BY <2>3, <2>4, <2>5, EndedOutcome
  <2>. QED  BY <2>1, <2>6, EventKeepsInvariant
<1>12. CASE ~last /\ Event(Ended(World(tr), u, r, last))
  <2>1. Quiet(World(tr))
    BY <1>8, QuietNow
  <2>2. Ended(World(tr), u, r, last) = World(tr)
    BY <1>12 DEF Ended
  <2>. QED  BY <1>12, <2>1, <2>2, QuietOutcome, EventKeepsInvariant
<1>13. CASE r = "invite" /\ Event(World(no))
  <2>1. FrontKept(ctl, no)
    BY <1>1, <1>8a, <1>13, QueueNow, OneRef
  <2>2. Quiet(World(no))
    BY <1>8a, <2>1, QuietNow
  <2>. QED  BY <1>13, <2>2, QuietOutcome, EventKeepsInvariant
<1>. QED  BY <1>1, <1>9, <1>10, <1>11, <1>12, <1>13

\* A REFER for BYE that fails ends the command whatever it is: d has no operations left.
LEMMA DropFailedFacts ==
    ASSUME IInv, NEW late \in BOOLEAN, FrontIs(ctl, "REFER_BYE") \/ late,
           ~Early(ctl)
    PROVE  LET s == StopFinalSipfragWaitTimer(ctl)
               n == Cleared(NotifyUsersInfo(Told(s)))
               d == StaleSet(StateSet(n, "IDLE"), late)
           IN  /\ d \in ControllerType /\ Quiet(World(d)) /\ World(d).c = d
               /\ d.refs = ctl.refs /\ d.queue = << >>
<1>. DEFINE s == StopFinalSipfragWaitTimer(ctl)
            t == Told(s)
            m == NotifyUsersInfo(t)
            n == Cleared(m)
            i == StateSet(n, "IDLE")
            d == StaleSet(i, late)
            z == World(d)
<1>1. /\ World(ctl) \in WorldType /\ Fitting(World(ctl)) /\ World(ctl).c = ctl
      /\ Unasked(ctl, asked) /\ World(ctl).conf = conf /\ World(ctl).call = call
      /\ ctl \in ControllerType /\ ctl.queue \in Seq(Operation)
  BY CurrentWorld DEF IInv
<1>2. SameAll(ctl, s)
  BY <1>1, TimerFacts
<1>3. s \in ControllerType
  BY <1>2 DEF SameAll
<1>. HIDE DEF s
<1>4. /\ t \in ControllerType /\ SameUsers(s, t) /\ SameSub(s, t) /\ ~t.open
      /\ (t.stale <=> s.stale) /\ (t.twice <=> (s.twice \/ ~s.open))
  BY <1>3, ToldFacts
<1>. HIDE DEF t
<1>5. Akin(t, m) /\ m \in ControllerType /\ SameTalk(t, m) /\ m.refs = t.refs
  BY <1>4, AkinUsers, RemovedFacts DEF NotifyUsersInfo
<1>. HIDE DEF m
<1>6. /\ n \in ControllerType /\ SameTalk(m, n) /\ SameUsers(m, n) /\ SameSub(m, n)
      /\ n.queue = << >> /\ ~n.delay
  BY <1>5, ClearedFacts
<1>. HIDE DEF n
<1>7. "IDLE" \in States
  BY DEF States
<1>8. /\ i \in ControllerType /\ i.state = "IDLE"
      /\ SameQueue(n, i) /\ SameUsers(n, i) /\ SameSub(n, i)
      /\ (i.open <=> n.open) /\ (i.twice <=> n.twice) /\ (i.stale <=> n.stale)
  BY <1>6, <1>7, FieldFacts
<1>. HIDE DEF i
<1>9. /\ Akin(i, d) /\ d \in ControllerType /\ (d.stale <=> i.stale \/ late)
      /\ d.refs = i.refs
  BY <1>8, StaleFacts DEF Akin
<1>. HIDE DEF d
<1>10. z \in WorldType /\ z.c = d /\ z.conf = conf /\ z.call = call
  BY <1>1, <1>9, WorldFields, WorldOf
<1>. HIDE DEF z
<1>11. d.queue = << >> /\ ~d.delay /\ d.state = "IDLE"
  BY <1>6, <1>8, <1>9 DEF Akin, SameQueue
<1>12. LinksLive(d)
  <2>1. LinksLive(ctl)
    BY <1>1 DEF Fitting
  <2>2. LinksLive(t)
    BY <1>2, <1>4, <2>1 DEF SameAll, SameUsers, LinksLive, Linked
  <2>3. LinksLive(m)
    BY <1>5, <2>2 DEF Akin
  <2>4. LinksLive(i)
    BY <1>6, <1>8, <2>3 DEF SameUsers, LinksLive, Linked
  <2>. QED  BY <1>9, <2>4 DEF Akin
<1>13. d.twice => d.stale
  <2>1. d.twice <=> (ctl.twice \/ ~ctl.open)
    BY <1>2, <1>4, <1>5, <1>6, <1>8, <1>9 DEF SameAll, SameTalk, Akin
  <2>2. d.stale <=> (ctl.stale \/ late)
    BY <1>2, <1>4, <1>5, <1>6, <1>8, <1>9 DEF SameAll, SameTalk
  <2>3. ctl.twice => ctl.stale
    BY <1>1 DEF Fitting
  <2>4. ~late => ctl.open
    <3>1. FrontIs(ctl, "REFER_BYE") => Has(ctl.queue, Asking)
      BY <1>1, TailHas DEF FrontIs, Asking
    <3>. QED  BY <1>1, <3>1 DEF Fitting, QueueFits
  <2>. QED  BY <2>1, <2>2, <2>3, <2>4
<1>14. QueueFits(d.queue, d.open, d.sub, z.conf, d.state)
  BY <1>11, EmptyFits
<1>15. d.refs = ctl.refs
  BY <1>2, <1>4, <1>5, <1>6, <1>8, <1>9 DEF SameAll, SameUsers
<1>16. SameEngine(ctl, d)
  BY <1>2, <1>4, <1>5, <1>6, <1>8, <1>9 DEF SameAll, SameSub, Akin, SameEngine
<1>17. SubFits(d, d.queue, z.conf)
  <2>1. ~Has(<< >>, {"CHECK_CONNECTED"})
    BY DEF Has
  <2>2. ~Early(d)
    BY <1>16 DEF SameEngine, Early
  <2>3. SubFits(ctl, ctl.queue, conf)
    BY <1>1 DEF Fitting
  <2>. QED  BY <1>10, <1>11, <1>16, <2>1, <2>2, <2>3 DEF SubFits, SameEngine
<1>18. Unasked(d, asked)
  <2>1. DOMAIN << >> = {}
    OBVIOUS
  <2>. QED  BY <1>1, <1>11, <1>15, <2>1 DEF Unasked, Untouched
<1>19. Settled(z)
  BY <1>10, <1>11, <1>12, <1>13, <1>14, <1>17 DEF Settled, Fitting, Waits
<1>20. Quiet(z)
  BY <1>10, <1>18, <1>19 DEF Quiet, Calm, Settled
<1>. QED  BY <1>9, <1>10, <1>11, <1>15, <1>20 DEF z, d, i, n, m, t, s

\* A REFER fails.
LEMMA StartFailedKeeps ==
    ASSUME IInv, NEW u \in Users, NEW r \in References, OnReferenceStartFailed(u, r)
    PROVE  IInv' /\ AnswersOwn
<1>. DEFINE s == StopFinalSipfragWaitTimer(ctl)
            late == ~FrontIs(ctl, "REFER_BYE") \/ Head(ctl.queue).user # u
            n == Cleared(NotifyUsersInfo(Told(s)))
            d == StaleSet(StateSet(n, "IDLE"), late)
            f == Foreign(s, "REFER_INVITE", u)
            G(c) == IF Linked(c, u, r) /\ r = "invite" THEN Removed(c, {u}) ELSE c
<1>1. /\ ctl.refs[u][r] # "none"
      /\ \/ r = "bye" /\ Event(World(RemoveReference(d, u, r)))
         \/ r = "invite" /\ \E x \in Recover(World(f)) :
                                Event(With(x, RemoveReference(G(x.c), u, r)))
  <2>1. d = [n EXCEPT !.state = "IDLE", !.stale = @ \/ late]
    BY DEF StaleSet, StateSet
  <2>. QED  BY <2>1 DEF OnReferenceStartFailed, With
<1>2. ctl \in ControllerType /\ ~Early(ctl)
  BY <1>1, CurrentWorld DEF Fitting, SubFits, Untried
<1>3. CASE r = "bye" /\ Event(World(RemoveReference(d, u, r)))
  <2>. DEFINE g == RemoveReference(d, u, r)
  <2>1. late \in BOOLEAN /\ (FrontIs(ctl, "REFER_BYE") \/ late)
    OBVIOUS
  <2>. HIDE DEF late
  <2>2. /\ d \in ControllerType /\ Quiet(World(d)) /\ World(d).c = d
        /\ d.refs = ctl.refs /\ d.queue = << >>
    BY <1>2, <2>1, DropFailedFacts
  <2>. HIDE DEF d
  <2>3. Akin(d, g) /\ FrontKept(d, g)
    BY <1>1, <2>2, AkinUsers DEF FrontKept
  <2>. HIDE DEF g
  <2>4. World(g) = With(World(d), g)
    BY DEF World, With
  <2>5. Quiet(World(g))
    <3>1. World(d) \in WorldType /\ Calm(World(d))
      BY <2>2 DEF Quiet, Calm
    <3>2. Alike(World(d), World(g)) /\ World(g).c = g
      BY <2>2, <2>3, <2>4, <3>1, AkinAlike
    <3>. QED  BY <2>2, <2>3, <3>1, <3>2, AlikeQuiet
  <2>. QED  BY <1>3, <2>5, QuietOutcome, EventKeepsInvariant DEF g
<1>4. CASE r = "invite" /\ \E x \in Recover(World(f)) : Event(With(x, RemoveReference(G(x.c), u, r)))
  <2>1. PICK x \in Recover(World(f)) : Event(With(x, RemoveReference(G(x.c), u, r)))
    BY <1>4
  <2>2. Akin(ctl, f) /\ f.refs = ctl.refs
    <3>1. SameAll(ctl, s) /\ s \in ControllerType
      BY <1>2, TimerFacts DEF SameAll
    <3>. HIDE DEF s
    <3>2. Akin(ctl, s) /\ Akin(s, f) /\ f.refs = s.refs
      BY <3>1, AkinSame, AkinStale
    <3>. QED  BY <3>1, <3>2, AkinTransitive DEF SameAll, SameUsers
  <2>. HIDE DEF f
  <2>3. /\ Outcome(x) /\ x.c.refs[u][r] # "none" /\ ~FrontOf(x.c, u, r)
        /\ Fitting(x)
    <3>1. Alike(World(ctl), World(f)) /\ World(f).c = f /\ FrontKept(ctl, f)
      BY <2>2, QuietNow
    <3>2. Outcome(x) /\ RefsKept(f, x.c) /\ NewFront(World(f), x)
      BY <2>1, <3>1, RecoverOutcome
    <3>. QED  BY <1>1, <1>4, <2>2, <3>1, <3>2
              DEF RefsKept, NewFront, FrontOf, TypeOf, Outcome, Lawful, Settled
  <2>. DEFINE g == G(x.c)
              h == RemoveReference(g, u, r)
  <2>4. x \in WorldType /\ x.c \in ControllerType
    BY <2>3, WorldFields DEF Outcome, Lawful
  <2>5. /\ Akin(x.c, g) /\ NobodyJoins(x.c, g) /\ g \in ControllerType
        /\ g.refs = x.c.refs
    <3>1. Akin(x.c, x.c) /\ NobodyJoins(x.c, x.c)
      BY <2>4, AkinSelf DEF NobodyJoins
    <3>2. /\ Akin(x.c, Removed(x.c, {u})) /\ NobodyJoins(x.c, Removed(x.c, {u}))
          /\ Removed(x.c, {u}).refs = x.c.refs
      BY <2>4, AkinUsers
    <3>3. g = x.c \/ g = Removed(x.c, {u})
      OBVIOUS
    <3>. HIDE DEF g
    <3>. QED  BY <3>1, <3>2, <3>3 DEF Akin
  <2>. HIDE DEF g
  <2>6. Akin(g, h) /\ NobodyJoins(g, h) /\ OnlyRef(g, h, u, r)
    BY <2>3, <2>5, AkinUsers
  <2>. HIDE DEF h
  <2>7. Akin(x.c, h) /\ NobodyJoins(x.c, h) /\ FrontKept(x.c, h)
    <3>1. OnlyRef(x.c, h, u, r)
      BY <2>5, <2>6 DEF OnlyRef
    <3>2. FrontKept(x.c, h)
      BY <2>3, <2>4, <3>1, FittingQueue, OneRef
    <3>. QED  BY <2>5, <2>6, <3>2, AkinTransitive DEF NobodyJoins
  <2>8. Alike(x, With(x, h)) /\ With(x, h).c = h
    BY <2>4, <2>7, AkinAlike
  <2>9. Outcome(With(x, h))
    BY <2>3, <2>7, <2>8, AlikeOutcome
  <2>. QED  BY <2>1, <2>9, EventKeepsInvariant DEF g, h
<1>. QED  BY <1>1, <1>3, <1>4

\* All events of the references.
LEMMA ReferenceKeeps ==
    ASSUME IInv, NEW u \in Users, NEW r \in References, Reference(u, r)
    PROVE  IInv' /\ AnswersOwn
<1>1. ASSUME NEW f \in SipFrags, OnReferenceUpdated(u, r, f.code, f.last)
      PROVE  IInv' /\ AnswersOwn
  <2>1. f.code = "trying" => ~f.last
    BY <1>1 DEF SipFrags
  <2>. QED  BY <1>1, <2>1, UpdatedKeeps
<1>. QED  BY <1>1, StartedKeeps, StartFailedKeeps DEF Reference

-----------------------------------------------------------------------------
(***************************************************************************)
(* The events of the subscription.                                           *)
(***************************************************************************)
\* The fields of the subscription as the events set them.
LEMMA EngineForms ==
    ASSUME NEW c \in ControllerType
    PROVE  /\ \A v, e : [c EXCEPT !.sub = v, !.eng = e] = EngineSet(c, v, e, c.notified, c.lost)
           /\ \A e : [c EXCEPT !.eng = e] = EngineSet(c, c.sub, e, c.notified, c.lost)
           /\ \A e : [c EXCEPT !.eng = e, !.lost = TRUE]
                        = EngineSet(c, c.sub, e, c.notified, TRUE)
           /\ \A v, e, l : [c EXCEPT !.sub = v, !.eng = e, !.lost = l]
                              = EngineSet(c, v, e, c.notified, l)
           /\ \A v : [c EXCEPT !.sub = v] = EngineSet(c, v, c.eng, c.notified, c.lost)
BY DEF EngineSet, ControllerType

\* There is no subscription event before SUBSCRIBE, which is not sent twice.
LEMMA SubscribedOnce ==
    ASSUME IInv, ctl.eng # "none"
    PROVE  /\ ctl.sub # "none" /\ ctl.sub \in SubStates /\ ctl.eng \in EngineStates
           /\ ctl.notified \in BOOLEAN /\ ctl.lost \in BOOLEAN
           /\ ctl.queue # << >> => ~Has(Tail(ctl.queue), {"SUBSCRIBE"})
<1>1. ctl \in ControllerType
  BY CurrentWorld
<1>2. ctl.sub # "none"
  BY CurrentWorld DEF Fitting, SubFits
<1>3. ctl.queue # << >> => ~Has(Tail(ctl.queue), {"SUBSCRIBE"})
  BY <1>2, CurrentWorld DEF Fitting, QueueFits
<1>. QED  BY <1>1, <1>2, <1>3 DEF ControllerType, SubStates, EngineStates

\* The subscription may change where the queue does not need its old state.
LEMMA EngineMoves ==
    ASSUME IInv, ctl.eng # "none", NEW v \in SubStates \ {"none"}, NEW e \in EngineStates,
           NEW l \in BOOLEAN, ctl.lost => l,
           ~l => /\ v = "SUBSCRIBING" => e \in {"CREATE", "REFRESH"}
                 /\ v = "ACTIVE" => e = "ACTIVE"
                 /\ v \in {"UNSUBSCRIBING", "IDLE"} =>
                       /\ conf = "ENDED" /\ ~Has(ctl.queue, {"CHECK_CONNECTED"})
                       /\ ctl.queue # << >> => ~Has(Tail(ctl.queue), {"UNSUBSCRIBE"})
    PROVE  LET d == EngineSet(ctl, v, e, ctl.notified, l)
           IN  /\ Calm(World(d)) /\ World(d).c = d
               /\ d.sub = v /\ d.eng = e /\ (d.lost <=> l) /\ d.queue = ctl.queue
               /\ d.state = ctl.state
               /\ (~l /\ ctl.queue # << >> =>
                      LET o == Head(ctl.queue)
                      IN  /\ o.type = "SUBSCRIBE" =>
                                v = "SUBSCRIBING" \/ (flow = "notify_refer" /\ v = "ACTIVE")
                          /\ o.type = "UNSUBSCRIBE" /\ o.delayed =>
                                v \in {"SUBSCRIBING", "ACTIVE"}
                          /\ o.type = "UNSUBSCRIBE" /\ ~o.delayed =>
                                v = "UNSUBSCRIBING" /\ e \in PendingRequests)
                     => Quiet(World(d)) /\ Settled(World(d))
<1>. DEFINE w == World(ctl)
            q == ctl.queue
            d == EngineSet(ctl, v, e, ctl.notified, l)
            z == World(d)
<1>1. /\ w \in WorldType /\ Settled(w) /\ Fitting(w) /\ Waits(w)
      /\ w.c = ctl /\ w.conf = conf /\ w.call = call /\ Unasked(ctl, asked)
      /\ ctl \in ControllerType /\ q \in Seq(Operation)
  BY CurrentWorld DEF IInv
<1>2. /\ ctl.sub # "none" /\ v \in SubStates /\ v # "none" /\ ctl.notified \in BOOLEAN
      /\ q # << >> => ~Has(Tail(q), {"SUBSCRIBE"})
  BY SubscribedOnce
<1>3. /\ d \in ControllerType /\ d.sub = v /\ d.eng = e /\ (d.lost <=> l)
      /\ d.closed <=> ctl.closed
      /\ SameQueue(ctl, d) /\ SameTalk(ctl, d) /\ SameUsers(ctl, d)
  BY <1>1, <1>2, EngineFacts
<1>. HIDE DEF w, d
<1>4. z \in WorldType /\ z.c = d /\ z.conf = conf /\ z.call = call
  BY <1>1, <1>3, WorldFields, WorldOf DEF w
<1>. HIDE DEF z
<1>5. d.queue = q /\ (d.delay <=> ctl.delay) /\ d.refs = ctl.refs /\ d.state = ctl.state
  BY <1>3 DEF SameQueue, SameTalk, SameUsers
<1>6. QueueFits(d.queue, d.open, d.sub, z.conf, d.state)
  BY <1>1, <1>2, <1>3, <1>4, <1>5 DEF Fitting, QueueFits, SameTalk
<1>7. SubFits(d, d.queue, z.conf)
  BY <1>2, <1>3, <1>4, <1>5 DEF SubFits, Early
<1>8. d.queue # << >> => Coming(d, Tail(d.queue))
  <2>1. q # << >> => Coming(ctl, Tail(q))
    BY <1>1 DEF Fitting
  <2>2. q # << >> /\ Has(Tail(q), {"UNSUBSCRIBE"}) => l \/ v \in {"SUBSCRIBING", "ACTIVE"}
    BY <1>2 DEF SubStates
  <2>. QED  BY <1>3, <1>5, <2>1, <2>2 DEF Coming
<1>9. Fitting(z)
  BY <1>1, <1>3, <1>4, <1>6, <1>7, <1>8
     DEF Fitting, SameTalk, SameUsers, LinksLive, Linked
<1>10. Unasked(d, asked)
  BY <1>1, <1>5 DEF Unasked, Untouched
<1>11. Calm(z)
  BY <1>4, <1>9, <1>10 DEF Calm
<1>12. ASSUME ~l /\ q # << >> =>
                 LET o == Head(q)
                 IN  /\ o.type = "SUBSCRIBE" =>
                           v = "SUBSCRIBING" \/ (flow = "notify_refer" /\ v = "ACTIVE")
                     /\ o.type = "UNSUBSCRIBE" /\ o.delayed => v \in {"SUBSCRIBING", "ACTIVE"}
                     /\ o.type = "UNSUBSCRIBE" /\ ~o.delayed =>
                           v = "UNSUBSCRIBING" /\ e \in PendingRequests
       PROVE  Settled(z)
  <2>1. ASSUME q # << >>
        PROVE  UnderWayIn(z, Head(q))
    <3>. DEFINE o == Head(q)
    <3>1. UnderWayIn(w, o) /\ (o.delayed => o.type = "UNSUBSCRIBE")
      BY <1>1, <2>1, TailOrdered DEF Waits, Fitting, QueueFits
    <3>2. ~l => /\ o.type = "SUBSCRIBE" =>
                      v = "SUBSCRIBING" \/ (flow = "notify_refer" /\ v = "ACTIVE")
                /\ o.type = "UNSUBSCRIBE" /\ o.delayed => v \in {"SUBSCRIBING", "ACTIVE"}
                /\ o.type = "UNSUBSCRIBE" /\ ~o.delayed =>
                      v = "UNSUBSCRIBING" /\ e \in PendingRequests
      BY <1>12, <2>1
    <3>. HIDE DEF o
    <3>3. UnderWayIn(z, o)
      BY <1>1, <1>2, <1>3, <1>4, <1>5, <3>1, <3>2 DEF UnderWayIn
    <3>. QED  BY <3>3 DEF o
  <2>2. Waits(z)
    BY <1>1, <1>4, <1>5, <2>1 DEF Waits
  <2>. QED  BY <1>1, <1>4, <1>5, <1>9, <2>2 DEF Settled
<1>. QED  BY <1>3, <1>4, <1>5, <1>11, <1>12 DEF Quiet, z, d

\* SUBSCRIBE, or the UNSUBSCRIBE that is SUBSCRIBE too, is accepted.
LEMMA SubscribedKeeps ==
    ASSUME IInv, SubscriptionStarted
    PROVE  IInv' /\ AnswersOwn
<1>. DEFINE A(v) == EngineSet(ctl, v, "ACTIVE", ctl.notified, ctl.lost)
            q == ctl.queue
<1>1. /\ ctl.eng \in PendingRequests
      /\ \/ /\ ctl.sub = "SUBSCRIBING"
            /\ \/ flow = "notify_refer" /\ Event(World(A("ACTIVE")))
               \/ Event(Complete(World(A("ACTIVE")), "SUBSCRIBE", NoUser))
         \/ ctl.sub = "UNSUBSCRIBING" /\ Event(Complete(World(A("IDLE")), "UNSUBSCRIBE", NoUser))
         \/ ctl.sub = "IDLE" /\ Event(World(A("IDLE")))
  BY CurrentWorld, EngineForms DEF SubscriptionStarted
<1>2. /\ ctl.eng # "none" /\ ctl.lost \in BOOLEAN
      /\ q # << >> => ~Has(Tail(q), {"SUBSCRIBE"})
      /\ "ACTIVE" \in EngineStates /\ "ACTIVE" \in SubStates \ {"none"}
      /\ "IDLE" \in SubStates \ {"none"}
  BY <1>1, SubscribedOnce DEF PendingRequests, SubStates, EngineStates
<1>3. /\ Fitting(World(ctl)) /\ World(ctl).c = ctl /\ World(ctl).conf = conf
      /\ q # << >> => UnderWayIn(World(ctl), Head(q))
  BY CurrentWorld DEF IInv, Waits
<1>4. CASE ctl.sub = "SUBSCRIBING"
  <2>. DEFINE d == A("ACTIVE")
              y == Complete(World(d), "SUBSCRIBE", NoUser)
              Proper == q # << >> =>
                 LET o == Head(q)
                 IN  /\ o.type = "SUBSCRIBE" => flow = "notify_refer"
                     /\ o.type = "UNSUBSCRIBE" /\ ~o.delayed => ctl.lost
  <2>1. /\ Calm(World(d)) /\ World(d).c = d /\ d.sub = "ACTIVE" /\ d.queue = q
        /\ Proper => Quiet(World(d)) /\ Settled(World(d))
    BY <1>2, EngineMoves
  <2>. HIDE DEF d
  <2>2. ASSUME q # << >> => (Head(q).type = "SUBSCRIBE" => flow = "notify_refer")
        PROVE  Proper
    BY <1>3, <1>4, <2>2 DEF UnderWayIn
  <2>. HIDE DEF Proper
  <2>3. flow = "notify_refer" => Quiet(World(d))
    BY <2>1, <2>2
  <2>4. ~Fits(d, "SUBSCRIBE", NoUser) => Settled(World(d))
    BY <2>1, <2>2 DEF Fits, FrontIs
  <2>5. Quiet(y)
    BY <2>1, <2>4, QuietComplete
  <2>. HIDE DEF y
  <2>6. (flow = "notify_refer" /\ Event(World(d))) \/ Event(y)
    BY <1>1, <1>4 DEF d, y
  <2>. QED  BY <2>3, <2>5, <2>6, QuietOutcome, EventKeepsInvariant
<1>5. CASE ctl.sub \in {"UNSUBSCRIBING", "IDLE"}
  <2>. DEFINE d == A("IDLE")
              y == Complete(World(d), "UNSUBSCRIBE", NoUser)
  <2>1. ~ctl.lost =>
           /\ conf = "ENDED" /\ ~Has(q, {"CHECK_CONNECTED"})
           /\ q # << >> => ~Has(Tail(q), {"UNSUBSCRIBE"})
    BY <1>3, <1>5 DEF Fitting, SubFits, Coming
  <2>2. ~ctl.lost /\ q # << >> =>
           /\ Head(q).type # "SUBSCRIBE"
           /\ Head(q).type = "UNSUBSCRIBE" => ctl.sub = "UNSUBSCRIBING"
    BY <1>3, <1>5 DEF UnderWayIn, Fitting, QueueFits, Ordered, WellMade
  <2>3. /\ Calm(World(d)) /\ World(d).c = d /\ d.sub = "IDLE" /\ d.queue = q
        /\ (~ctl.lost /\ q # << >> => Head(q).type \notin {"SUBSCRIBE", "UNSUBSCRIBE"})
              => Quiet(World(d)) /\ Settled(World(d))
    BY <1>2, <2>1, EngineMoves
  <2>. HIDE DEF d
  <2>4. ctl.sub = "IDLE" => Quiet(World(d))
    BY <2>2, <2>3
  <2>5. ~Fits(d, "UNSUBSCRIBE", NoUser) => Settled(World(d))
    BY <2>2, <2>3 DEF Fits, FrontIs
  <2>6. Quiet(y)
    BY <2>3, <2>5, QuietComplete
  <2>. HIDE DEF y
  <2>7. (ctl.sub = "IDLE" /\ Event(World(d))) \/ Event(y)
    BY <1>1, <1>5 DEF d, y
  <2>. QED  BY <2>4, <2>6, <2>7, QuietOutcome, EventKeepsInvariant
<1>. QED  BY <1>1, <1>4, <1>5

\* The subscription is deleted once SUBSCRIBE is completed: nothing waits for it.
LEMMA FailedKeeps ==
    ASSUME IInv, ctl.eng # "none", Event(SubscriptionFailed(ctl))
    PROVE  IInv' /\ AnswersOwn
<1>. DEFINE q == ctl.queue
            b == EngineSet(ctl, ctl.sub, "none", ctl.notified, TRUE)
            w == World(b)
            x == Complete(w, "SUBSCRIBE", NoUser)
            d == EngineSet(x.c, "none", x.c.eng, x.c.notified, x.c.lost)
            y == With(x, d)
<1>1. Event(IF x.c \in ControllerType THEN y ELSE SubscriptionFailed(ctl))
  <2>1. [ctl EXCEPT !.eng = "none", !.lost = TRUE] = b
    BY CurrentWorld, EngineForms
  <2>2. x.c \in ControllerType => [x.c EXCEPT !.sub = "none"] = d
    BY EngineForms
  <2>3. SubscriptionFailed(ctl) = [x EXCEPT !.c.sub = "none"]
    BY <2>1 DEF SubscriptionFailed
  <2>. HIDE DEF x, d, b, w
  <2>4. x.c \in ControllerType => [x EXCEPT !.c.sub = "none"] = y
    BY <2>2 DEF With
  <2>. QED  BY <2>3, <2>4
<1>2. /\ ctl.sub \in SubStates \ {"none"} /\ "none" \in EngineStates /\ ctl.queue \in Seq(Operation)
      /\ q # << >> => ~Has(Tail(q), {"SUBSCRIBE"})
  BY SubscribedOnce, CurrentWorld DEF EngineStates
<1>3. /\ Calm(w) /\ Quiet(w) /\ Settled(w) /\ w.c = b
      /\ b.sub # "none" /\ b.eng = "none" /\ b.lost /\ b.queue = q
  <2>1. Quiet(World(b))
    BY <1>2, EngineMoves
  <2>2. World(b).c = b
    BY DEF World
  <2>2a. b.sub = ctl.sub /\ b.eng = "none" /\ b.queue = q
    BY CurrentWorld DEF EngineSet, ControllerType
  <2>3. b.lost <=> TRUE
    BY <1>2, EngineMoves
  <2>. HIDE DEF b
  <2>. QED  BY <1>2, <2>1, <2>2, <2>2a, <2>3 DEF Quiet
<1>. HIDE DEF w, b
<1>4. /\ Quiet(x) /\ Effect(w, x)
      /\ ~Fits(b, "SUBSCRIBE", NoUser) => x = w
      /\ Fits(b, "SUBSCRIBE", NoUser) =>
            /\ From(x.c.queue, Tail(q))
            /\ ~Has(Tail(q), {"SUBSCRIBE"}) => x.c.eng = "none"
  BY <1>3, QuietComplete
<1>. HIDE DEF x
<1>5. /\ x \in WorldType /\ Settled(x) /\ Fitting(x) /\ x.call = call /\ Unasked(x.c, asked)
      /\ x.c \in ControllerType /\ x.c.queue \in Seq(Operation) /\ x.c.lost /\ x.c.eng = "none"
  <2>1. x.c.eng = "none"
    BY <1>2, <1>3, <1>4 DEF Fits, FrontIs
  <2>. QED  BY <1>3, <1>4, <2>1, WorldFields, ControllerFields DEF Quiet, Calm, Effect
<1>6. x.c.queue # << >> => Head(x.c.queue).type # "SUBSCRIBE"
  <2>1. CASE Fits(b, "SUBSCRIBE", NoUser)
    <3>1. ~Has(Tail(q), {"SUBSCRIBE"})
      BY <1>2, <1>3, <2>1 DEF Fits, FrontIs
    <3>2. ~Has(x.c.queue, {"SUBSCRIBE"})
      BY <1>4, <2>1, <3>1, FromHas DEF Closing
    <3>. QED  BY <1>5, <3>2, TailHas
  <2>2. CASE ~Fits(b, "SUBSCRIBE", NoUser)
    BY <1>3, <1>4, <2>2 DEF Fits, FrontIs
  <2>. QED  BY <2>1, <2>2
<1>7. /\ d \in ControllerType /\ d.sub = "none" /\ d.eng = "none" /\ d.lost
      /\ d.closed <=> x.c.closed
      /\ SameQueue(x.c, d) /\ SameTalk(x.c, d) /\ SameUsers(x.c, d)
  <2>1. "none" \in SubStates /\ x.c.eng \in EngineStates /\ x.c.notified \in BOOLEAN
        /\ x.c.lost \in BOOLEAN
    BY <1>5 DEF ControllerType, SubStates, EngineStates
  <2>2. \A v \in SubStates, e \in EngineStates, n \in BOOLEAN, l \in BOOLEAN :
           LET f == EngineSet(x.c, v, e, n, l)
           IN  /\ f \in ControllerType /\ f.sub = v /\ f.eng = e /\ (f.lost <=> l)
               /\ f.closed <=> x.c.closed
               /\ SameQueue(x.c, f) /\ SameTalk(x.c, f) /\ SameUsers(x.c, f)
    BY <1>5, EngineFacts
  <2>3. /\ d \in ControllerType /\ d.sub = "none" /\ d.eng = x.c.eng
        /\ d.lost <=> x.c.lost
        /\ d.closed <=> x.c.closed
        /\ SameQueue(x.c, d) /\ SameTalk(x.c, d) /\ SameUsers(x.c, d)
    BY <2>1, <2>2
  <2>. HIDE DEF d
  <2>. QED  BY <1>5, <2>3
<1>7a. Event(y)
  BY <1>1, <1>5
<1>. HIDE DEF d
<1>8. y \in WorldType /\ y.c = d /\ y.conf = x.conf /\ y.call = call
  BY <1>5, <1>7, WorldFields
<1>. HIDE DEF y
<1>9. d.queue = x.c.queue /\ (d.delay <=> x.c.delay) /\ d.refs = x.c.refs
  BY <1>7 DEF SameQueue, SameUsers
<1>10. QueueFits(d.queue, d.open, d.sub, y.conf, d.state)
  BY <1>5, <1>7, <1>8, <1>9 DEF Fitting, QueueFits, SameTalk
<1>11. SubFits(d, d.queue, y.conf)
  BY <1>7 DEF SubFits, Early
<1>12. Fitting(y)
  BY <1>5, <1>7, <1>8, <1>9, <1>10, <1>11
     DEF Fitting, Coming, SameTalk, SameUsers, LinksLive, Linked
<1>13. Waits(x) => Waits(y)
  BY <1>5, <1>6, <1>7, <1>8, <1>9 DEF Waits, UnderWayIn
<1>14. Settled(y)
  BY <1>5, <1>7, <1>8, <1>9, <1>12, <1>13 DEF Settled
<1>15. Unasked(d, asked)
  BY <1>5, <1>9 DEF Unasked, Untouched
<1>16. Quiet(y)
  BY <1>8, <1>12, <1>14, <1>15 DEF Quiet, Calm
<1>. QED  BY <1>7a, <1>16, QuietOutcome, EventKeepsInvariant

\* There is no answer, a new subscription is tried, or the subscription has failed.
LEMMA SubscribeFailedKeeps ==
    ASSUME IInv, SubscriptionStartFailed
    PROVE  IInv' /\ AnswersOwn
<1>. DEFINE q == ctl.queue
            a == EngineSet(ctl, ctl.sub, "INACTIVE", ctl.notified, TRUE)
            b == EngineSet(ctl, ctl.sub, "CREATE", ctl.notified, ctl.lost)
            d == EngineSet(ctl, ctl.sub, "none", ctl.notified, ctl.lost)
            y == Complete(World(d), "UNSUBSCRIBE", NoUser)
<1>1. /\ ctl.eng \in PendingRequests
      /\ \/ Event(World(a))
         \/ ctl.sub = "SUBSCRIBING" /\ Event(World(b))
         \/ Event(SubscriptionFailed(ctl))
         \/ ctl.sub = "UNSUBSCRIBING" /\ Event(y)
  BY CurrentWorld, EngineForms DEF SubscriptionStartFailed, PendingRequests
<1>2. /\ ctl.eng # "none" /\ ctl.lost \in BOOLEAN /\ ctl.sub \in SubStates \ {"none"}
      /\ {"INACTIVE", "CREATE", "none"} \subseteq EngineStates
  BY <1>1, SubscribedOnce DEF PendingRequests, EngineStates
<1>3. /\ Fitting(World(ctl)) /\ World(ctl).c = ctl /\ World(ctl).conf = conf
      /\ q # << >> => UnderWayIn(World(ctl), Head(q))
  BY CurrentWorld DEF IInv, Waits
<1>4. Quiet(World(a))
  BY <1>2, EngineMoves
<1>. HIDE DEF a
<1>5. CASE ctl.sub = "SUBSCRIBING" /\ Event(World(b))
  <2>1. ~ctl.lost /\ q # << >> => ~(Head(q).type = "UNSUBSCRIBE" /\ ~Head(q).delayed)
    BY <1>3, <1>5 DEF UnderWayIn
  <2>2. Quiet(World(b))
    BY <1>2, <1>5, <2>1, EngineMoves
  <2>. QED  BY <1>5, <2>2, QuietOutcome, EventKeepsInvariant
<1>6. CASE ctl.sub = "UNSUBSCRIBING" /\ Event(y)
  <2>1. ~ctl.lost =>
           /\ conf = "ENDED" /\ ~Has(q, {"CHECK_CONNECTED"})
           /\ q # << >> => ~Has(Tail(q), {"UNSUBSCRIBE"})
    BY <1>3, <1>6 DEF Fitting, SubFits, Coming
  <2>2. ~ctl.lost /\ q # << >> => Head(q).type # "SUBSCRIBE"
    BY <1>3, <1>6 DEF UnderWayIn, Fitting, QueueFits, Ordered, WellMade
  <2>3. /\ Calm(World(d)) /\ World(d).c = d /\ d.sub # "none" /\ d.queue = q
        /\ (~ctl.lost /\ q # << >> => Head(q).type \notin {"SUBSCRIBE", "UNSUBSCRIBE"})
              => Quiet(World(d)) /\ Settled(World(d))
    BY <1>2, <1>6, <2>1, EngineMoves
  <2>. HIDE DEF d
  <2>4. ~Fits(d, "UNSUBSCRIBE", NoUser) => Settled(World(d))
    BY <2>2, <2>3 DEF Fits, FrontIs
  <2>5. Quiet(y)
    BY <2>3, <2>4, QuietComplete
  <2>. HIDE DEF y
  <2>. QED  BY <1>6, <2>5, QuietOutcome, EventKeepsInvariant
<1>7. CASE Event(SubscriptionFailed(ctl))
  BY <1>2, <1>7, FailedKeeps
<1>. QED  BY <1>1, <1>4, <1>5, <1>6, <1>7, QuietOutcome, EventKeepsInvariant

\* The network ends the subscription, and the conference is to be terminated.
LEMMA SubTerminatedKeeps ==
    ASSUME IInv, SubscriptionTerminated
    PROVE  IInv' /\ AnswersOwn
<1>. DEFINE q == ctl.queue
            e == IF ctl.eng = "ACTIVE" THEN "INACTIVE" ELSE ctl.eng
            l == ctl.lost \/ ~FrontIs(ctl, "UNSUBSCRIBE")
            d == EngineSet(ctl, "IDLE", e, ctl.notified, l)
            z == World(d)
            x == Complete(z, "UNSUBSCRIBE", NoUser)
            y == Put(x, TerminateOps)
<1>1. ctl.eng \in PendingRequests \cup {"ACTIVE"} /\ Event(y)
  <2>1. [ctl EXCEPT !.sub = "IDLE", !.eng = IF @ = "ACTIVE" THEN "INACTIVE" ELSE @,
                    !.lost = @ \/ ~FrontIs(ctl, "UNSUBSCRIBE")]
            = [ctl EXCEPT !.sub = "IDLE", !.eng = e, !.lost = l]
    OBVIOUS
  <2>. HIDE DEF e, l
  <2>2. [ctl EXCEPT !.sub = "IDLE", !.eng = e, !.lost = l] = d
    BY CurrentWorld DEF EngineSet, ControllerType
  <2>. HIDE DEF d
  <2>3. [ctl EXCEPT !.sub = "IDLE", !.eng = IF @ = "ACTIVE" THEN "INACTIVE" ELSE @,
                    !.lost = @ \/ ~FrontIs(ctl, "UNSUBSCRIBE")] = d
    BY <2>1, <2>2
  <2>. QED  BY <2>3 DEF SubscriptionTerminated, TerminateOps, PendingRequests
<1>2. /\ ctl.eng # "none" /\ l \in BOOLEAN /\ e \in EngineStates /\ q \in Seq(Operation)
      /\ "IDLE" \in SubStates \ {"none"}
  BY <1>1, SubscribedOnce, CurrentWorld DEF PendingRequests, EngineStates, SubStates
<1>3. Fitting(World(ctl)) /\ World(ctl).c = ctl /\ World(ctl).conf = conf
  BY CurrentWorld
<1>4. ~l =>
         /\ conf = "ENDED" /\ ~Has(q, {"CHECK_CONNECTED"})
         /\ q # << >> => ~Has(Tail(q), {"UNSUBSCRIBE"})
  <2>. SUFFICES ASSUME ~l
                PROVE  /\ conf = "ENDED" /\ ~Has(q, {"CHECK_CONNECTED"})
                       /\ ~Has(Tail(q), {"UNSUBSCRIBE"})
    OBVIOUS
  <2>1. q # << >> /\ Head(q).type = "UNSUBSCRIBE"
    BY DEF FrontIs
  <2>2. /\ ~Has(Tail(q), {"UNSUBSCRIBE"}) /\ ~Has(Tail(q), {"CHECK_CONNECTED"})
    BY <1>2, <1>3, <2>1, TailOrdered DEF Fitting, QueueFits
  <2>3. ~Has(q, {"CHECK_CONNECTED"}) /\ Has(q, Closing)
    BY <1>2, <2>1, <2>2, TailHas DEF Closing
  <2>. QED  BY <1>3, <2>2, <2>3 DEF Fitting, QueueFits
<1>4a. l \/ FrontIs(ctl, "UNSUBSCRIBE")
  OBVIOUS
<1>5. /\ Calm(z) /\ z.c = d /\ d.sub = "IDLE" /\ d.queue = q
      /\ l => Settled(z)
  <2>1. ctl.lost => l
    OBVIOUS
  <2>. HIDE DEF l, e
  <2>. QED  BY <1>2, <1>4, <2>1, EngineMoves
<1>. HIDE DEF z, d, l
<1>6. ~Fits(d, "UNSUBSCRIBE", NoUser) => Settled(z)
  BY <1>4a, <1>5 DEF Fits, FrontIs
<1>7. Quiet(x) /\ Effect(z, x)
  BY <1>5, <1>6, QuietComplete
<1>. HIDE DEF x
<1>8. /\ x \in WorldType /\ Settled(x) /\ x.call = call /\ x.c.state # "CREATED"
      /\ Unasked(x.c, asked)
  BY <1>5, <1>7 DEF Quiet, Calm, Fitting, QueueFits, Effect
<1>9. Quiet(y)
  BY <1>8, PutTerminateWorks DEF Quiet, Calm, Settled, Unasked
<1>. QED  BY <1>1, <1>9, QuietOutcome, EventKeepsInvariant

\* A C-NOTIFY completes SUBSCRIBE or CHECK_CONNECTED, neither of which ends a call.
LEMMA NotifyQuiet ==
    ASSUME NEW x, Quiet(x), x.c.sub # "none"
    PROVE  Quiet(NotifyReceived(x))
<1>. DEFINE f == IF flow = "notify_refer" THEN Complete(x, "SUBSCRIBE", NoUser) ELSE x
            a == IF Connecting(f.c) = {} THEN Put(f, TerminateOps) ELSE f
            n == NotifyUsersInfo(a.c)
            y == Complete(With(a, n), "CHECK_CONNECTED", NoUser)
<1>1. NotifyReceived(x) = IF Participants(f.c) = {} THEN f ELSE y
  BY DEF NotifyReceived, TerminateOps, With
<1>2. Quiet(f) /\ f.c.sub # "none"
  <2>. DEFINE g == Complete(x, "SUBSCRIBE", NoUser)
  <2>1. Quiet(g) /\ Effect(x, g)
    BY QuietComplete DEF Quiet
  <2>. HIDE DEF g
  <2>. QED  BY <2>1 DEF Effect, g
<1>. HIDE DEF f
<1>3. Quiet(a)
  <2>1. f \in WorldType /\ Settled(f) /\ f.call = call /\ f.c.state # "CREATED"
        /\ Unasked(f.c, asked)
    BY <1>2 DEF Quiet, Calm, Fitting, QueueFits
  <2>2. Quiet(Put(f, TerminateOps))
    BY <2>1, PutTerminateWorks DEF Quiet, Calm, Settled, Unasked
  <2>. QED  BY <1>2, <2>2
<1>. HIDE DEF a
<1>4. a \in WorldType /\ a.c \in ControllerType /\ Calm(a)
  BY <1>3, WorldFields DEF Quiet, Calm
<1>5. Akin(a.c, n) /\ FrontKept(a.c, n)
  BY <1>4, AkinUsers, SameRefs
<1>. HIDE DEF n
<1>6. Quiet(With(a, n)) /\ With(a, n).c = n
  BY <1>3, <1>4, <1>5, AkinAlike, AlikeQuiet
<1>7. Quiet(y)
  BY <1>6, QuietComplete DEF Quiet
<1>. QED  BY <1>1, <1>2, <1>7

\* The status that a C-NOTIFY reports changes nothing else.
LEMMA AkinReported ==
    ASSUME NEW c \in ControllerType, NEW u \in Users,
           NEW st \in {"connecting", "connected", "disconnected"}
    PROVE  Akin(c, Reported(c, u, st)) /\ Reported(c, u, st).refs = c.refs
<1>. DEFINE p == [c.part[u] EXCEPT !.status = st, !.updated = TRUE]
            d == PartSet(c, u, p)
<1>1. c.part \in [Users -> Participant]
  BY ControllerFields
<1>2. p \in Participant /\ p.in = c.part[u].in /\ p.ref = c.part[u].ref
  BY <1>1 DEF Participant
<1>3. Reported(c, u, st) = d
  BY <1>1 DEF Reported, PartSet, ControllerType
<1>. HIDE DEF p
<1>4. /\ d \in ControllerType
      /\ SameQueue(c, d) /\ SameTalk(c, d) /\ SameSub(c, d) /\ d.refs = c.refs
      /\ d.part = [c.part EXCEPT ![u] = p]
  BY <1>2, PartFieldFacts
<1>. HIDE DEF d
<1>5. LinksLive(c) => LinksLive(d)
  BY <1>1, <1>2, <1>4 DEF LinksLive, Linked
<1>. QED  BY <1>3, <1>4, <1>5, SameRefs DEF Akin, SameTalk

\* A version that does not follow: SUBSCRIBE again.
LEMMA ReSubscribeKeeps ==
    ASSUME IInv, ctl.eng # "none", ReSubscribe
    PROVE  IInv' /\ AnswersOwn
<1>. DEFINE q == ctl.queue
            d == EngineSet(ctl, "SUBSCRIBING", "REFRESH", ctl.notified, ctl.lost)
<1>1. \/ ctl.eng = "ACTIVE" /\ Event(World(d))
      \/ Event(SubscriptionFailed(ctl))
  <2>1. [ctl EXCEPT !.sub = "SUBSCRIBING", !.eng = "REFRESH"] = d
    BY CurrentWorld, EngineForms
  <2>. HIDE DEF d
  <2>. QED  BY <2>1 DEF ReSubscribe
<1>2. CASE ctl.eng = "ACTIVE" /\ Event(World(d))
  <2>1. /\ ctl.lost \in BOOLEAN /\ "SUBSCRIBING" \in SubStates \ {"none"}
        /\ "REFRESH" \in EngineStates
    BY SubscribedOnce DEF SubStates, EngineStates, PendingRequests
  <2>2. ~ctl.lost /\ q # << >> => ~(Head(q).type = "UNSUBSCRIBE" /\ ~Head(q).delayed)
    <3>1. /\ World(ctl).c = ctl
          /\ q # << >> => UnderWayIn(World(ctl), Head(q))
      BY CurrentWorld DEF IInv, Waits
    <3>. QED  BY <1>2, <3>1 DEF UnderWayIn, PendingRequests
  <2>3. Quiet(World(d))
    BY <2>1, <2>2, EngineMoves
  <2>. QED  BY <1>2, <2>3, QuietOutcome, EventKeepsInvariant
<1>. QED  BY <1>1, <1>2, FailedKeeps

\* A C-NOTIFY arrives.
LEMMA NotifyKeeps ==
    ASSUME IInv, SubscriptionNotify
    PROVE  IInv' /\ AnswersOwn
<1>. DEFINE k == [ctl EXCEPT !.notified = TRUE]
<1>1. ctl \in ControllerType /\ ctl.eng # "none" /\ ctl.sub # "none"
  BY CurrentWorld, SubscribedOnce DEF SubscriptionNotify, PendingRequests
<1>2. \/ Event(NotifyReceived(World(k)))
      \/ \E u \in Users : \/ Event(NotifyReceived(World(Reported(k, u, "connected"))))
                          \/ Event(NotifyReceived(World(Reported(k, u, "disconnected"))))
      \/ ReSubscribe
  BY DEF SubscriptionNotify, Connecting, Participants
<1>3. SameAll(ctl, k)
  BY <1>1, TimerFacts
<1>. HIDE DEF k
<1>4. Akin(ctl, k) /\ k \in ControllerType /\ k.refs = ctl.refs
  BY <1>3, AkinSame DEF SameAll, SameUsers
<1>5. ASSUME NEW d, Akin(ctl, d), d.refs = ctl.refs, Event(NotifyReceived(World(d)))
      PROVE  IInv' /\ AnswersOwn
  <2>1. Quiet(World(d)) /\ World(d).c = d
    BY <1>5, QuietNow
  <2>2. World(d).c.sub # "none"
    BY <1>1, <1>5, <2>1 DEF Akin, SameSub
  <2>. QED  BY <1>5, <2>1, <2>2, NotifyQuiet, QuietOutcome, EventKeepsInvariant
<1>6. ASSUME NEW u \in Users, NEW st \in {"connected", "disconnected"}
      PROVE  Akin(ctl, Reported(k, u, st)) /\ Reported(k, u, st).refs = ctl.refs
  <2>1. Akin(k, Reported(k, u, st)) /\ Reported(k, u, st).refs = k.refs
    BY <1>4, AkinReported
  <2>. QED  BY <1>4, <2>1, AkinTransitive
<1>7. CASE \E u \in Users : \/ Event(NotifyReceived(World(Reported(k, u, "connected"))))
                            \/ Event(NotifyReceived(World(Reported(k, u, "disconnected"))))
  BY <1>5, <1>6, <1>7
<1>. QED  BY <1>1, <1>2, <1>4, <1>5, <1>7, ReSubscribeKeeps

\* All events of the subscription.
LEMMA SubscriptionKeeps ==
    ASSUME IInv, Subscription
    PROVE  IInv' /\ AnswersOwn
BY SubscribedKeeps, SubscribeFailedKeeps, SubTerminatedKeeps, NotifyKeeps DEF Subscription

-----------------------------------------------------------------------------
(***************************************************************************)
(* The operations that a command puts into the queue, piece by piece.          *)
(***************************************************************************)
Piece(p, T, U) ==       \* of types T, asking in only users of U
    /\ p \in Seq(Operation) /\ Ordered(p) /\ ~StartsWithTerm(p) /\ ~Pending(p)
    /\ \A i \in DOMAIN p : /\ p[i].type \in T
                           /\ p[i].type = "REFER_INVITE" => p[i].user \in U

\* A piece has no operation of another type.
LEMMA PieceHas ==
    ASSUME NEW p, NEW T, NEW U, Piece(p, T, U), NEW X, T \cap X = {}
    PROVE  ~Has(p, X)
BY DEF Piece, Has

\* The empty piece.
LEMMA PieceNone == Piece(<< >>, {}, {})
<1>1. << >> \in Seq(Operation) /\ DOMAIN << >> = {}
  BY EmptySeq
<1>. QED  BY <1>1 DEF Piece, Ordered, WellMade, InTurn, StartsWithTerm, Pending

\* A piece of one operation without a user.
LEMMA PieceOne ==
    ASSUME NEW type \in Immediate \cup Lasting, NEW u \in Users \cup {NoUser},
           type # "TERMINATE_1TO1_CALL", type \in OfUser => u \in Users
    PROVE  Piece(<<Op(type, u)>>, {type}, {u})
<1>. DEFINE o == Op(type, u)
            p == <<o>>
<1>1. o \in Operation /\ o.type = type /\ o.user = u /\ ~o.delayed
  BY OpTypes
<1>. HIDE DEF o
<1>2. p \in Seq(Operation) /\ DOMAIN p = {1} /\ p[1] = o
  BY <1>1
<1>. HIDE DEF p
<1>3. WellMade(p)
  BY <1>1, <1>2 DEF WellMade
<1>4. InTurn(p)
  BY <1>2 DEF InTurn
<1>5. ~StartsWithTerm(p) /\ ~Pending(p)
  BY <1>1, <1>2 DEF StartsWithTerm, Pending
<1>. QED  BY <1>1, <1>2, <1>3, <1>4, <1>5 DEF Piece, Ordered, p, o

\* A piece of a REFER with what comes right after it.
LEMMA PieceTwo ==
    ASSUME NEW t1 \in OfUser \ {"TERMINATE_1TO1_CALL"}, NEW u1 \in Users,
           NEW t2 \in {"TERMINATE_1TO1_CALL", "NOTIFY_RESULT_TO_UI"},
           NEW u2 \in Users \cup {NoUser},
           t2 = "TERMINATE_1TO1_CALL" => t1 = "REFER_INVITE" /\ u1 = u2
    PROVE  Piece(<<Op(t1, u1), Op(t2, u2)>>, {t1, t2}, {u1})
<1>. DEFINE a == Op(t1, u1)
            b == Op(t2, u2)
            p == <<a, b>>
<1>1. t1 \in Immediate \cup Lasting /\ t2 \in Immediate \cup Lasting
  BY DEF OfUser, Immediate, Lasting
<1>2. /\ a \in Operation /\ a.type = t1 /\ a.user = u1 /\ ~a.delayed
      /\ b \in Operation /\ b.type = t2 /\ b.user = u2 /\ ~b.delayed
  BY <1>1, OpTypes
<1>. HIDE DEF a, b
<1>3. p \in Seq(Operation) /\ DOMAIN p = 1..2 /\ p[1] = a /\ p[2] = b /\ p # << >>
  BY <1>2
<1>. HIDE DEF p
<1>4. WellMade(p)
  BY <1>2, <1>3 DEF WellMade, OfUser
<1>5. InTurn(p)
  BY <1>2, <1>3 DEF InTurn, Turn, OfUser, Asking
<1>6. ~StartsWithTerm(p) /\ ~Pending(p)
  BY <1>2, <1>3 DEF StartsWithTerm, Pending
<1>. QED  BY <1>2, <1>3, <1>4, <1>5, <1>6 DEF Piece, Ordered, p, a, b

\* Two pieces make a piece.
LEMMA PieceConcat ==
    ASSUME NEW s, NEW S, NEW U, NEW t, NEW T, NEW V, Piece(s, S, U), Piece(t, T, V),
           "CREATE_CONFERENCE_CALL" \notin T,
           "SUBSCRIBE" \notin S \cap T,
           "NOTIFY_RESULT_TO_UI" \notin S \/ T \cap Asking = {},
           "UNSUBSCRIBE" \notin S, "REFER_BYE" \notin S,
           "REFER_INVITE" \notin S \/ "REFER_INVITE" \notin T \/ U \cap V = {}
    PROVE  Piece(s \o t, S \cup T, U \cup V)
<1>1. /\ s \in Seq(Operation) /\ Ordered(s) /\ ~StartsWithTerm(s) /\ ~Pending(s)
      /\ t \in Seq(Operation) /\ Ordered(t) /\ ~StartsWithTerm(t) /\ ~Pending(t)
  BY DEF Piece
<1>2. Ordered(s \o t)
  <2>1. ~Has(t, {"CREATE_CONFERENCE_CALL"})
    BY PieceHas
  <2>2. ~Has(s, {"SUBSCRIBE"}) \/ ~Has(t, {"SUBSCRIBE"})
    BY PieceHas
  <2>3. ~Has(s, {"NOTIFY_RESULT_TO_UI"}) \/ ~Has(t, Asking)
    BY PieceHas
  <2>4. ~Has(s, {"UNSUBSCRIBE"}) /\ ~Has(s, {"REFER_BYE"})
    BY PieceHas
  <2>5. Apart(s, t)
    BY DEF Piece, Apart
  <2>6. ~Has(s, {"DESTROY_CONTROLLER"}) \/ ~Pending(t)
    BY <1>1
  <2>. QED  BY <1>1, <2>1, <2>2, <2>3, <2>4, <2>5, <2>6, ConcatOrdered
<1>3. /\ s \o t \in Seq(Operation) /\ DOMAIN (s \o t) = 1..(Len(s) + Len(t))
      /\ \A i \in 1..Len(s) : (s \o t)[i] = s[i]
      /\ \A i \in (Len(s) + 1)..(Len(s) + Len(t)) :
            (s \o t)[i] = t[i - Len(s)] /\ i - Len(s) \in 1..Len(t)
  BY <1>1, ConcatFacts
<1>4. Len(s) \in Nat /\ DOMAIN s = 1..Len(s) /\ Len(t) \in Nat /\ DOMAIN t = 1..Len(t)
  BY <1>1, QueueFacts
<1>5. \A i \in DOMAIN (s \o t) :
         /\ (s \o t)[i].type \in S \cup T
         /\ (s \o t)[i].type = "REFER_INVITE" => (s \o t)[i].user \in U \cup V
  <2>. SUFFICES ASSUME NEW i \in DOMAIN (s \o t)
                PROVE  /\ (s \o t)[i].type \in S \cup T
                       /\ (s \o t)[i].type = "REFER_INVITE" => (s \o t)[i].user \in U \cup V
    OBVIOUS
  <2>1. CASE i \in 1..Len(s)
    <3>1. s[i].type \in S /\ (s[i].type = "REFER_INVITE" => s[i].user \in U)
      BY <1>4, <2>1 DEF Piece
    <3>. QED  BY <1>3, <2>1, <3>1
  <2>2. CASE i \in (Len(s) + 1)..(Len(s) + Len(t))
    <3>1. /\ t[i - Len(s)].type \in T
          /\ t[i - Len(s)].type = "REFER_INVITE" => t[i - Len(s)].user \in V
      BY <1>3, <1>4, <2>2 DEF Piece
    <3>. QED  BY <1>3, <2>2, <3>1
  <2>. QED  BY <1>3, <1>4, <2>1, <2>2
<1>6. ~StartsWithTerm(s \o t)
  <2>1. CASE s = << >>
    <3>1. s \o t = t
      BY <1>1, <2>1, ConcatEmptySeq
    <3>. QED  BY <1>1, <3>1
  <2>2. CASE s # << >>
    <3>1. 1 \in 1..Len(s)
      BY <1>1, <2>2, QueueFacts
    <3>2. (s \o t)[1] = s[1]
      BY <1>3, <3>1
    <3>. QED  BY <1>1, <2>2, <3>2 DEF StartsWithTerm
  <2>. QED  BY <2>1, <2>2
<1>7. ~Pending(s \o t)
  BY <1>1, ConcatHas
<1>. QED  BY <1>2, <1>3, <1>5, <1>6, <1>7 DEF Piece

Both(p, q) == p \o q

\* FlattenSeq of one sequence and of two.
LEMMA FlattenShort ==
    ASSUME NEW s, NEW n \in {1, 2}, Len(s) = n
    PROVE  /\ n = 1 => FlattenSeq(s) = s[1]
           /\ n = 2 => FlattenSeq(s) = Both(s[1], s[2])
<1>. DEFINE G(f) == [i \in 1..n |-> IF i = 1 THEN s[i] ELSE f[i - 1] \o s[i]]
            F == CHOOSE f : f = G(f)
            g == [i \in 1..n |-> IF i = 1 THEN s[1] ELSE s[1] \o s[2]]
<1>0. Len(s) # 0
  OBVIOUS
<1>1. FlattenSeq(s) = F[n]
  BY <1>0, Zenon DEF FlattenSeq
<1>2. n \in {1, 2}
  OBVIOUS
<1>3. g = G(g)
  <2>1. \A i \in 1..n : g[i] = IF i = 1 THEN s[i] ELSE g[i - 1] \o s[i]
    <3>1. CASE n = 1
      BY <3>1
    <3>2. CASE n = 2
      BY <3>2
    <3>. QED  BY <1>2, <3>1, <3>2
  <2>. QED  BY <2>1
<1>4. F = G(F)
  <2>. HIDE DEF g, G
  <2>. QED  BY <1>3, Zenon
<1>. HIDE DEF F, g
<1>5. F[1] = s[1] /\ (n = 2 => F[2] = F[1] \o s[2])
  <2>1. \A i \in 1..n : G(F)[i] = IF i = 1 THEN s[i] ELSE F[i - 1] \o s[i]
    OBVIOUS
  <2>2. 1 \in 1..n /\ (n = 2 => 2 \in 1..n)
    BY <1>2
  <2>. HIDE DEF G
  <2>3. \A i \in 1..n : F[i] = IF i = 1 THEN s[i] ELSE F[i - 1] \o s[i]
    BY <1>4, <2>1
  <2>4. F[1] = s[1]
    BY <2>2, <2>3
  <2>5. n = 2 => F[2] = F[2 - 1] \o s[2]
    <3>1. 2 # 1
      OBVIOUS
    <3>. QED  BY <2>2, <2>3, <3>1, Zenon
  <2>6. 2 - 1 = 1
    OBVIOUS
  <2>. QED  BY <2>4, <2>5, <2>6
<1>. QED  BY <1>1, <1>2, <1>5 DEF Both

Checks == IF flow = "notify_refer" THEN {"CHECK_CONNECTED"} ELSE {}
InviteTypes == {"REFER_INVITE", "TERMINATE_1TO1_CALL"} \cup Checks
InviteOps(u) ==
    <<Op("REFER_INVITE", u), Op("TERMINATE_1TO1_CALL", u)>>
       \o IF flow = "notify_refer" THEN <<Op("CHECK_CONNECTED", u)>> ELSE << >>

\* The operations for one user are a piece.
LEMMA InviteOpsPiece ==
    ASSUME NEW u \in Users
    PROVE  Piece(InviteOps(u), InviteTypes, {u})
<1>. DEFINE p == <<Op("REFER_INVITE", u), Op("TERMINATE_1TO1_CALL", u)>>
            c == IF flow = "notify_refer" THEN <<Op("CHECK_CONNECTED", u)>> ELSE << >>
            P == {"REFER_INVITE", "TERMINATE_1TO1_CALL"}
<1>1. Piece(p, P, {u})
  <2>1. "REFER_INVITE" \in OfUser \ {"TERMINATE_1TO1_CALL"}
    BY DEF OfUser
  <2>2. "TERMINATE_1TO1_CALL" \in {"TERMINATE_1TO1_CALL", "NOTIFY_RESULT_TO_UI"}
    OBVIOUS
  <2>3. u \in Users \cup {NoUser}
    OBVIOUS
  <2>. QED  BY <2>1, <2>2, <2>3, PieceTwo
<1>2. Piece(c, Checks, IF flow = "notify_refer" THEN {u} ELSE {})
  <2>1. CASE flow = "notify_refer"
    <3>1. "CHECK_CONNECTED" \in Immediate \cup Lasting
      BY DEF Lasting
    <3>2. u \in Users \cup {NoUser}
      OBVIOUS
    <3>. QED  BY <2>1, <3>1, <3>2, PieceOne DEF Checks
  <2>2. CASE flow # "notify_refer"
    BY <2>2, PieceNone DEF Checks
  <2>. QED  BY <2>1, <2>2
<1>. HIDE DEF p, c
<1>3. Piece(p \o c, P \cup Checks, {u} \cup IF flow = "notify_refer" THEN {u} ELSE {})
  BY <1>1, <1>2, PieceConcat DEF Checks
<1>. QED  BY <1>3 DEF InviteOps, InviteTypes, Piece, p, c

NewUsers(n) == {asked + i : i \in 1..n}

\* The users that the UI asks in next.
LEMMA InvitesPiece ==
    ASSUME NEW n \in {1, 2}, asked \in Nat, asked + n <= MaxUsers
    PROVE  Piece(InvitesOf(Fresh(n)), InviteTypes, NewUsers(n))
<1>. DEFINE us == Fresh(n)
            s == [i \in 1..n |-> InviteOps(asked + i)]
<1>1. \A i \in 1..n : asked + i \in Users
  <2>1. CASE n = 1
    BY <2>1, BoundAssumption DEF Users
  <2>2. CASE n = 2
    BY <2>2, BoundAssumption DEF Users
  <2>. QED  BY <2>1, <2>2
<1>2. DOMAIN us = 1..n /\ \A i \in 1..n : us[i] = asked + i
  BY DEF Fresh
<1>3. InvitesOf(us) = FlattenSeq([i \in DOMAIN us |-> InviteOps(us[i])])
  BY DEF InvitesOf, InviteOps
<1>. HIDE DEF us
<1>4. [i \in DOMAIN us |-> InviteOps(us[i])] = s
  BY <1>2
<1>5. \A i \in 1..n : Piece(s[i], InviteTypes, {asked + i})
  BY <1>1, InviteOpsPiece
<1>6. Len(s) = n
  <2>1. s \in [1..n -> Seq(Operation)]
    BY <1>5 DEF Piece
  <2>. HIDE DEF s
  <2>2. s \in Seq(Seq(Operation))
    BY <2>1
  <2>3. Len(s) \in Nat /\ 1..Len(s) = 1..n
    BY <2>1, <2>2, LenProperties
  <2>. QED  BY <2>3
<1>. HIDE DEF s
<1>7. (n = 1 => FlattenSeq(s) = s[1]) /\ (n = 2 => FlattenSeq(s) = Both(s[1], s[2]))
  BY <1>6, FlattenShort
<1>8. CASE n = 1
  <2>1. Piece(s[1], InviteTypes, {asked + 1}) /\ NewUsers(n) = {asked + 1}
    BY <1>5, <1>8 DEF NewUsers
  <2>. QED  BY <1>3, <1>4, <1>7, <1>8, <2>1 DEF us
<1>9. CASE n = 2
  <2>1. Piece(s[1], InviteTypes, {asked + 1}) /\ Piece(s[2], InviteTypes, {asked + 2})
    BY <1>5, <1>9
  <2>2. Piece(Both(s[1], s[2]), InviteTypes \cup InviteTypes, {asked + 1} \cup {asked + 2})
    <3>1. {asked + 1} \cap {asked + 2} = {}
      OBVIOUS
    <3>2. \A type \in {"CREATE_CONFERENCE_CALL", "SUBSCRIBE", "NOTIFY_RESULT_TO_UI",
                      "UNSUBSCRIBE", "REFER_BYE"} : type \notin InviteTypes
      BY DEF InviteTypes, Checks
    <3>. QED  BY <2>1, <3>1, <3>2, PieceConcat DEF Both
  <2>3. InviteTypes \cup InviteTypes = InviteTypes /\ {asked + 1} \cup {asked + 2} = NewUsers(n)
    BY <1>9 DEF NewUsers
  <2>. QED  BY <1>3, <1>4, <1>7, <1>9, <2>2, <2>3 DEF us
<1>. QED  BY <1>8, <1>9

Alone(type, when) == IF when THEN <<Op(type, NoUser)>> ELSE << >>
AloneTypes(type, when) == IF when THEN {type} ELSE {}

\* So is an operation that the flow may leave out.
LEMMA AlonePiece ==
    ASSUME NEW type \in Immediate \cup Lasting, type \notin OfUser, NEW when
    PROVE  Piece(Alone(type, when), AloneTypes(type, when), {})
<1>1. NoUser \in Users \cup {NoUser} /\ type # "TERMINATE_1TO1_CALL"
  BY DEF OfUser
<1>2. CASE when
  <2>1. Piece(<<Op(type, NoUser)>>, {type}, {NoUser}) /\ type # "REFER_INVITE"
    BY <1>1, PieceOne DEF OfUser
  <2>. QED  BY <1>2, <2>1 DEF Alone, AloneTypes, Piece
<1>3. CASE ~when
  BY <1>3, PieceNone DEF Alone, AloneTypes
<1>. QED  BY <1>2, <1>3

\* No operation that needs the subscription comes before SUBSCRIBE.
SubscribesFirst(q) ==
    \A i \in DOMAIN q : q[i].type \in Needing =>
        \E j \in DOMAIN q : j < i /\ q[j].type = "SUBSCRIBE"

\* What comes later does not change this.
LEMMA SubscribesFirstConcat ==
    ASSUME NEW s \in Seq(Operation), NEW t \in Seq(Operation),
           SubscribesFirst(s), Has(s, {"SUBSCRIBE"})
    PROVE  SubscribesFirst(s \o t) /\ Has(s \o t, {"SUBSCRIBE"})
<1>1. /\ DOMAIN (s \o t) = 1..(Len(s) + Len(t))
      /\ \A i \in 1..Len(s) : (s \o t)[i] = s[i]
      /\ Len(s) \in Nat /\ DOMAIN s = 1..Len(s) /\ Len(t) \in Nat
  BY ConcatFacts, QueueFacts
<1>2. PICK k \in DOMAIN s : s[k].type = "SUBSCRIBE"
  BY DEF Has
<1>3. k \in DOMAIN (s \o t) /\ (s \o t)[k].type = "SUBSCRIBE"
  BY <1>1, <1>2
<1>4. ASSUME NEW i \in DOMAIN (s \o t), (s \o t)[i].type \in Needing
      PROVE  \E j \in DOMAIN (s \o t) : j < i /\ (s \o t)[j].type = "SUBSCRIBE"
  <2>1. CASE i \in DOMAIN s
    <3>1. PICK j \in DOMAIN s : j < i /\ s[j].type = "SUBSCRIBE"
      BY <1>1, <1>4, <2>1 DEF SubscribesFirst
    <3>. QED  BY <1>1, <3>1
  <2>2. CASE i \notin DOMAIN s
    <3>1. k < i
      BY <1>1, <1>4, <2>2
    <3>. QED  BY <1>3, <3>1
  <2>. QED  BY <2>1, <2>2
<1>. QED  BY <1>3, <1>4 DEF SubscribesFirst, Has

MergeTypes ==
    InviteTypes \cup {"NOTIFY_RESULT_TO_UI", "NOTIFY_RESULT_TO_MTCCALL"}
       \cup IF ctl.state = "CREATED" THEN {"CREATE_CONFERENCE_CALL", "SUBSCRIBE"} ELSE {}

\* And so are all operations of a merge.
LEMMA MergePiece ==
    ASSUME NEW n \in {1, 2}, asked \in Nat, asked + n <= MaxUsers
    PROVE  /\ Piece(MergeOps(Fresh(n)), MergeTypes, NewUsers(n))
           /\ ctl.state = "CREATED" /\ flow = "notify_refer" =>
                 SubscribesFirst(MergeOps(Fresh(n)))
<1>. DEFINE first == ctl.state = "CREATED"
            early == first /\ flow # "refer_first"
            late == first /\ flow = "refer_first"
            a1 == Alone("CREATE_CONFERENCE_CALL", first)
            t1 == AloneTypes("CREATE_CONFERENCE_CALL", first)
            a2 == Alone("SUBSCRIBE", early)
            t2 == AloneTypes("SUBSCRIBE", early)
            a3 == InvitesOf(Fresh(n))
            a4 == Alone("NOTIFY_RESULT_TO_UI", TRUE)
            t4 == AloneTypes("NOTIFY_RESULT_TO_UI", TRUE)
            a5 == Alone("SUBSCRIBE", late)
            t5 == AloneTypes("SUBSCRIBE", late)
            a6 == Alone("NOTIFY_RESULT_TO_MTCCALL", TRUE)
            t6 == AloneTypes("NOTIFY_RESULT_TO_MTCCALL", TRUE)
<1>1. MergeOps(Fresh(n)) = ((((a1 \o a2) \o a3) \o a4) \o a5) \o a6
  BY DEF MergeOps, Alone
<1>2. /\ Piece(a1, t1, {}) /\ Piece(a2, t2, {}) /\ Piece(a4, t4, {}) /\ Piece(a5, t5, {})
      /\ Piece(a6, t6, {})
  <2>1. \A type \in {"CREATE_CONFERENCE_CALL", "SUBSCRIBE", "NOTIFY_RESULT_TO_UI",
                     "NOTIFY_RESULT_TO_MTCCALL"} :
           type \in Immediate \cup Lasting /\ type \notin OfUser
    BY DEF Immediate, Lasting, OfUser
  <2>. QED  BY <2>1, AlonePiece
<1>3. Piece(a3, InviteTypes, NewUsers(n))
  BY InvitesPiece
<1>. HIDE DEF a1, a2, a3, a4, a5, a6
<1>4. /\ t1 \subseteq {"CREATE_CONFERENCE_CALL"} /\ t2 \subseteq {"SUBSCRIBE"}
      /\ t4 = {"NOTIFY_RESULT_TO_UI"} /\ t5 \subseteq {"SUBSCRIBE"}
      /\ t6 = {"NOTIFY_RESULT_TO_MTCCALL"} /\ (t2 = {} \/ t5 = {})
      /\ ctl.state # "CREATED" => t1 = {} /\ t2 = {} /\ t5 = {}
  BY DEF AloneTypes
<1>4a. early => a2 = <<Op("SUBSCRIBE", NoUser)>>
  BY DEF Alone, a2
<1>. HIDE DEF t1, t2, t4, t5, t6
<1>5. /\ "CREATE_CONFERENCE_CALL" \notin InviteTypes /\ "SUBSCRIBE" \notin InviteTypes
      /\ "NOTIFY_RESULT_TO_UI" \notin InviteTypes
      /\ "UNSUBSCRIBE" \notin InviteTypes /\ "REFER_BYE" \notin InviteTypes
  BY DEF InviteTypes, Checks
<1>6. Piece(a1 \o a2, t1 \cup t2, {} \cup {})
  BY <1>2, <1>4, PieceConcat
<1>7. Piece((a1 \o a2) \o a3, (t1 \cup t2) \cup InviteTypes, ({} \cup {}) \cup NewUsers(n))
  BY <1>3, <1>4, <1>5, <1>6, PieceConcat
<1>8. Piece(((a1 \o a2) \o a3) \o a4, ((t1 \cup t2) \cup InviteTypes) \cup t4,
            (({} \cup {}) \cup NewUsers(n)) \cup {})
  BY <1>2, <1>4, <1>5, <1>7, PieceConcat
<1>9. Piece((((a1 \o a2) \o a3) \o a4) \o a5, (((t1 \cup t2) \cup InviteTypes) \cup t4) \cup t5,
            ((({} \cup {}) \cup NewUsers(n)) \cup {}) \cup {})
  <2>1. t5 \cap Asking = {}
    BY <1>4 DEF Asking
  <2>. QED  BY <1>2, <1>4, <1>5, <1>8, <2>1, PieceConcat
<1>10. Piece(((((a1 \o a2) \o a3) \o a4) \o a5) \o a6,
             ((((t1 \cup t2) \cup InviteTypes) \cup t4) \cup t5) \cup t6,
             (((({} \cup {}) \cup NewUsers(n)) \cup {}) \cup {}) \cup {})
  <2>1. t6 \cap Asking = {}
    BY <1>4 DEF Asking
  <2>. QED  BY <1>2, <1>4, <1>5, <1>9, <2>1, PieceConcat
<1>11. ((((t1 \cup t2) \cup InviteTypes) \cup t4) \cup t5) \cup t6 \subseteq MergeTypes
  BY <1>4 DEF MergeTypes
<1>12. ((((({} \cup {}) \cup NewUsers(n)) \cup {}) \cup {}) \cup {}) = NewUsers(n)
  OBVIOUS
<1>13. Piece(MergeOps(Fresh(n)), MergeTypes, NewUsers(n))
  BY <1>1, <1>10, <1>11, <1>12 DEF Piece
<1>14. ASSUME early
       PROVE  SubscribesFirst(MergeOps(Fresh(n)))
  <2>1. /\ a1 \in Seq(Operation) /\ a2 \in Seq(Operation) /\ a3 \in Seq(Operation)
        /\ a4 \in Seq(Operation) /\ a5 \in Seq(Operation) /\ a6 \in Seq(Operation)
        /\ a1 \o a2 \in Seq(Operation) /\ (a1 \o a2) \o a3 \in Seq(Operation)
        /\ ((a1 \o a2) \o a3) \o a4 \in Seq(Operation)
        /\ (((a1 \o a2) \o a3) \o a4) \o a5 \in Seq(Operation)
    BY <1>2, <1>3, <1>6, <1>7, <1>8, <1>9 DEF Piece
  <2>2. Has(a1 \o a2, {"SUBSCRIBE"})
    <3>1. DOMAIN a2 = {1} /\ a2[1].type = "SUBSCRIBE"
      BY <1>4a, <1>14, OpTypes DEF Immediate, Lasting
    <3>2. Has(a2, {"SUBSCRIBE"})
      BY <3>1 DEF Has
    <3>. QED  BY <2>1, <3>2, ConcatHas
  <2>3. SubscribesFirst(a1 \o a2)
    <3>1. (t1 \cup t2) \cap Needing = {}
      BY <1>4 DEF Needing
    <3>2. ~Has(a1 \o a2, Needing)
      BY <1>6, <3>1, PieceHas
    <3>. QED  BY <3>2 DEF SubscribesFirst, Has
  <2>4. SubscribesFirst((a1 \o a2) \o a3) /\ Has((a1 \o a2) \o a3, {"SUBSCRIBE"})
    BY <2>1, <2>2, <2>3, SubscribesFirstConcat
  <2>5. /\ SubscribesFirst(((a1 \o a2) \o a3) \o a4)
        /\ Has(((a1 \o a2) \o a3) \o a4, {"SUBSCRIBE"})
    BY <2>1, <2>4, SubscribesFirstConcat
  <2>6. /\ SubscribesFirst((((a1 \o a2) \o a3) \o a4) \o a5)
        /\ Has((((a1 \o a2) \o a3) \o a4) \o a5, {"SUBSCRIBE"})
    BY <2>1, <2>5, SubscribesFirstConcat
  <2>. QED  BY <1>1, <2>1, <2>6, SubscribesFirstConcat
<1>. QED  BY <1>13, <1>14

-----------------------------------------------------------------------------
(***************************************************************************)
(* A command that the controller takes up.                                   *)
(***************************************************************************)
Opened(c, s) == [c EXCEPT !.state = s, !.open = TRUE]

\* A command is open, and nothing else changes.
LEMMA OpenedFacts ==
    ASSUME NEW c \in ControllerType, NEW s \in States
    PROVE  LET d == Opened(c, s)
           IN  /\ d \in ControllerType /\ d.state = s /\ d.open
               /\ (d.twice <=> c.twice) /\ (d.stale <=> c.stale)
               /\ SameQueue(c, d) /\ SameUsers(c, d) /\ SameSub(c, d)
BY DEF Opened, ControllerType, SameQueue, SameUsers, SameSub

\* The operations of a command fit behind those that are still in the queue.
LEMMA CommandFits ==
    ASSUME NEW q \in Seq(Operation), NEW open, NEW sub, NEW cf, NEW state,
           QueueFits(q, open, sub, cf, state), state \in {"CREATED", "IDLE"}, cf # "ENDED",
           NEW s \in States \ {"CREATED", "IDLE"}, NEW ops, NEW T, NEW U,
           Piece(ops, T, U),
           T \cap Closing = {},
           "CHECK_CONNECTED" \in T => flow = "notify_refer",
           s = "JOINING" => "TERMINATE_1TO1_CALL" \notin T,
           {"SUBSCRIBE", "CREATE_CONFERENCE_CALL"} \cap T # {} => state = "CREATED"
    PROVE  /\ QueueFits(q, TRUE, sub, cf, s) /\ QueueFits(q \o ops, TRUE, sub, cf, s)
           /\ ~Has(ops, Closing) /\ (Has(ops, {"SUBSCRIBE"}) => sub = "none")
<1>1. ops \in Seq(Operation) /\ Ordered(ops) /\ ~StartsWithTerm(ops) /\ ~Pending(ops)
  BY DEF Piece
<1>2. ~Has(q, Asking) /\ ~Has(q, Closing)
  <2>1. state = "CREATED" => q = << >>
    BY DEF QueueFits
  <2>2. ~Has(<< >>, Asking)
    BY EmptyFits
  <2>. QED  BY <2>1, <2>2 DEF QueueFits
<1>3. /\ ~Has(q, {"NOTIFY_RESULT_TO_UI"}) /\ ~Has(q, {"TERMINATE_1TO1_CALL"})
      /\ ~Has(q, {"DESTROY_CONTROLLER"}) /\ ~Has(q, {"UNSUBSCRIBE"})
      /\ ~Has(q, {"REFER_BYE"}) /\ ~Has(q, {"REFER_INVITE"})
  BY <1>2 DEF Has, Asking, Closing
<1>4. QueueFits(q, TRUE, sub, cf, s)
  BY <1>3 DEF QueueFits
<1>5. /\ ~Has(ops, Closing) /\ ~Has(ops, {"UNSUBSCRIBE"})
      /\ Has(ops, {"CHECK_CONNECTED"}) => flow = "notify_refer"
      /\ s = "JOINING" => ~Has(ops, {"TERMINATE_1TO1_CALL"})
      /\ Has(ops, {"SUBSCRIBE"}) => state = "CREATED"
      /\ Has(ops, {"CREATE_CONFERENCE_CALL"}) => state = "CREATED"
  BY PieceHas DEF Closing
<1>6. state = "CREATED" => q = << >> /\ sub = "none"
  BY DEF QueueFits
<1>7. ~Has(<< >>, {"SUBSCRIBE"})
  BY EmptyFits
<1>8. Ordered(q \o ops)
  <2>1. Ordered(q)
    BY DEF QueueFits
  <2>2. ~Has(ops, {"CREATE_CONFERENCE_CALL"}) \/ q = << >>
    BY <1>5, <1>6
  <2>3. ~Has(q, {"SUBSCRIBE"}) \/ ~Has(ops, {"SUBSCRIBE"})
    BY <1>5, <1>6, <1>7
  <2>4. Apart(q, ops)
    BY <1>3 DEF Apart, Has
  <2>. QED  BY <1>1, <1>3, <2>1, <2>2, <2>3, <2>4, ConcatOrdered
<1>9. q \o ops # << >> => (Has(Tail(q \o ops), {"SUBSCRIBE"}) => sub = "none")
  <2>1. CASE q = << >>
    <3>1. q \o ops = ops
      BY <1>1, <2>1, ConcatEmptySeq
    <3>. QED  BY <1>1, <1>5, <1>6, <3>1, TailHas
  <2>2. CASE q # << >>
    <3>. DEFINE t == Tail(q)
    <3>1. Tail(q \o ops) = t \o ops /\ t \in Seq(Operation)
      BY <1>1, <2>2, TailOfConcat, QueueFacts
    <3>2. Has(t, {"SUBSCRIBE"}) => sub = "none"
      BY <2>2 DEF QueueFits
    <3>. HIDE DEF t
    <3>3. Has(t \o ops, {"SUBSCRIBE"}) <=> (Has(t, {"SUBSCRIBE"}) \/ Has(ops, {"SUBSCRIBE"}))
      BY <1>1, <3>1, ConcatHas
    <3>. QED  BY <1>5, <1>6, <3>1, <3>2, <3>3
  <2>. QED  BY <2>1, <2>2
<1>10. /\ Has(q \o ops, {"UNSUBSCRIBE"}) => FALSE
       /\ Has(q \o ops, Closing) => FALSE
       /\ Has(q \o ops, {"CHECK_CONNECTED"}) => flow = "notify_refer"
       /\ s = "JOINING" => ~Has(q \o ops, {"TERMINATE_1TO1_CALL"})
  BY <1>1, <1>2, <1>3, <1>5, ConcatHas DEF QueueFits
<1>11. QueueFits(q \o ops, TRUE, sub, cf, s)
  BY <1>8, <1>9, <1>10 DEF QueueFits
<1>. QED  BY <1>4, <1>5, <1>6, <1>11

\* The users asked in are new, and where SUBSCRIBE comes first, it does so at once.
Takes(s, ops, U) ==
    /\ \A u \in U : ctl.refs[u]["invite"] = "none"
    /\ ctl.state = "CREATED" /\ flow = "notify_refer" => s = "MERGING" /\ SubscribesFirst(ops)

\* A subscription that is still to be made is made by the first command.
LEMMA CommandSubFits ==
    ASSUME IInv, conf # "ENDED", IsReadyToPerformCmd, NEW d \in ControllerType,
           SameSub(ctl, d), d.refs = ctl.refs, d.queue = ctl.queue,
           NEW s \in States \ {"CREATED", "IDLE"}, d.state = s,
           NEW ops \in Seq(Operation), NEW U, Takes(s, ops, U)
    PROVE  SubFits(d, ctl.queue, conf) /\ SubFits(d, ctl.queue \o ops, conf)
<1>1. SubFits(ctl, ctl.queue, conf) /\ QueueFits(ctl.queue, ctl.open, ctl.sub, conf, ctl.state)
  BY CurrentWorld DEF Fitting
<1>2. d.sub = ctl.sub /\ d.eng = ctl.eng /\ (d.lost <=> ctl.lost)
  BY DEF SameSub, SameEngine
<1>3. ASSUME Early(d)
      PROVE  Untried(d, ctl.queue) /\ Untried(d, ctl.queue \o ops)
  <2>1. Early(ctl)
    BY <1>2, <1>3 DEF Early
  <2>2. Untried(ctl, ctl.queue)
    BY <1>1, <2>1 DEF SubFits
  <2>3. ctl.state = "CREATED" /\ flow = "notify_refer"
    BY <2>1, <2>2 DEF Untried, IsReadyToPerformCmd, Early
  <2>4. ctl.queue = << >> /\ d.state = "MERGING" /\ SubscribesFirst(ops)
    BY <1>1, <2>3 DEF QueueFits, Takes
  <2>5. ctl.queue \o ops = ops
    BY <2>4, ConcatEmptySeq
  <2>6. \A u \in Users, r \in References : d.refs[u][r] = "none"
    BY <2>2 DEF Untried
  <2>7. DOMAIN << >> = {}
    OBVIOUS
  <2>8. Untried(d, << >>)
    BY <2>4, <2>6, <2>7 DEF Untried
  <2>9. Untried(d, ops)
    BY <2>4, <2>6 DEF Untried, SubscribesFirst
  <2>. QED  BY <2>4, <2>5, <2>8, <2>9
<1>4. /\ d.sub = "none" => d.eng = "none"
      /\ ~d.lost =>
            /\ d.sub = "SUBSCRIBING" => d.eng \in {"CREATE", "REFRESH"}
            /\ d.sub = "ACTIVE" => d.eng = "ACTIVE"
            /\ d.sub \notin {"UNSUBSCRIBING", "IDLE"}
  BY <1>1, <1>2 DEF SubFits
<1>. QED  BY <1>3, <1>4 DEF SubFits

\* The operations of a command leave a settled world, and ask in nobody else.
LEMMA CommandWorks ==
    ASSUME IInv, conf # "ENDED", IsReadyToPerformCmd, NEW j, Akin(ctl, j), j.refs = ctl.refs,
           NEW s \in States \ {"CREATED", "IDLE"}, NEW ops, NEW T, NEW U, Piece(ops, T, U),
           T \cap Closing = {},
           "CHECK_CONNECTED" \in T => flow = "notify_refer",
           s = "JOINING" => "TERMINATE_1TO1_CALL" \notin T,
           {"SUBSCRIBE", "CREATE_CONFERENCE_CALL"} \cap T # {} => ctl.state = "CREATED",
           Takes(s, ops, U),
           NEW m \in Nat, asked \in Nat, asked <= m, \A u \in U : u <= m
    PROVE  LET y == Put(World(Opened(j, s)), ops)
           IN  Lawful(y) /\ Unasked(y.c, m)
<1>. DEFINE w == World(ctl)
            d == Opened(j, s)
            x == World(d)
            y == Put(x, ops)
            z == With(x, Appended(x.c, ops))
<1>1. /\ w \in WorldType /\ Settled(w) /\ Fitting(w)
      /\ w.c = ctl /\ w.conf = conf /\ w.call = call
      /\ ctl \in ControllerType /\ ctl.queue \in Seq(Operation)
  BY CurrentWorld
<1>2. Alike(w, World(j)) /\ Quiet(World(j)) /\ World(j).c = j /\ j \in ControllerType
  BY QuietNow DEF Akin
<1>3. /\ d \in ControllerType /\ d.state = s /\ d.open
      /\ (d.twice <=> j.twice) /\ (d.stale <=> j.stale)
      /\ SameQueue(j, d) /\ SameUsers(j, d) /\ SameSub(j, d)
  BY <1>2, OpenedFacts
<1>. HIDE DEF w, d
<1>4. x \in WorldType /\ x.c = d /\ x.conf = conf /\ x.call = call
  BY <1>1, <1>3, WorldFields, WorldOf DEF w
<1>. HIDE DEF x
<1>5. d.queue = ctl.queue /\ (d.delay <=> ctl.delay) /\ d.sub = ctl.sub
      /\ (d.closed <=> ctl.closed) /\ d.refs = ctl.refs /\ SameSub(ctl, d)
  BY <1>3 DEF Akin, SameQueue, SameSub, SameEngine, SameUsers
<1>6. /\ QueueFits(ctl.queue, TRUE, ctl.sub, conf, s)
      /\ QueueFits(ctl.queue \o ops, TRUE, ctl.sub, conf, s)
      /\ ~Has(ops, Closing) /\ (Has(ops, {"SUBSCRIBE"}) => ctl.sub = "none")
  <2>. DEFINE q == ctl.queue
              state == ctl.state
              sub == ctl.sub
              open == ctl.open
  <2>1. QueueFits(q, open, sub, conf, state)
    BY <1>1 DEF Fitting
  <2>2. /\ q \in Seq(Operation) /\ state \in {"CREATED", "IDLE"}
        /\ {"SUBSCRIBE", "CREATE_CONFERENCE_CALL"} \cap T # {} => state = "CREATED"
    BY <1>1 DEF IsReadyToPerformCmd
  <2>. HIDE DEF q, state, sub, open, y, z
  <2>3. /\ QueueFits(q, TRUE, sub, conf, s) /\ QueueFits(q \o ops, TRUE, sub, conf, s)
        /\ ~Has(ops, Closing) /\ (Has(ops, {"SUBSCRIBE"}) => sub = "none")
    BY <2>1, <2>2, CommandFits
  <2>. QED  BY <2>3 DEF q, sub
<1>7. Settled(World(j)) /\ World(j).conf = conf
  BY <1>2 DEF Quiet, World
<1>7a. ops \in Seq(Operation) /\ ~StartsWithTerm(ops)
  BY DEF Piece
<1>7b. SubFits(d, ctl.queue, conf) /\ SubFits(d, ctl.queue \o ops, conf)
  BY <1>3, <1>5, <1>7a, CommandSubFits
<1>8. Fitting(x)
  <2>1. QueueFits(d.queue, d.open, d.sub, x.conf, d.state)
    BY <1>3, <1>4, <1>5, <1>6 DEF QueueFits
  <2>2. /\ LinksLive(j) /\ (j.twice => j.stale)
        /\ j.queue # << >> => Coming(j, Tail(j.queue))
    BY <1>2, <1>7 DEF Fitting, Settled
  <2>3. LinksLive(d)
    BY <1>3, <2>2 DEF SameUsers, LinksLive, Linked
  <2>4. d.queue # << >> => Coming(d, Tail(d.queue))
    BY <1>3, <2>2 DEF SameQueue, SameUsers, SameSub, SameEngine, Coming
  <2>. QED  BY <1>3, <1>4, <1>5, <1>7b, <2>1, <2>2, <2>3, <2>4 DEF Fitting
<1>9. Settled(x)
  BY <1>2, <1>3, <1>4, <1>7, <1>8
     DEF Settled, Waits, UnderWayIn, SameQueue, SameUsers, SameSub, SameEngine
<1>10. QueueFits(x.c.queue \o ops, x.c.open, x.c.sub, x.conf, x.c.state)
  BY <1>3, <1>4, <1>5, <1>6 DEF QueueFits
<1>11. SubFits(x.c, x.c.queue \o ops, x.conf) /\ Coming(x.c, ops)
  <2>1. ~Has(ops, {"UNSUBSCRIBE"})
    BY <1>6 DEF Has, Closing
  <2>2. \A i \in DOMAIN ops : ops[i].type = "REFER_INVITE" => ops[i].user \in U
    BY DEF Piece
  <2>. QED  BY <1>4, <1>5, <1>7b, <2>1, <2>2 DEF Coming, Takes
<1>12. /\ y \in WorldType /\ Settled(y) /\ y.call = x.call /\ Effect(z, y)
       /\ z.c.queue = x.c.queue \o ops /\ SameUsers(x.c, z.c)
  BY <1>4, <1>5, <1>6, <1>7a, <1>9, <1>10, <1>11, PutWorks
<1>. HIDE DEF y, z
<1>13. ASSUME NEW u \in Users, u > m
       PROVE  Untouched(y.c, u)
  <2>1. Untouched(ctl, u) /\ u \notin U
    BY <1>13 DEF IInv, Unasked, Users
  <2>2. ~(\E i \in DOMAIN (ctl.queue \o ops) :
             (ctl.queue \o ops)[i].type = "REFER_INVITE" /\ (ctl.queue \o ops)[i].user = u)
    <3>1. ASSUME NEW i \in DOMAIN (ctl.queue \o ops),
                 (ctl.queue \o ops)[i].type = "REFER_INVITE", (ctl.queue \o ops)[i].user = u
          PROVE  FALSE
      <4>1. /\ DOMAIN (ctl.queue \o ops) = 1..(Len(ctl.queue) + Len(ops))
            /\ \A k \in 1..Len(ctl.queue) : (ctl.queue \o ops)[k] = ctl.queue[k]
            /\ \A k \in (Len(ctl.queue) + 1)..(Len(ctl.queue) + Len(ops)) :
                  /\ (ctl.queue \o ops)[k] = ops[k - Len(ctl.queue)]
                  /\ k - Len(ctl.queue) \in 1..Len(ops)
            /\ Len(ctl.queue) \in Nat /\ DOMAIN ctl.queue = 1..Len(ctl.queue)
            /\ Len(ops) \in Nat /\ DOMAIN ops = 1..Len(ops)
        BY <1>1, <1>7a, ConcatFacts, QueueFacts
      <4>2. CASE i \in 1..Len(ctl.queue)
        BY <2>1, <3>1, <4>1, <4>2 DEF Untouched
      <4>3. CASE i \in (Len(ctl.queue) + 1)..(Len(ctl.queue) + Len(ops))
        <5>1. ops[i - Len(ctl.queue)].user = u /\ ops[i - Len(ctl.queue)].type = "REFER_INVITE"
          BY <3>1, <4>1, <4>3
        <5>. QED  BY <2>1, <4>1, <4>3, <5>1 DEF Piece
      <4>. QED  BY <4>1, <4>2, <4>3
    <3>. QED  BY <3>1
  <2>3. Untouched(z.c, u)
    BY <1>4, <1>5, <1>12, <2>1, <2>2 DEF Untouched, SameUsers
  <2>. QED  BY <1>12, <2>3 DEF Effect
<1>. QED  BY <1>4, <1>12, <1>13 DEF Lawful, Unasked, y, x, d

\* Users who join are akin: they have no links.
LEMMA AkinJoined ==
    ASSUME NEW c \in ControllerType, NEW us
    PROVE  Akin(c, Joined(c, us)) /\ Joined(c, us).refs = c.refs
BY JoinedFacts, SameRefs DEF Akin, SameTalk

\* A command that ends in an outcome keeps the invariant.
LEMMA CommandKeeps ==
    ASSUME IInv, Commanded, asked' \in 0..MaxUsers, NEW y, Lawful(y), Unasked(y.c, asked'),
           Becomes(y)
    PROVE  IInv' /\ AnswersOwn
<1>1. commands' \in 0..MaxCommands
  BY BoundAssumption DEF Commanded, IInv, TypeOK
<1>. QED  BY <1>1, OutcomeKeepsInvariant

\* The UI merges calls.
LEMMA MergeKeeps ==
    ASSUME IInv, NEW n \in {1, 2}, asked + n <= MaxUsers, ProcessMerge(Fresh(n))
    PROVE  IInv' /\ AnswersOwn
<1>. DEFINE us == Fresh(n)
            j == Joined(ctl, SetOf(us))
            c == SendClosed(ctl)
            y == Put(World(Opened(j, "MERGING")), MergeOps(us))
<1>1. /\ Commanded /\ IsReadyToPerformCmd /\ asked' = asked + Len(us)
      /\ Becomes(IF ctl.state = "CREATED" /\ Len(us) < 2 THEN World(c) ELSE y)
  BY DEF ProcessMerge, Opened
<1>2. ctl \in ControllerType /\ asked \in Nat
  BY CurrentWorld, BoundAssumption DEF IInv, TypeOK
<1>3. Len(us) = n
  <2>1. us \in [1..n -> Nat]
    BY <1>2 DEF Fresh
  <2>. HIDE DEF us
  <2>2. us \in Seq(Nat)
    BY <2>1
  <2>3. Len(us) \in Nat /\ 1..Len(us) = 1..n
    BY <2>1, <2>2, LenProperties
  <2>. QED  BY <2>3
<1>4. asked' \in 0..MaxUsers
  BY <1>1, <1>2, <1>3, BoundAssumption
<1>5. /\ Piece(MergeOps(us), MergeTypes, NewUsers(n))
      /\ ctl.state = "CREATED" /\ flow = "notify_refer" => SubscribesFirst(MergeOps(us))
  BY <1>2, MergePiece
<1>6. conf # "ENDED" /\ Akin(ctl, j) /\ j.refs = ctl.refs
  BY <1>1, <1>2, AkinJoined DEF Commanded
<1>. HIDE DEF us, j, c
<1>7. CASE ctl.state = "CREATED" /\ Becomes(World(c))
  <2>1. Settled(World(ctl)) /\ Fitting(World(ctl)) /\ World(ctl) \in WorldType
        /\ World(ctl).c = ctl /\ World(ctl).conf = conf /\ World(ctl).call = call
    BY CurrentWorld
  <2>2. ctl.queue = << >>
    BY <1>7, <2>1 DEF Fitting, QueueFits
  <2>3. ~HasPendingOperation(ctl)
    BY <2>2 DEF HasPendingOperation
  <2>4. /\ c \in ControllerType /\ SameTalk(ctl, c) /\ SameUsers(ctl, c) /\ SameEngine(ctl, c)
        /\ (c.delay <=> ctl.delay) /\ c.queue = ctl.queue /\ c.closed
    BY <1>2, <2>3, SendClosedFacts DEF c
  <2>5. World(c) \in WorldType /\ World(c).c = c /\ World(c).conf = conf /\ World(c).call = call
    BY <2>1, <2>4, WorldFields, WorldOf
  <2>6. SubFits(c, c.queue, conf)
    <3>1. SubFits(ctl, ctl.queue, conf)
      BY <2>1 DEF Fitting
    <3>. QED  BY <2>4, <3>1 DEF SubFits, Early, Untried, SameTalk, SameUsers, SameEngine
  <2>7. Fitting(World(c))
    <3>1. /\ QueueFits(ctl.queue, ctl.open, ctl.sub, conf, ctl.state)
          /\ LinksLive(ctl) /\ (ctl.twice => ctl.stale)
      BY <2>1 DEF Fitting
    <3>2. QueueFits(c.queue, c.open, c.sub, conf, c.state)
      <4>1. c.queue = << >> /\ c.sub = "none"
        BY <1>7, <2>2, <2>4, <3>1 DEF QueueFits, SameEngine
      <4>. QED  BY <4>1, EmptyFits
    <3>3. LinksLive(c) /\ (c.twice => c.stale)
      BY <2>4, <3>1 DEF SameTalk, SameUsers, LinksLive, Linked
    <3>. QED  BY <2>2, <2>4, <2>5, <2>6, <3>2, <3>3 DEF Fitting
  <2>8. Lawful(World(c))
    <3>1. c.queue = << >> => ~c.delay
      BY <2>1, <2>2, <2>4 DEF Settled
    <3>. QED  BY <2>4, <2>5, <2>7, <3>1 DEF Lawful, Settled
  <2>9. Unasked(World(c).c, asked')
    <3>1. \A u \in Users : Untouched(ctl, u) => Untouched(c, u)
      BY <2>4 DEF Untouched, SameUsers
    <3>. QED  BY <1>1, <1>2, <1>3, <2>5, <3>1 DEF IInv, Unasked, Users
  <2>. QED  BY <1>1, <1>4, <1>7, <2>8, <2>9, CommandKeeps
<1>8. CASE Becomes(y)
  <2>1. "MERGING" \in States \ {"CREATED", "IDLE"}
    BY DEF States
  <2>2. /\ MergeTypes \cap Closing = {}
        /\ "CHECK_CONNECTED" \in MergeTypes => flow = "notify_refer"
        /\ {"SUBSCRIBE", "CREATE_CONFERENCE_CALL"} \cap MergeTypes # {} => ctl.state = "CREATED"
    BY DEF MergeTypes, InviteTypes, Checks, Closing
  <2>3. /\ Takes("MERGING", MergeOps(us), NewUsers(n))
        /\ \A u \in NewUsers(n) : u <= asked'
    <3>1. \A u \in NewUsers(n) : u \in Users /\ u > asked /\ u <= asked'
      BY <1>1, <1>2, <1>3, BoundAssumption DEF NewUsers, Users
    <3>2. \A u \in NewUsers(n) : ctl.refs[u]["invite"] = "none"
      BY <3>1 DEF IInv, Unasked, Untouched
    <3>. QED  BY <1>5, <3>1, <3>2 DEF Takes
  <2>4. asked' \in Nat /\ asked <= asked'
    BY <1>1, <1>2, <1>3
  <2>5. Lawful(y) /\ Unasked(y.c, asked')
    <3>. HIDE DEF y
    <3>1. Lawful(Put(World(Opened(j, "MERGING")), MergeOps(us)))
          /\ Unasked(Put(World(Opened(j, "MERGING")), MergeOps(us)).c, asked')
      BY <1>1, <1>2, <1>5, <1>6, <2>1, <2>2, <2>3, <2>4, CommandWorks
    <3>. QED  BY <3>1 DEF y
  <2>. QED  BY <1>1, <1>4, <1>8, <2>5, CommandKeeps
<1>. QED  BY <1>1, <1>7, <1>8

\* The UI has a user join.
LEMMA JoinKeeps ==
    ASSUME IInv, asked + 1 <= MaxUsers, ProcessJoin(asked + 1)
    PROVE  IInv' /\ AnswersOwn
<1>. DEFINE u == asked + 1
            j == Joined(ctl, {u})
            ops == <<Op("REFER_INVITE", u)>>
            y == Put(World(Opened(j, "JOINING")), ops)
<1>1. /\ Commanded /\ asked' = asked + 1
      /\ ctl.state # "CREATED"
      /\ Becomes(IF ~IsReadyToPerformCmd THEN World(NotifyUsersInfo(j)) ELSE y)
  BY DEF ProcessJoin, Opened
<1>2. ctl \in ControllerType /\ asked \in Nat
  BY CurrentWorld, BoundAssumption DEF IInv, TypeOK
<1>3. asked' \in 0..MaxUsers /\ u \in Users /\ u > asked /\ u <= asked' /\ asked <= asked'
  BY <1>1, <1>2, BoundAssumption DEF Users
<1>. HIDE DEF u
<1>4. Akin(ctl, j) /\ j \in ControllerType /\ j.refs = ctl.refs
  BY <1>2, AkinJoined DEF Akin
<1>. HIDE DEF j
<1>5. Lawful(World(NotifyUsersInfo(j))) /\ Unasked(World(NotifyUsersInfo(j)).c, asked')
  <2>1. Akin(ctl, NotifyUsersInfo(j)) /\ NotifyUsersInfo(j).refs = ctl.refs
    BY <1>4, AkinUsers, AkinTransitive
  <2>2. Outcome(World(NotifyUsersInfo(j)))
    BY <2>1, QuietNow, QuietOutcome
  <2>. QED  BY <1>2, <1>3, <2>2 DEF Outcome, Unasked, Users
<1>6. ASSUME IsReadyToPerformCmd
      PROVE  Lawful(y) /\ Unasked(y.c, asked')
  <2>1. "JOINING" \in States \ {"CREATED", "IDLE"}
    BY DEF States
  <2>2. "REFER_INVITE" \in Immediate \cup Lasting /\ u \in Users \cup {NoUser}
    BY <1>3 DEF Lasting
  <2>3. Piece(ops, {"REFER_INVITE"}, {u})
    BY <1>3, <2>2, PieceOne
  <2>4. {"REFER_INVITE"} \cap Closing = {} /\ conf # "ENDED"
    BY <1>1 DEF Closing, Commanded
  <2>5. Takes("JOINING", ops, {u})
    BY <1>1, <1>3 DEF Takes, IInv, Unasked, Untouched
  <2>. HIDE DEF ops
  <2>6. "CHECK_CONNECTED" \notin {"REFER_INVITE"} /\ "TERMINATE_1TO1_CALL" \notin {"REFER_INVITE"}
        /\ {"SUBSCRIBE", "CREATE_CONFERENCE_CALL"} \cap {"REFER_INVITE"} = {}
    OBVIOUS
  <2>7. asked' \in Nat /\ \A v \in {u} : v <= asked'
    BY <1>1, <1>2, <1>3
  <2>8. Lawful(Put(World(Opened(j, "JOINING")), ops))
        /\ Unasked(Put(World(Opened(j, "JOINING")), ops).c, asked')
    <3>. HIDE DEF y
    <3>. QED  BY <1>2, <1>3, <1>4, <1>6, <2>1, <2>3, <2>4, <2>5, <2>6, <2>7, CommandWorks
  <2>. QED  BY <2>8
<1>. QED  BY <1>1, <1>3, <1>5, <1>6, CommandKeeps

\* The UI drops a participant.
LEMMA DropKeeps ==
    ASSUME IInv, NEW u \in Users, ProcessDrop(u)
    PROVE  IInv' /\ AnswersOwn
<1>. DEFINE ops == <<Op("REFER_BYE", u), Op("NOTIFY_RESULT_TO_UI", NoUser)>>
            T == {"REFER_BYE", "NOTIFY_RESULT_TO_UI"}
            y == Put(World(Opened(ctl, "DROPPING")), ops)
<1>1. /\ Commanded /\ asked' = asked /\ ctl.state # "CREATED"
      /\ \/ Becomes(World(NotifyUsersInfo(ctl)))
         \/ IsReadyToPerformCmd /\ Becomes(y)
  BY DEF ProcessDrop, Opened
<1>2. ctl \in ControllerType /\ asked' \in 0..MaxUsers /\ asked \in 0..MaxUsers
  BY <1>1, CurrentWorld DEF IInv, TypeOK
<1>3. Lawful(World(NotifyUsersInfo(ctl))) /\ Unasked(World(NotifyUsersInfo(ctl)).c, asked')
  <2>1. Akin(ctl, NotifyUsersInfo(ctl)) /\ NotifyUsersInfo(ctl).refs = ctl.refs
    BY <1>2, AkinUsers
  <2>. QED  BY <1>1, <2>1, QuietNow, QuietOutcome DEF Outcome
<1>4. ASSUME IsReadyToPerformCmd
      PROVE  Lawful(y) /\ Unasked(y.c, asked')
  <2>1. "DROPPING" \in States \ {"CREATED", "IDLE"}
    BY DEF States
  <2>2. Piece(ops, T, {})
    <3>1. "REFER_BYE" \in OfUser \ {"TERMINATE_1TO1_CALL"}
      BY DEF OfUser
    <3>2. "NOTIFY_RESULT_TO_UI" \in {"TERMINATE_1TO1_CALL", "NOTIFY_RESULT_TO_UI"}
      OBVIOUS
    <3>3. NoUser \in Users \cup {NoUser}
      OBVIOUS
    <3>4. Piece(ops, T, {u})
      BY <3>1, <3>2, <3>3, PieceTwo
    <3>. QED  BY <3>4 DEF Piece
  <2>3. T \cap Closing = {} /\ conf # "ENDED" /\ Akin(ctl, ctl)
    BY <1>1, <1>2, AkinSelf DEF Closing, Commanded
  <2>4. "CHECK_CONNECTED" \notin T /\ {"SUBSCRIBE", "CREATE_CONFERENCE_CALL"} \cap T = {}
    OBVIOUS
  <2>5. Takes("DROPPING", ops, {})
    BY <1>1 DEF Takes
  <2>6. asked' \in Nat /\ asked \in Nat /\ asked <= asked'
    BY <1>1, <1>2, BoundAssumption
  <2>. HIDE DEF ops, T
  <2>7. Lawful(Put(World(Opened(ctl, "DROPPING")), ops))
        /\ Unasked(Put(World(Opened(ctl, "DROPPING")), ops).c, asked')
    <3>. HIDE DEF y
    <3>. QED  BY <1>2, <1>4, <2>1, <2>2, <2>3, <2>4, <2>5, <2>6, CommandWorks
  <2>. QED  BY <2>7
<1>. QED  BY <1>1, <1>2, <1>3, <1>4, CommandKeeps

-----------------------------------------------------------------------------
(***************************************************************************)
(* The timers.                                                              *)
(***************************************************************************)
UndelayedFront(q) == [q EXCEPT ![1].delayed = FALSE]

\* The operation in front is delayed no more.
LEMMA UndelayedFacts ==
    ASSUME NEW q \in Seq(Operation), q # << >>, Ordered(q)
    PROVE  LET p == UndelayedFront(q)
           IN  /\ p \in Seq(Operation) /\ p # << >> /\ Ordered(p)
               /\ Head(p).type = Head(q).type
               /\ Tail(p) = Tail(q) /\ DOMAIN p = DOMAIN q
               /\ \A i \in DOMAIN q : p[i].type = q[i].type /\ p[i].user = q[i].user
               /\ \A T : (Has(p, T) <=> Has(q, T)) /\ (Has(Tail(p), T) <=> Has(Tail(q), T))
<1>. DEFINE p == UndelayedFront(q)
            n == Len(q)
            e == [q[1] EXCEPT !.delayed = FALSE]
<1>1. n \in Nat /\ DOMAIN q = 1..n /\ n # 0 /\ 1 \in 1..n /\ \A i \in 1..n : q[i] \in Operation
  BY QueueFacts
<1>2. /\ DOMAIN p = 1..n
      /\ \A i \in 1..n : p[i] = IF i = 1 THEN e ELSE q[i]
  BY <1>1 DEF UndelayedFront
<1>0. e \in Operation /\ e.type = q[1].type /\ e.user = q[1].user /\ ~e.delayed
  <2>1. q[1] \in Operation
    BY <1>1
  <2>. QED  BY <2>1 DEF Operation
<1>. HIDE DEF p, e
<1>3. \A i \in 1..n : /\ p[i] \in Operation /\ p[i].type = q[i].type /\ p[i].user = q[i].user
                      /\ p[i].delayed => q[i].delayed
  BY <1>0, <1>1, <1>2
<1>4. p \in Seq(Operation) /\ p # << >> /\ Len(p) = n
  <2>1. p = [i \in 1..n |-> p[i]]
    BY <1>1, <1>2 DEF UndelayedFront, p, e
  <2>2. p \in [1..n -> Operation]
    BY <1>3, <2>1
  <2>3. p \in Seq(Operation)
    BY <1>1, <2>2
  <2>4. Len(p) \in Nat /\ DOMAIN p = 1..Len(p)
    BY <2>3, LenProperties
  <2>5. Len(p) = n
    BY <1>1, <1>2, <2>4
  <2>. QED  BY <1>1, <2>3, <2>5, QueueFacts
<1>5. Ordered(p)
  <2>1. WellMade(p)
    BY <1>1, <1>2, <1>3 DEF Ordered, WellMade
  <2>2. InTurn(p)
    <3>1. \A i, j \in 1..n : Turn(q[i], q[j]) => Turn(p[i], p[j])
      BY <1>3 DEF Turn
    <3>. QED  BY <1>1, <1>2, <3>1 DEF Ordered, InTurn
  <2>. QED  BY <2>1, <2>2 DEF Ordered
<1>6. Head(p).type = Head(q).type
  BY <1>1, <1>3, <1>4, QueueFacts
<1>7. ASSUME NEW T
      PROVE  (Has(p, T) <=> Has(q, T)) /\ (Has(Tail(p), T) <=> Has(Tail(q), T))
  <2>1. Has(p, T) <=> Has(q, T)
    BY <1>1, <1>2, <1>3 DEF Has
  <2>2. /\ Tail(p) \in Seq(Operation) /\ Len(Tail(p)) = n - 1
        /\ Tail(q) \in Seq(Operation) /\ Len(Tail(q)) = n - 1
        /\ \A i \in 1..(n - 1) : Tail(p)[i] = p[i + 1] /\ Tail(q)[i] = q[i + 1]
    BY <1>4, QueueFacts
  <2>3. \A i \in 1..(n - 1) : Tail(p)[i].type = Tail(q)[i].type
    <3>1. \A i \in 1..(n - 1) : i + 1 \in 1..n
      BY <1>1
    <3>. QED  BY <1>3, <2>2, <3>1
  <2>4. DOMAIN Tail(p) = 1..(n - 1) /\ DOMAIN Tail(q) = 1..(n - 1)
    BY <2>2, QueueFacts
  <2>. QED  BY <2>1, <2>3, <2>4 DEF Has
<1>8. Tail(p) = Tail(q)
  <2>1. /\ Tail(p) \in Seq(Operation) /\ Len(Tail(p)) = n - 1 /\ DOMAIN Tail(p) = 1..(n - 1)
        /\ Tail(q) \in Seq(Operation) /\ Len(Tail(q)) = n - 1 /\ DOMAIN Tail(q) = 1..(n - 1)
        /\ \A i \in 1..(n - 1) : Tail(p)[i] = p[i + 1] /\ Tail(q)[i] = q[i + 1]
    BY <1>4, QueueFacts
  <2>2. \A i \in 1..(n - 1) : i + 1 \in 1..n /\ i + 1 # 1
    BY <1>1
  <2>3. \A i \in 1..(n - 1) : Tail(p)[i] = Tail(q)[i]
    BY <1>2, <2>1, <2>2
  <2>. QED  BY <2>1, <2>3, SeqEqual
<1>. QED  BY <1>1, <1>2, <1>3, <1>4, <1>5, <1>6, <1>7, <1>8 DEF p

\* UNSUBSCRIBE is started, all that it needs being there, and nobody is asked in.
LEMMA UndelayedWorks ==
    ASSUME IInv, ctl.delay
    PROVE  LET x == World([ctl EXCEPT !.delay = FALSE, !.queue = UndelayedFront(ctl.queue)])
               y == DoNextOperation[x]
           IN  Quiet(y) /\ (y.c.sub = "none" => ctl.sub = "none")
<1>. DEFINE w == World(ctl)
            q == ctl.queue
            p == UndelayedFront(q)
            d == [ctl EXCEPT !.delay = FALSE, !.queue = p]
            x == World(d)
            y == DoNextOperation[x]
<1>1. /\ w \in WorldType /\ Fitting(w) /\ Waits(w)
      /\ w.c = ctl /\ w.conf = conf /\ w.call = call
      /\ ctl \in ControllerType /\ q \in Seq(Operation)
  BY CurrentWorld DEF IInv
<1>2. q # << >> /\ Head(q).delayed /\ Ordered(q)
  BY <1>1 DEF Waits, Fitting, QueueFits
<1>3. ctl.lost \/ ctl.sub \in {"SUBSCRIBING", "ACTIVE"}
  BY <1>1, <1>2 DEF Waits, UnderWayIn
<1>4. /\ p \in Seq(Operation) /\ p # << >> /\ Ordered(p)
      /\ Head(p).type = Head(q).type
      /\ Tail(p) = Tail(q) /\ DOMAIN p = DOMAIN q
      /\ \A i \in DOMAIN q : p[i].type = q[i].type /\ p[i].user = q[i].user
      /\ \A T : (Has(p, T) <=> Has(q, T)) /\ (Has(Tail(p), T) <=> Has(Tail(q), T))
  BY <1>1, <1>2, UndelayedFacts
<1>. HIDE DEF p
<1>5. Head(q).type = "UNSUBSCRIBE"
  BY <1>1, <1>2, TailOrdered
<1>6. /\ d \in ControllerType /\ d.queue = p /\ ~d.delay
      /\ SameTalk(ctl, d) /\ SameUsers(ctl, d) /\ SameSub(ctl, d)
  BY <1>1, <1>4 DEF ControllerType, Operation, SameTalk, SameUsers, SameSub
<1>. HIDE DEF w, d
<1>7. x \in WorldType /\ x.c = d /\ x.conf = conf /\ x.call = call
  BY <1>1, <1>6, WorldFields, WorldOf DEF w
<1>. HIDE DEF x
<1>8. QueueFits(q, ctl.open, ctl.sub, conf, ctl.state) /\ SubFits(ctl, q, conf)
  BY <1>1 DEF Fitting
<1>9. QueueFits(p, ctl.open, ctl.sub, conf, ctl.state)
  BY <1>2, <1>4, <1>8 DEF QueueFits
<1>10. /\ ~Has(p, {"CREATE_CONFERENCE_CALL"}) /\ ~StartsWithTerm(p)
       /\ Has(p, {"SUBSCRIBE"}) => ctl.sub = "none"
  <2>1. ~Has(Tail(p), {"CREATE_CONFERENCE_CALL"})
    BY <1>4, TailOrdered
  <2>2. Head(p).type \notin {"CREATE_CONFERENCE_CALL"} /\ Head(p).type \notin {"SUBSCRIBE"}
    BY <1>4, <1>5
  <2>3. /\ ~Has(p, {"CREATE_CONFERENCE_CALL"})
        /\ Has(p, {"SUBSCRIBE"}) => Has(Tail(p), {"SUBSCRIBE"})
    BY <1>4, <2>1, <2>2, TailHas
  <2>4. ~StartsWithTerm(p)
    BY <1>4, <1>5, QueueFacts DEF StartsWithTerm
  <2>. QED  BY <1>4, <1>9, <2>3, <2>4 DEF QueueFits
<1>11. d.sub = ctl.sub /\ d.refs = ctl.refs /\ (d.lost <=> ctl.lost)
  BY <1>6 DEF SameSub, SameUsers
<1>12. Coming(d, p)
  <2>1. Coming(ctl, Tail(q))
    BY <1>1, <1>2 DEF Fitting
  <2>2. ASSUME NEW i \in DOMAIN p, p[i].type = "REFER_INVITE"
        PROVE  d.refs[p[i].user]["invite"] = "none"
    <3>1. /\ Len(p) \in Nat /\ DOMAIN p = 1..Len(p) /\ Head(p) = p[1] /\ Tail(p) \in Seq(Operation)
          /\ Len(Tail(p)) = Len(p) - 1 /\ \A k \in 1..Len(Tail(p)) : Tail(p)[k] = p[k + 1]
      BY <1>4, QueueFacts
    <3>2. i # 1
      BY <1>4, <1>5, <2>2, <3>1
    <3>3. i - 1 \in 1..Len(Tail(p)) /\ DOMAIN Tail(p) = 1..Len(Tail(p))
      BY <3>1, <3>2, QueueFacts
    <3>4. Tail(p)[i - 1] = p[i]
      BY <3>1, <3>3
    <3>. QED  BY <1>4, <1>11, <2>1, <2>2, <3>3, <3>4 DEF Coming
  <2>. QED  BY <1>3, <1>11, <2>2 DEF Coming
<1>13. Coming(d, Tail(p))
  BY <1>1, <1>2, <1>4, <1>11 DEF Fitting, Coming
<1>14. SubFits(d, p, conf)
  <2>1. Untried(ctl, q) => Untried(d, p)
    BY <1>4, <1>6 DEF Untried, SameTalk, SameUsers
  <2>. QED  BY <1>4, <1>6, <1>8, <2>1 DEF SubFits, Early, SameSub
<1>15. Fitting(x)
  <2>1. QueueFits(d.queue, d.open, d.sub, x.conf, d.state)
    BY <1>6, <1>7, <1>9 DEF QueueFits, SameTalk, SameSub
  <2>2. LinksLive(d) /\ (d.twice => d.stale)
    BY <1>1, <1>6 DEF Fitting, SameTalk, SameUsers, LinksLive, Linked
  <2>. QED  BY <1>6, <1>7, <1>13, <1>14, <2>1, <2>2 DEF Fitting
<1>16. Ready(x)
  BY <1>6, <1>7, <1>10, <1>11, <1>12, <1>15 DEF Ready
<1>17. Worked(x, y)
  BY <1>7, <1>16, OperationsWorkedOff
<1>. HIDE DEF y
<1>18. Unasked(y.c, asked)
  <2>1. \A u \in Users : Untouched(ctl, u) => Untouched(x.c, u)
    BY <1>4, <1>6, <1>7, <1>11 DEF Untouched
  <2>. QED  BY <1>17, <2>1 DEF IInv, Unasked, Worked, Effect
<1>19. Quiet(y)
  BY <1>6, <1>7, <1>10, <1>17, <1>18 DEF Worked, Settled, Quiet, Calm
<1>20. y.c.sub = "none" => ctl.sub = "none"
  BY <1>7, <1>11, <1>17 DEF Worked, Effect
<1>. QED  BY <1>19, <1>20 DEF y, x, d, p

\* The timer of a delayed operation expires, and UNSUBSCRIBE is sent or cannot be.
LEMMA DelayedTimerKeeps ==
    ASSUME IInv, DelayedOperationTimer
    PROVE  IInv' /\ AnswersOwn
<1>. DEFINE x == DoNextOperation[World([ctl EXCEPT !.delay = FALSE,
                                                    !.queue = UndelayedFront(ctl.queue)])]
            d == EngineSet(x.c, x.c.sub, ctl.eng, x.c.notified, TRUE)
            y == With(x, d)
<1>1. /\ ctl.delay
      /\ Event(x) \/ Event([x EXCEPT !.c.eng = ctl.eng, !.c.lost = TRUE])
  BY DEF DelayedOperationTimer, UndelayedFront
<1>2. Quiet(x) /\ (x.c.sub = "none" => ctl.sub = "none")
  BY <1>1, UndelayedWorks
<1>3. /\ x \in WorldType /\ Settled(x) /\ Fitting(x) /\ x.call = call /\ Unasked(x.c, asked)
      /\ x.c \in ControllerType
  BY <1>2, WorldFields DEF Quiet, Calm
<1>. HIDE DEF x
<1>4. [x EXCEPT !.c.eng = ctl.eng, !.c.lost = TRUE] = y
  <2>1. [x.c EXCEPT !.eng = ctl.eng, !.lost = TRUE] = d
    BY <1>3, EngineForms
  <2>. HIDE DEF d
  <2>2. [x EXCEPT !.c.eng = ctl.eng, !.c.lost = TRUE]
           = [x EXCEPT !.c = [x.c EXCEPT !.eng = ctl.eng, !.lost = TRUE]]
    BY <1>3 DEF WorldType
  <2>. QED  BY <2>1, <2>2 DEF With
<1>5. /\ d \in ControllerType /\ d.sub = x.c.sub /\ d.eng = ctl.eng /\ d.lost
      /\ d.closed <=> x.c.closed
      /\ SameQueue(x.c, d) /\ SameTalk(x.c, d) /\ SameUsers(x.c, d)
  <2>1. x.c.sub \in SubStates /\ ctl.eng \in EngineStates /\ x.c.notified \in BOOLEAN
    BY <1>3, CurrentWorld DEF ControllerType, SubStates, EngineStates
  <2>2. d \in ControllerType
    BY <1>3, <2>1 DEF EngineSet, ControllerType, SubStates, EngineStates
  <2>3. d.sub = x.c.sub /\ d.eng = ctl.eng /\ d.lost /\ (d.closed <=> x.c.closed)
    BY <1>3 DEF EngineSet, ControllerType
  <2>4. SameQueue(x.c, d) /\ SameTalk(x.c, d) /\ SameUsers(x.c, d)
    BY <1>3 DEF EngineSet, ControllerType, SameQueue, SameTalk, SameUsers
  <2>. HIDE DEF d
  <2>. QED  BY <2>2, <2>3, <2>4
<1>. HIDE DEF d
<1>6. y \in WorldType /\ y.c = d /\ y.conf = x.conf /\ y.call = call
  BY <1>3, <1>5, WorldFields
<1>. HIDE DEF y
<1>7. d.queue = x.c.queue /\ (d.delay <=> x.c.delay) /\ d.refs = x.c.refs
  BY <1>5 DEF SameQueue, SameUsers
<1>8. QueueFits(d.queue, d.open, d.sub, y.conf, d.state)
  BY <1>3, <1>5, <1>6, <1>7 DEF Fitting, QueueFits, SameTalk
<1>9. SubFits(d, d.queue, y.conf)
  <2>1. ctl.sub = "none" => ctl.eng = "none"
    BY CurrentWorld DEF Fitting, SubFits
  <2>. QED  BY <1>2, <1>5, <2>1 DEF SubFits, Early
<1>10. Fitting(y)
  BY <1>3, <1>5, <1>6, <1>7, <1>8, <1>9
     DEF Fitting, Coming, SameTalk, SameUsers, LinksLive, Linked
<1>11. Waits(x) => Waits(y)
  BY <1>3, <1>5, <1>6, <1>7 DEF Waits, UnderWayIn
<1>12. Settled(y)
  BY <1>3, <1>5, <1>6, <1>7, <1>10, <1>11 DEF Settled
<1>13. Unasked(d, asked)
  BY <1>3, <1>7 DEF Unasked, Untouched
<1>14. Quiet(y)
  BY <1>6, <1>10, <1>12, <1>13 DEF Quiet, Calm
<1>. QED  BY <1>1, <1>2, <1>4, <1>14, QuietOutcome, EventKeepsInvariant

\* The final sipfrag has not come in time.
LEMMA SipfragTimerKeeps ==
    ASSUME IInv, FinalSipfragWaitTimer
    PROVE  IInv' /\ AnswersOwn
<1>. DEFINE d == [ctl EXCEPT !.wait = FALSE]
<1>1. PICK x \in Recover(World(d)) : Event(x)
  BY DEF FinalSipfragWaitTimer
<1>2. Akin(ctl, d) /\ d.refs = ctl.refs
  BY CurrentWorld, TimerFacts, AkinSame DEF SameAll, SameUsers
<1>. HIDE DEF d
<1>3. Outcome(x)
  BY <1>1, <1>2, QuietNow, RecoverOutcome
<1>. QED  BY <1>1, <1>3, EventKeepsInvariant

-----------------------------------------------------------------------------
(***************************************************************************)
(* The theorems.                                                            *)
(***************************************************************************)
\* The invariant holds before the first command.
LEMMA InitFacts ==
    ASSUME Init
    PROVE  IInv
<1>. DEFINE ps == [u \in Users |-> Absent]
            rs == [u \in Users |-> NoReferences]
<1>1. ps \in [Users -> Participant] /\ rs \in [Users -> Lives]
  BY AbsentType DEF NoReferences, Lives
<1>2. \A u \in Users : ~ps[u].in
  BY AbsentType
<1>3. << >> \in Seq(Operation)
  BY EmptySeq
<1>4. ctl = [state |-> "CREATED", queue |-> << >>, delay |-> FALSE, wait |-> FALSE,
             part |-> ps, refs |-> rs, sub |-> "none", eng |-> "none", notified |-> FALSE,
             closed |-> FALSE, open |-> FALSE, twice |-> FALSE, stale |-> FALSE,
             lost |-> FALSE]
  BY Zenon DEF Init, NewController
<1>4a. \A u \in Users, r \in References : rs[u][r] = "none"
  BY DEF NoReferences
<1>. HIDE DEF ps, rs
<1>5. ctl \in ControllerType
  BY <1>1, <1>3, <1>4 DEF ControllerType, Participant, Lives, Operation, States, PendingRequests
<1>6. LinksLive(ctl)
  BY <1>2, <1>4 DEF LinksLive, Linked
<1>7. /\ flow \in Flows /\ conf = "IDLE" /\ conf \in ConferenceStates
      /\ call \in [Users -> BOOLEAN] /\ commands \in 0..MaxCommands /\ asked \in 0..MaxUsers
  BY BoundAssumption DEF Init, ConferenceStates
<1>8. TypeOK
  BY <1>5, <1>6, <1>7 DEF TypeOK, LinksLive
<1>9. World(ctl).c = ctl /\ World(ctl).conf = conf
  BY DEF World
<1>10. /\ ctl.queue = << >> /\ ~ctl.delay /\ ~ctl.twice /\ ctl.sub = "none"
       /\ ctl.eng = "none" /\ ctl.state = "CREATED" /\ ctl.refs = rs
  BY <1>4
<1>11. QueueFits(ctl.queue, ctl.open, ctl.sub, conf, ctl.state)
  BY <1>10, EmptyFits
<1>12. DOMAIN << >> = {} /\ "invite" \in References
  BY DEF References
<1>13. SubFits(ctl, ctl.queue, conf) /\ \A u \in Users : Untouched(ctl, u)
  BY <1>4a, <1>10, <1>12 DEF SubFits, Untried, Untouched
<1>14. Fitting(World(ctl)) /\ Waits(World(ctl))
  BY <1>6, <1>9, <1>10, <1>11, <1>13 DEF Fitting, Waits
<1>. QED  BY <1>8, <1>13, <1>14 DEF IInv, Unasked

\* Every step keeps the invariant and ends no call but that of the REFER in front.
LEMMA NextKeeps ==
    ASSUME IInv, Next
    PROVE  IInv' /\ AnswersOwn
<1>0. \A n \in {1, 2} : asked + n <= MaxAsked[flow] => asked + n <= MaxUsers
  <2>1. /\ asked \in Nat /\ MaxUsers \in Nat
        /\ MaxAsked[flow] \in Nat /\ MaxAsked[flow] <= MaxUsers
    BY BoundAssumption DEF IInv, TypeOK
  <2>. QED  BY <2>1
<1>1. CASE asked + 1 <= MaxAsked[flow] /\ ProcessMerge(Fresh(1))
  BY <1>0, <1>1, MergeKeeps
<1>2. CASE asked + 1 <= MaxAsked[flow] /\ ProcessJoin(asked + 1)
  BY <1>0, <1>2, JoinKeeps
<1>3. CASE asked + 2 <= MaxAsked[flow] /\ ProcessMerge(Fresh(2))
  BY <1>0, <1>3, MergeKeeps
<1>4. CASE \E u \in Users : ProcessDrop(u)
  BY <1>4, DropKeeps
<1>5. CASE ConferenceEstablished
  BY <1>5, EstablishedKeeps
<1>6. CASE ConferenceTerminated
  BY <1>6, TerminatedKeeps
<1>7. CASE \E u \in Users : IndividualCallTerminated(u)
  BY <1>7, IndividualCallKeeps
<1>8. CASE \E u \in Users, r \in References : Reference(u, r)
  BY <1>8, ReferenceKeeps
<1>9. CASE Subscription
  BY <1>9, SubscriptionKeeps
<1>10. CASE DelayedOperationTimer
  BY <1>10, DelayedTimerKeeps
<1>11. CASE FinalSipfragWaitTimer
  BY <1>11, SipfragTimerKeeps
<1>. QED  BY <1>1, <1>2, <1>3, <1>4, <1>5, <1>6, <1>7, <1>8, <1>9, <1>10, <1>11 DEF Next

\* A step of the environment alone changes nothing here.
LEMMA StutterKeeps ==
    ASSUME IInv, UNCHANGED vars
    PROVE  IInv'
<1>1. /\ ctl' = ctl /\ conf' = conf /\ call' = call /\ flow' = flow
      /\ commands' = commands /\ asked' = asked
  BY DEF vars
<1>2. TypeOK' /\ Unasked(ctl, asked)'
  BY <1>1 DEF IInv, TypeOK, Unasked, Untouched
<1>3. World(ctl)' = World(ctl)
  BY <1>1 DEF World
<1>4. Fitting(World(ctl))'
  BY <1>1, <1>3 DEF IInv, Fitting, QueueFits, SubFits, Early, Untried, Coming
<1>5. Waits(World(ctl))'
  BY <1>1, <1>3 DEF IInv, Waits, UnderWayIn
<1>. QED  BY <1>2, <1>4, <1>5 DEF IInv

\* The queue fits and what it waits for is under way, whatever the order of commands,
\* answers to REFERs, NOTIFYs, ended calls and timers (IInv is inductive).
THEOREM Invariance == Spec => []IInv
<1>1. Init => IInv
  BY InitFacts
<1>2. IInv /\ [Next]_vars => IInv'
  BY NextKeeps, StutterKeeps
<1>. QED  BY <1>1, <1>2, PTL DEF Spec

\* Every field of the controller keeps its type, and no participant is linked to a
\* reference that has been deleted: RemoveReference unlinks before it deletes, and
\* InviteParticipants lets go of the REFERs for BYE that it drops.
THEOREM TypeCorrect == Spec => []TypeOK
<1>1. IInv => TypeOK
  BY DEF IInv
<1>. QED  BY <1>1, Invariance, PTL

\* The operation in front of the ConferenceOperationQueue never waits for something
\* that is not there: DoNextOperation started it and what completes it (a call being set
\* up, a REFER that lives, an answer pending, a subscription that notifies, the timer of
\* GetNextOperation) is under way, but for the losses that Lost names one by one.
THEOREM QueueNeverStalls == Spec => []FrontUnderWay
<1>1. ASSUME IInv
      PROVE  FrontUnderWay
  <2>1. /\ Waits(World(ctl)) /\ World(ctl).c = ctl /\ World(ctl).conf = conf
        /\ ctl \in ControllerType /\ ctl.queue \in Seq(Operation)
    BY <1>1, CurrentWorld DEF IInv
  <2>2. /\ SubFits(ctl, ctl.queue, conf)
        /\ Has(ctl.queue, {"CHECK_CONNECTED"}) => flow = "notify_refer"
    BY <1>1, CurrentWorld DEF Fitting, QueueFits
  <2>3. ctl.delay => ctl.queue # << >> /\ Head(ctl.queue).delayed
    BY <2>1 DEF Waits
  <2>4. ASSUME ctl.queue # << >>
        PROVE  LET o == Head(ctl.queue)
               IN  /\ ctl.delay <=> o.delayed
                   /\ o.delayed \/ UnderWay(o) \/ Lost(o)
    <3>. DEFINE o == Head(ctl.queue)
    <3>1. /\ UnderWayIn(World(ctl), o) /\ o \in Operation
          /\ o = ctl.queue[1] /\ 1 \in DOMAIN ctl.queue /\ DOMAIN ctl.queue \subseteq Nat \ {0}
      BY <2>1, <2>4, QueueFacts DEF Waits
    <3>2. ctl.delay <=> o.delayed
      BY <2>1, <2>3, <3>1 DEF UnderWayIn
    <3>. HIDE DEF o
    <3>3. ASSUME ~o.delayed
          PROVE  UnderWay(o) \/ Lost(o)
      <4>0. o.type \in Lasting \ {"DESTROY_CONTROLLER"}
        BY <3>1, <3>3 DEF UnderWayIn
      <4>1. CASE o.type = "CREATE_CONFERENCE_CALL"
        BY <2>1, <3>1, <3>3, <4>1 DEF UnderWayIn, UnderWay
      <4>2. CASE o.type = "SUBSCRIBE"
        <5>1. /\ ctl.sub # "none"
              /\ \/ ctl.lost \/ ctl.sub = "SUBSCRIBING"
                 \/ flow = "notify_refer" /\ ctl.sub = "ACTIVE"
          BY <2>1, <3>1, <3>3, <4>2 DEF UnderWayIn
        <5>2. ~ctl.lost => /\ ctl.sub = "SUBSCRIBING" => ctl.eng \in {"CREATE", "REFRESH"}
                           /\ ctl.sub = "ACTIVE" => ctl.eng = "ACTIVE"
          BY <2>2 DEF SubFits
        <5>. QED  BY <4>2, <5>1, <5>2 DEF UnderWay, Lost
      <4>3. CASE o.type = "UNSUBSCRIBE"
        BY <2>1, <3>1, <3>3, <4>3 DEF UnderWayIn, UnderWay, Lost
      <4>4. CASE o.type = "CHECK_CONNECTED"
        <5>1. Has(ctl.queue, {"CHECK_CONNECTED"})
          BY <3>1, <4>4 DEF Has
        <5>2. ASSUME ~ctl.lost
              PROVE  ctl.eng \in {"CREATE", "REFRESH", "ACTIVE"}
          <6>1. ctl.sub # "none"
            <7>1. SUFFICES ASSUME ctl.sub = "none" PROVE FALSE
              OBVIOUS
            <7>2. Untried(ctl, ctl.queue)
              BY <2>2, <5>1, <5>2, <7>1 DEF SubFits, Early
            <7>3. \E k \in DOMAIN ctl.queue : k < 1
              BY <3>1, <4>4, <7>2 DEF Untried, Needing
            <7>. QED  BY <3>1, <7>3
          <6>2. ctl.sub \in {"SUBSCRIBING", "ACTIVE", "UNSUBSCRIBING", "IDLE"}
            BY <2>1, <6>1 DEF ControllerType
          <6>. QED  BY <2>2, <5>1, <5>2, <6>2 DEF SubFits
        <5>. QED  BY <4>4, <5>2 DEF UnderWay, Lost
      <4>5. CASE o.type = "REFER_INVITE"
        BY <2>1, <3>1, <3>3, <4>5 DEF UnderWayIn, UnderWay, Lost
      <4>6. CASE o.type = "REFER_BYE"
        BY <2>1, <3>1, <3>3, <4>6 DEF UnderWayIn, UnderWay, Lost
      <4>. QED  BY <4>0, <4>1, <4>2, <4>3, <4>4, <4>5, <4>6 DEF Lasting
    <3>. QED  BY <3>2, <3>3 DEF o
  <2>. QED  BY <2>3, <2>4 DEF FrontUnderWay
<1>. QED  BY <1>1, Invariance, PTL

\* The UI hears one result of each command (NotifyCmdResult, MergeFailed of Recover,
\* OnReferenceStartFailed), unless an event of a reference reached an operation that
\* waits for another one.
THEOREM OneResult == Spec => []AnsweredOnce
<1>1. IInv => AnsweredOnce
  BY CurrentWorld DEF IInv, Fitting, AnsweredOnce
<1>. QED  BY <1>1, Invariance, PTL

\* TerminateIndividualCall ends the call with a member only when this member's
\* REFER was in front and has been decided, not on the late answer of another.
THEOREM OnlyOwnAnswer == Spec => OwnAnswer
<1>1. IInv /\ Next => AnswersOwn
  BY NextKeeps
<1>2. IInv /\ [Next]_vars => [AnswersOwn]_vars
  BY <1>1
<1>. QED  BY <1>2, Invariance, PTL DEF Spec, OwnAnswer, AnswersOwn
=============================================================================
