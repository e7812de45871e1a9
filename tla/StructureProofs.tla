--------------------------- MODULE StructureProofs ---------------------------
(***************************************************************************)
(* What the graph of nested groups and the trees of units guarantee for    *)
(* any groups, units, people and requests.  The walks of the code are      *)
(* recursive; what they reach is characterised once, as the least set      *)
(* closed under the edges, and every argument after that is about closed   *)
(* sets.  The paths of units are compared with the parents they were made  *)
(* from, write by write.                                                   *)
(***************************************************************************)
EXTENDS GroupGraph, OrgTree, FiniteSetTheorems, SequenceTheorems, WellFoundedInduction, TLAPS

-----------------------------------------------------------------------------
(* Walks.                                                                  *)

(* What holds at 0 and passes from each number to the next holds up to n.  *)
LEMMA UpTo ==
    ASSUME NEW n \in Nat, NEW T,
           0 \in T,
           \A k \in 0..n : k # n /\ k \in T => k + 1 \in T
    PROVE  0..n \subseteq T
<1> DEFINE B == {k \in 0..n : k \notin T}
<1> SUFFICES ASSUME B # {} PROVE FALSE
  OBVIOUS
<1>1. B \subseteq Nat
  OBVIOUS
<1>2. PICK x \in B : \A y \in B : <<y, x>> \notin OpToRel(<, Nat)
  BY <1>1, WFMin, NatLessThanWellFounded
<1>3. x # 0 /\ x - 1 \in 0..n /\ x - 1 < x /\ x - 1 # n
  OBVIOUS
<1>4. <<x - 1, x>> \in OpToRel(<, Nat)
  BY <1>1, <1>3 DEF OpToRel
<1>5. x - 1 \in T
  BY <1>2, <1>3, <1>4
<1>6. (x - 1) + 1 \in T
  BY <1>3, <1>5
<1>7. (x - 1) + 1 = x
  OBVIOUS
<1> QED BY <1>6, <1>7

(* One step along the edges among the members of U.                        *)
Beyond(U, A, edges) == {b \in U : \E a \in A : <<a, b>> \in edges}

Walks(U, W, n, S, edges) ==
    W = [k \in 0..n |-> IF k = 0 THEN S ELSE W[k - 1] \cup Beyond(U, W[k - 1], edges)]

Closed(U, T, edges) == Beyond(U, T, edges) \subseteq T

LEMMA WalksExist ==
    ASSUME NEW U, NEW n \in Nat, NEW S, NEW edges
    PROVE  \E W : Walks(U, W, n, S, edges)
<1> DEFINE T == {k \in 0..n : \E W : Walks(U, W, k, S, edges)}
<1>1. 0 \in T
  <2> DEFINE W == [k \in 0..0 |-> S]
  <2>1. Walks(U, W, 0, S, edges)
    BY DEF Walks
  <2> QED BY <2>1
<1>2. ASSUME NEW k \in 0..n, k # n, k \in T
      PROVE  k + 1 \in T
  <2>1. PICK W : Walks(U, W, k, S, edges)
    BY <1>2
  <2> DEFINE V == [i \in 0..(k + 1) |-> IF i = k + 1 THEN W[k] \cup Beyond(U, W[k], edges) ELSE W[i]]
  <2>2. \A i \in 0..k : W[i] = IF i = 0 THEN S ELSE W[i - 1] \cup Beyond(U, W[i - 1], edges)
    BY <2>1 DEF Walks
  <2>3. \A i \in 0..(k + 1) : V[i] = IF i = 0 THEN S ELSE V[i - 1] \cup Beyond(U, V[i - 1], edges)
    <3> TAKE i \in 0..(k + 1)
    <3>1. CASE i = k + 1
      <4>1. i # 0 /\ i - 1 = k /\ k \in 0..(k + 1) /\ k # k + 1
        BY <3>1
      <4>2. V[i] = W[k] \cup Beyond(U, W[k], edges) /\ V[k] = W[k]
        BY <3>1, <4>1
      <4> QED BY <4>1, <4>2
    <3>2. CASE i # k + 1
      <4>1. i \in 0..k
        BY <3>2
      <4>2. V[i] = W[i]
        BY <3>2
      <4>3. i # 0 => i - 1 \in 0..(k + 1) /\ i - 1 # k + 1 /\ V[i - 1] = W[i - 1]
        BY <4>1
      <4> QED BY <2>2, <4>1, <4>2, <4>3
    <3> QED BY <3>1, <3>2
  <2>4. Walks(U, V, k + 1, S, edges)
    BY <2>3 DEF Walks
  <2> QED BY <1>2, <2>4
<1>3. 0..n \subseteq T
  <2> HIDE DEF T
  <2> QED BY <1>1, <1>2, UpTo
<1> QED BY <1>3

LEMMA WalksUnfold ==
    ASSUME NEW U, NEW n \in Nat, NEW S, NEW edges, NEW W, Walks(U, W, n, S, edges)
    PROVE  /\ W[0] = S
           /\ \A k \in 0..n : k # n =>
                k + 1 \in 0..n /\ W[k + 1] = W[k] \cup Beyond(U, W[k], edges)
<1>1. \A k \in 0..n : W[k] = IF k = 0 THEN S ELSE W[k - 1] \cup Beyond(U, W[k - 1], edges)
  BY DEF Walks
<1>2. 0 \in 0..n
  OBVIOUS
<1>3. ASSUME NEW k \in 0..n, k # n
      PROVE  k + 1 \in 0..n /\ W[k + 1] = W[k] \cup Beyond(U, W[k], edges)
  <2>1. k + 1 \in 0..n /\ k + 1 # 0 /\ (k + 1) - 1 = k
    BY <1>3
  <2> QED BY <1>1, <2>1
<1> QED BY <1>1, <1>2, <1>3

LEMMA WalksStart ==
    ASSUME NEW U, NEW n \in Nat, NEW S, NEW edges, NEW W, Walks(U, W, n, S, edges)
    PROVE  S \subseteq W[n]
<1> DEFINE T == {k \in 0..n : S \subseteq W[k]}
<1>1. 0 \in T
  BY WalksUnfold
<1>2. ASSUME NEW k \in 0..n, k # n, k \in T
      PROVE  k + 1 \in T
  <2>1. k + 1 \in 0..n /\ W[k + 1] = W[k] \cup Beyond(U, W[k], edges)
    BY <1>2, WalksUnfold
  <2> QED BY <1>2, <2>1
<1>3. 0..n \subseteq T
  <2> HIDE DEF T
  <2> QED BY <1>1, <1>2, UpTo
<1> QED BY <1>3

LEMMA WalksStayInside ==
    ASSUME NEW U, NEW n \in Nat, NEW S, NEW edges, NEW W, Walks(U, W, n, S, edges),
           NEW C, S \subseteq C, Closed(U, C, edges)
    PROVE  W[n] \subseteq C
<1> DEFINE T == {k \in 0..n : W[k] \subseteq C}
<1>1. 0 \in T
  BY WalksUnfold
<1>2. ASSUME NEW k \in 0..n, k # n, k \in T
      PROVE  k + 1 \in T
  <2>1. k + 1 \in 0..n /\ W[k + 1] = W[k] \cup Beyond(U, W[k], edges)
    BY <1>2, WalksUnfold
  <2>2. Beyond(U, W[k], edges) \subseteq Beyond(U, C, edges)
    BY <1>2 DEF Beyond
  <2> QED BY <1>2, <2>1, <2>2 DEF Closed
<1>3. 0..n \subseteq T
  <2> HIDE DEF T
  <2> QED BY <1>1, <1>2, UpTo
<1> QED BY <1>3

(* A walk gains a member at every step until it is closed, so one of as    *)
(* many steps as U has members is closed.                                  *)
LEMMA WalksClose ==
    ASSUME NEW U, IsFiniteSet(U), NEW S \in SUBSET U, NEW edges,
           NEW W, Walks(U, W, Cardinality(U), S, edges)
    PROVE  W[Cardinality(U)] \subseteq U /\ Closed(U, W[Cardinality(U)], edges)
<1> DEFINE N == Cardinality(U)
           T == {k \in 0..N : /\ W[k] \subseteq U
                              /\ Closed(U, W[k], edges) \/ Cardinality(W[k]) >= k}
<1>1. N \in Nat
  BY FS_CardinalityType
<1>2. 0 \in T
  <2>1. 0 \in 0..N
    BY <1>1
  <2>2. Cardinality(S) \in Nat
    BY FS_Subset, FS_CardinalityType
  <2>3. W[0] = S
    BY <1>1, WalksUnfold
  <2> QED BY <2>1, <2>2, <2>3
<1>3. ASSUME NEW k \in 0..N, k # N, k \in T
      PROVE  k + 1 \in T
  <2>1. k + 1 \in 0..N /\ W[k + 1] = W[k] \cup Beyond(U, W[k], edges)
    <3> HIDE DEF N
    <3>1. Walks(U, W, N, S, edges)
      BY DEF N
    <3> QED BY <1>1, <1>3, <3>1, WalksUnfold
  <2>2. W[k + 1] \subseteq U
    BY <1>3, <2>1 DEF Beyond
  <2>3. CASE Closed(U, W[k], edges)
    <3>1. W[k + 1] = W[k]
      BY <2>1, <2>3 DEF Closed
    <3> QED BY <2>1, <2>2, <2>3, <3>1
  <2>4. CASE ~Closed(U, W[k], edges)
    <3>1. PICK b : b \in Beyond(U, W[k], edges) /\ b \notin W[k]
      BY <2>4 DEF Closed
    <3>2. IsFiniteSet(W[k]) /\ IsFiniteSet(W[k + 1])
      BY <1>3, <2>2, FS_Subset
    <3>3. /\ IsFiniteSet(W[k] \cup {b})
          /\ Cardinality(W[k] \cup {b}) = Cardinality(W[k]) + 1
      BY <3>1, <3>2, FS_AddElement
    <3>4. Cardinality(W[k] \cup {b}) <= Cardinality(W[k + 1])
      BY <2>1, <3>1, <3>2, FS_Subset
    <3>5. Cardinality(W[k]) \in Nat /\ Cardinality(W[k + 1]) \in Nat
      BY <3>2, FS_CardinalityType
    <3>6. Cardinality(W[k]) >= k
      BY <1>3, <2>4
    <3>7. Cardinality(W[k + 1]) >= k + 1
      BY <3>3, <3>4, <3>5, <3>6
    <3> QED BY <2>1, <2>2, <3>7
  <2> QED BY <2>3, <2>4
<1>4. 0..N \subseteq T
  <2> HIDE DEF T, N
  <2> QED BY <1>1, <1>2, <1>3, UpTo
<1>5. W[N] \subseteq U /\ (Closed(U, W[N], edges) \/ Cardinality(W[N]) >= N)
  BY <1>1, <1>4
<1>6. CASE Cardinality(W[N]) >= N
  <2>1. IsFiniteSet(W[N]) /\ Cardinality(W[N]) <= N /\ (N = Cardinality(W[N]) => U = W[N])
    BY <1>5, FS_Subset
  <2>2. Cardinality(W[N]) \in Nat
    BY <2>1, FS_CardinalityType
  <2>3. W[N] = U
    BY <1>1, <1>6, <2>1, <2>2
  <2> QED BY <2>3 DEF Closed, Beyond
<1> QED BY <1>5, <1>6

-----------------------------------------------------------------------------
(* Reach and Subtree end such walks.                                       *)

LEMMA ReachEndsAWalk ==
    ASSUME IsFiniteSet(Groups), NEW S, NEW edges
    PROVE  \E W : /\ Walks(Groups, W, Cardinality(Groups), S, edges)
                  /\ Reach(S, edges) = W[Cardinality(Groups)]
<1> DEFINE N == Cardinality(Groups)
           Defined(W) == W = [n \in 0..N |->
                              IF n = 0 THEN S
                              ELSE W[n - 1] \cup {b \in Groups : \E a \in W[n - 1] : <<a, b>> \in edges}]
<1>1. N \in Nat
  BY FS_CardinalityType
<1>2. \E W : Walks(Groups, W, N, S, edges)
  BY <1>1, WalksExist
<1>3. \A W : Defined(W) <=> Walks(Groups, W, N, S, edges)
  BY DEF Walks, Beyond
<1>4. Reach(S, edges) = (CHOOSE W : Defined(W))[N]
  BY DEF Reach
<1>5. Defined(CHOOSE W : Defined(W))
  BY <1>2, <1>3
<1> QED BY <1>3, <1>4, <1>5

(* What Reach returns is the least set that has S and is closed.           *)
LEMMA ReachStarts ==
    ASSUME IsFiniteSet(Groups), NEW S, NEW edges
    PROVE  S \subseteq Reach(S, edges)
BY ReachEndsAWalk, WalksStart, FS_CardinalityType

LEMMA ReachIsLeast ==
    ASSUME IsFiniteSet(Groups), NEW S, NEW edges,
           NEW C, S \subseteq C, Closed(Groups, C, edges)
    PROVE  Reach(S, edges) \subseteq C
<1>1. PICK W : Walks(Groups, W, Cardinality(Groups), S, edges) /\ Reach(S, edges) = W[Cardinality(Groups)]
  BY ReachEndsAWalk
<1>2. Cardinality(Groups) \in Nat
  BY FS_CardinalityType
<1> DEFINE N == Cardinality(Groups)
<1> HIDE DEF N
<1>3. W[N] \subseteq C
  BY <1>1, <1>2, WalksStayInside DEF N
<1> QED BY <1>1, <1>3 DEF N

LEMMA ReachIsClosed ==
    ASSUME IsFiniteSet(Groups), NEW S \in SUBSET Groups, NEW edges
    PROVE  Reach(S, edges) \subseteq Groups /\ Closed(Groups, Reach(S, edges), edges)
BY ReachEndsAWalk, WalksClose

(* The existing units, each below its parent.                              *)
Edges == {<<unit[v].parent, v>> : v \in Existing}

LEMMA SubtreeEndsAWalk ==
    ASSUME IsFiniteSet(Units), NEW u
    PROVE  \E W : /\ Walks(Units, W, Cardinality(Units), {u}, Edges)
                  /\ Subtree(u) = W[Cardinality(Units)]
<1> DEFINE N == Cardinality(Units)
           Defined(W) == W = [n \in 0..N |->
                              IF n = 0 THEN {u}
                              ELSE W[n - 1] \cup {v \in Existing : unit[v].parent \in W[n - 1]}]
<1>1. N \in Nat
  BY FS_CardinalityType
<1>2. \E W : Walks(Units, W, N, {u}, Edges)
  BY <1>1, WalksExist
<1>3. \A W : Defined(W) <=> Walks(Units, W, N, {u}, Edges)
  <2>1. \A A : {v \in Existing : unit[v].parent \in A} = Beyond(Units, A, Edges)
    BY DEF Beyond, Edges, Existing
  <2> QED BY <2>1 DEF Walks
<1>4. Subtree(u) = (CHOOSE W : Defined(W))[N]
  BY DEF Subtree
<1>5. Defined(CHOOSE W : Defined(W))
  BY <1>2, <1>3
<1> QED BY <1>3, <1>4, <1>5

LEMMA SubtreeIsClosed ==
    ASSUME IsFiniteSet(Units), NEW u \in Units
    PROVE  /\ u \in Subtree(u) /\ Subtree(u) \subseteq Units
           /\ \A v \in Existing : unit[v].parent \in Subtree(u) => v \in Subtree(u)
<1>1. Subtree(u) \subseteq Units /\ Closed(Units, Subtree(u), Edges)
  <2>1. PICK W : Walks(Units, W, Cardinality(Units), {u}, Edges) /\ Subtree(u) = W[Cardinality(Units)]
    BY SubtreeEndsAWalk
  <2>2. W[Cardinality(Units)] \subseteq Units /\ Closed(Units, W[Cardinality(Units)], Edges)
    BY ONLY IsFiniteSet(Units), {u} \in SUBSET Units, <2>1, WalksClose
  <2> QED BY <2>1, <2>2
<1>2. {u} \subseteq Subtree(u)
  <2>1. PICK W : Walks(Units, W, Cardinality(Units), {u}, Edges) /\ Subtree(u) = W[Cardinality(Units)]
    BY SubtreeEndsAWalk
  <2>2. Cardinality(Units) \in Nat
    BY FS_CardinalityType
  <2> QED BY <2>1, <2>2, WalksStart
<1> QED BY <1>1, <1>2 DEF Closed, Beyond, Edges, Existing

LEMMA SubtreeIsLeast ==
    ASSUME IsFiniteSet(Units), NEW u,
           NEW C, u \in C, \A v \in Existing : unit[v].parent \in C => v \in C
    PROVE  Subtree(u) \subseteq C
<1>1. Closed(Units, C, Edges)
  BY DEF Closed, Beyond, Edges, Existing
<1>2. {u} \subseteq C
  OBVIOUS
<1>3. PICK W : Walks(Units, W, Cardinality(Units), {u}, Edges) /\ Subtree(u) = W[Cardinality(Units)]
  BY SubtreeEndsAWalk
<1>4. Cardinality(Units) \in Nat
  BY FS_CardinalityType
<1> QED BY <1>1, <1>2, <1>3, <1>4, WalksStayInside

-----------------------------------------------------------------------------
(* The graph.                                                              *)

(* An edge from a parent that its child does not reach closes no circle.   *)
LEMMA EdgesThatCloseNothing ==
    ASSUME IsFiniteSet(Groups), NEW E \in SUBSET (Groups \X Groups),
           NEW p \in Groups, NEW c \in Groups, p # c,
           p \notin Reach({d \in Groups : <<c, d>> \in E}, E),
           \A g \in Groups : g \notin Reach({d \in Groups : <<g, d>> \in E}, E),
           NEW g \in Groups
    PROVE  g \notin Reach({d \in Groups : <<g, d>> \in E \cup {<<p, c>>}}, E \cup {<<p, c>>})
<1> DEFINE F == E \cup {<<p, c>>}
           After(h) == {d \in Groups : <<h, d>> \in E}
           Now(h) == {d \in Groups : <<h, d>> \in F}
           R == Reach(After(c), E)
           G == Reach(After(g), E)
<1>1. After(c) \subseteq R /\ Closed(Groups, R, E) /\ R \subseteq Groups /\ p \notin R
  BY ReachStarts, ReachIsClosed
<1>2. After(g) \subseteq G /\ Closed(Groups, G, E) /\ G \subseteq Groups /\ g \notin G
  BY ReachStarts, ReachIsClosed
<1>3. SUFFICES \E T : Now(g) \subseteq T /\ Closed(Groups, T, F) /\ g \notin T
  BY ReachIsLeast
<1> HIDE DEF R, G
<1>4. CASE g # p /\ g \in R \cup {c}
  <2>1. After(g) \subseteq R
    BY <1>1, <1>4 DEF Closed, Beyond
  <2>2. G \subseteq R
    BY <1>1, <2>1, ReachIsLeast DEF G
  <2>3. Now(g) \subseteq G
    BY <1>2, <1>4
  <2>4. Closed(Groups, G, F)
    BY <1>1, <1>2, <2>2 DEF Closed, Beyond
  <2> QED BY <1>2, <2>3, <2>4
<1>5. CASE g = p \/ g \notin R \cup {c}
  <2> DEFINE T == G \cup R \cup {c}
  <2>1. Now(g) \subseteq T
    BY <1>2
  <2>2. Closed(Groups, T, F)
    BY <1>1, <1>2 DEF Closed, Beyond
  <2>3. g \notin T
    BY <1>1, <1>2, <1>5
  <2> QED BY <2>1, <2>2, <2>3
<1> QED BY <1>4, <1>5

(* A request's record, and what its handler has checked on the way: its    *)
(* group exists unless it is the one created, so does a child, and only    *)
(* the nesting of a group goes through the lock.                           *)
RequestRecord ==
    [step : {"idle", "begun", "locked", "checked"}, op : Ops \cup {"none"},
     on : Groups \cup {NoOne}, arg : Groups \cup Users \cup {NoOne}]

Vetted(q) ==
    q.step # "idle" =>
        /\ q.op \in Ops /\ q.on \in Groups
        /\ q.op # "create" => q.on \in group
        /\ q.op \in {"addMember", "removeMember"} => q.arg \in Users
        /\ q.op = "addChild" => q.arg \in group \ {q.on}
        /\ q.op = "removeChild" => q.arg \in Groups
        /\ q.step \in {"locked", "checked"} => q.op = "addChild"

GraphShape ==
    /\ group \subseteq Groups
    /\ direct \subseteq group \X Users /\ nested \subseteq group \X group
    /\ request \in [Requests -> RequestRecord]
    /\ \A s \in Requests : Vetted(request[s])
    /\ rows \subseteq Row /\ groupRows \subseteq group
    /\ held \in [Users -> SUBSET group]
    /\ tracked \subseteq group
    /\ listed \in [Groups -> SUBSET (group \cup Users)]
    /\ requests \in 0..MaxGroupWrites

(* The advisory lock has one holder, and what its cycle check has found    *)
(* stays true: only the holder adds an edge.                               *)
OneHolder ==
    \A s, t \in Requests :
        request[s].step \in {"locked", "checked"} /\ request[t].step \in {"locked", "checked"} => s = t

ChecksHold ==
    \A s \in Requests :
        request[s].step = "checked" => ~Reachable(request[s].on, request[s].arg)

(* The list of a group that is neither due nor flattened says exactly what *)
(* the graph says of it, by reference to groups the target knows.          *)
ListsFollow ==
    \A g \in tracked \ (groupRows \cup flattened) :
        listed[g] = DirectMembers(g) \cup Children(g) /\ Children(g) \subseteq tracked

GraphInv == GraphShape /\ OneHolder /\ ChecksHold /\ NoCycles /\ ListsFollow

LEMMA GraphStarts == GroupGraphInit => GraphInv
<1> SUFFICES ASSUME GroupGraphInit PROVE GraphInv
  OBVIOUS
<1> USE GroupGraphAssumption DEF GroupGraphInit
<1>1. GraphShape
  BY DEF GraphShape, RequestRecord, NoRequest, Vetted
<1>2. OneHolder /\ ChecksHold
  BY DEF OneHolder, ChecksHold, NoRequest
<1>3. NoCycles
  <2> SUFFICES ASSUME NEW g \in Groups PROVE g \notin Reach(Children(g), nested)
    BY DEF NoCycles
  <2>1. Children(g) \subseteq {} /\ Closed(Groups, {}, nested)
    BY DEF Children, Closed, Beyond
  <2> QED BY <2>1, ReachIsLeast
<1>4. ListsFollow
  BY DEF ListsFollow, DirectMembers, Children
<1> QED BY <1>1, <1>2, <1>3, <1>4 DEF GraphInv

(* The graph and the targets are as they were, and a request moves on.     *)
LEMMA RequestsMove ==
    ASSUME GraphInv, NEW s \in Requests, NEW q \in RequestRecord,
           request' = [request EXCEPT ![s] = q], Vetted(q),
           q.step \in {"locked", "checked"} =>
               \A t \in Requests : request[t].step \in {"locked", "checked"} => t = s,
           q.step = "checked" => ~Reachable(q.on, q.arg),
           requests' \in 0..MaxGroupWrites,
           UNCHANGED <<group, direct, nested, rows, groupRows, held, tracked, listed, flattened>>
    PROVE  GraphInv'
<1> USE DEF GraphInv
<1>1. \A t \in Requests : request'[t] = IF t = s THEN q ELSE request[t]
  BY DEF GraphShape
<1>2. GraphShape'
  <2>1. request' \in [Requests -> RequestRecord]
    BY DEF GraphShape
  <2>2. \A t \in Requests : Vetted(request'[t])
    BY <1>1 DEF GraphShape
  <2>3. \A t \in Requests : Vetted(request[t])'
    BY <2>2 DEF Vetted
  <2> QED BY <2>1, <2>3 DEF GraphShape
<1>3. OneHolder'
  BY <1>1 DEF OneHolder
<1>4. ChecksHold'
  <2> SUFFICES ASSUME NEW t \in Requests, request'[t].step = "checked"
               PROVE  ~Reachable(request[t].on, request[t].arg)'
    BY DEF ChecksHold
  <2>1. ~Reachable(request'[t].on, request'[t].arg)
    BY <1>1 DEF ChecksHold
  <2> QED BY <2>1 DEF Reachable, Children
<1>5. NoCycles'
  BY DEF NoCycles, Children
<1>6. ListsFollow'
  BY DEF ListsFollow, DirectMembers, Children
<1> QED BY <1>2, <1>3, <1>4, <1>5, <1>6

LEMMA HandlersMove ==
    ASSUME GraphInv, NEW s \in Requests,
           \/ \E op \in Ops, g \in Groups, x \in Groups \cup Users \cup {NoOne} : Begin(s, op, g, x)
           \/ RollbackRequest(s) \/ LockGraph(s) \/ CheckCycle(s)
    PROVE  GraphInv'
<1>0. request \in [Requests -> RequestRecord] /\ Vetted(request[s]) /\ requests \in 0..MaxGroupWrites
  BY DEF GraphInv, GraphShape
<1>a. NoRequest \in RequestRecord /\ NoRequest.step = "idle"
  BY DEF RequestRecord, NoRequest
<1>1. ASSUME NEW op \in Ops, NEW g \in Groups, NEW x \in Groups \cup Users \cup {NoOne}, Begin(s, op, g, x)
      PROVE  GraphInv'
  <2> DEFINE q == [step |-> "begun", op |-> op, on |-> g, arg |-> x]
  <2>1. q \in RequestRecord
    BY DEF RequestRecord
  <2>2. Vetted(q)
    BY <1>1 DEF Begin, Vetted
  <2>3. requests' \in 0..MaxGroupWrites
    BY <1>0, <1>1, GroupGraphAssumption DEF Begin
  <2>4. request' = [request EXCEPT ![s] = q] /\ q.step = "begun"
    BY <1>1 DEF Begin
  <2>5. UNCHANGED <<group, direct, nested, rows, groupRows, held, tracked, listed, flattened>>
    BY <1>1 DEF Begin
  <2> HIDE DEF q
  <2> QED BY <2>1, <2>2, <2>3, <2>4, <2>5, RequestsMove
<1>2. CASE RollbackRequest(s)
  <2>1. Vetted(NoRequest)
    BY <1>a DEF Vetted
  <2>2. request' = [request EXCEPT ![s] = NoRequest] /\ requests' = requests
        /\ UNCHANGED <<group, direct, nested, rows, groupRows, held, tracked, listed, flattened>>
    BY <1>2 DEF RollbackRequest, Advance
  <2> QED BY <1>0, <1>a, <2>1, <2>2, RequestsMove
<1>3. CASE LockGraph(s)
  <2>1. PICK q \in RequestRecord : q = [request[s] EXCEPT !.step = "locked"]
    BY <1>0 DEF RequestRecord
  <2>2. q.step = "locked" /\ q.op = "addChild" /\ q.on = request[s].on /\ q.arg = request[s].arg
    BY <1>0, <1>3, <2>1 DEF LockGraph, RequestRecord
  <2>3. Vetted(q)
    BY <1>0, <1>3, <2>2 DEF Vetted, LockGraph
  <2>4. request' = [request EXCEPT ![s] = q] /\ requests' = requests
        /\ UNCHANGED <<group, direct, nested, rows, groupRows, held, tracked, listed, flattened>>
    BY <1>3, <2>1 DEF LockGraph, Advance
  <2>5. \A t \in Requests : request[t].step \notin {"locked", "checked"}
    BY <1>3 DEF LockGraph
  <2> QED BY <1>0, <2>2, <2>3, <2>4, <2>5, RequestsMove
<1>4. CASE CheckCycle(s)
  <2>1. PICK q \in RequestRecord : q = [request[s] EXCEPT !.step = "checked"]
    BY <1>0 DEF RequestRecord
  <2>2. q.step = "checked" /\ q.op = request[s].op /\ q.on = request[s].on /\ q.arg = request[s].arg
    BY <1>0, <2>1 DEF RequestRecord
  <2>3. Vetted(q)
    BY <1>0, <1>4, <2>2 DEF Vetted, CheckCycle
  <2>4. request' = [request EXCEPT ![s] = q] /\ requests' = requests
        /\ UNCHANGED <<group, direct, nested, rows, groupRows, held, tracked, listed, flattened>>
    BY <1>4, <2>1 DEF CheckCycle, Advance
  <2>5. \A t \in Requests : request[t].step \in {"locked", "checked"} => t = s
    BY <1>4 DEF CheckCycle, GraphInv, OneHolder
  <2>6. ~Reachable(q.on, q.arg)
    BY <1>4, <2>2 DEF CheckCycle
  <2> QED BY <1>0, <2>2, <2>3, <2>4, <2>5, <2>6, RequestsMove
<1> QED BY <1>1, <1>2, <1>3, <1>4

(* A commit that leaves no new circle, and keeps the list of every group   *)
(* but its own true.                                                       *)
LEMMA RequestsCommit ==
    ASSUME GraphInv, NEW s \in Requests, NEW row \in Row, Commit(s, row),
           request[s].step # "idle", request[s].on \in group',
           group \subseteq group', group' \subseteq Groups,
           direct' \subseteq group' \X Users, nested' \subseteq group' \X group',
           NoCycles',
           \A t \in Requests, p, c \in Groups :
               t # s /\ request[t].step = "checked" /\ request[t].on = p /\ request[t].arg = c
                   => ~Reachable(p, c)',
           \A g \in Groups : g # request[s].on =>
               DirectMembers(g)' = DirectMembers(g) /\ Children(g)' = Children(g)
    PROVE  GraphInv'
<1> USE DEF GraphInv
<1>0. request \in [Requests -> RequestRecord]
  BY DEF GraphShape
<1>1. \A t \in Requests : request'[t] = IF t = s THEN NoRequest ELSE request[t]
  BY <1>0 DEF Commit
<1>2. GraphShape'
  <2>1. NoRequest \in RequestRecord
    BY DEF RequestRecord, NoRequest
  <2>2. request' \in [Requests -> RequestRecord]
    BY <1>0, <2>1 DEF Commit
  <2>3. \A t \in Requests : Vetted(request[t])'
    BY <1>1 DEF Vetted, NoRequest, GraphShape
  <2>4. rows' \subseteq Row /\ groupRows' \subseteq group'
    BY DEF GraphShape, Commit
  <2>5. held' = held /\ tracked' = tracked /\ listed' = listed /\ requests' = requests
    BY DEF Commit
  <2> QED BY <2>2, <2>3, <2>4, <2>5 DEF GraphShape
<1>3. OneHolder'
  BY <1>1 DEF OneHolder, NoRequest
<1>4. ChecksHold'
  <2> SUFFICES ASSUME NEW t \in Requests, request'[t].step = "checked"
               PROVE  ~Reachable(request[t].on, request[t].arg)'
    BY DEF ChecksHold
  <2>1. t # s /\ request'[t] = request[t]
    BY <1>1 DEF NoRequest
  <2>2. request[t].on \in Groups /\ request[t].arg \in Groups
    BY <2>1 DEF GraphShape, Vetted
  <2>3. \A p, c \in Groups : request[t].on = p /\ request[t].arg = c => ~Reachable(p, c)'
    BY <2>1
  <2> QED BY <2>1, <2>2, <2>3 DEF Reachable, Children
<1>5. ListsFollow'
  BY DEF ListsFollow, Commit, GraphShape
<1> QED BY <1>2, <1>3, <1>4, <1>5

LEMMA EdgesMove ==
    ASSUME GraphInv, NEW s \in Requests,
           \/ CreateGroup(s) \/ UpdateGroup(s) \/ AddMember(s) \/ RemoveMember(s)
           \/ AddChildGroup(s) \/ RemoveChildGroup(s)
    PROVE  GraphInv'
<1> DEFINE q == request[s]
<1>0. /\ q \in RequestRecord /\ Vetted(q) /\ group \subseteq Groups
      /\ direct \subseteq group \X Users /\ nested \subseteq group \X group
  BY DEF GraphInv, GraphShape
<1>1. CASE CreateGroup(s) \/ UpdateGroup(s) \/ AddMember(s) \/ RemoveMember(s)
  <2>1. /\ q.step = "begun" /\ q.on \in group' /\ nested' = nested
        /\ group \subseteq group' /\ group' \subseteq Groups /\ direct' \subseteq group' \X Users
    BY <1>0, <1>1 DEF CreateGroup, UpdateGroup, AddMember, RemoveMember, Begun, Vetted, RequestRecord
  <2>2. NoCycles'
    BY <2>1 DEF GraphInv, NoCycles, Children
  <2>3. \A t \in Requests, p, c \in Groups :
          request[t].step = "checked" /\ request[t].on = p /\ request[t].arg = c => ~Reachable(p, c)'
    BY <2>1 DEF GraphInv, ChecksHold, Reachable, Children
  <2>4. \A g \in Groups : g # q.on => DirectMembers(g)' = DirectMembers(g) /\ Children(g)' = Children(g)
    BY <1>1, <2>1 DEF CreateGroup, UpdateGroup, AddMember, RemoveMember, DirectMembers, Children
  <2>5. \E row \in Row : Commit(s, row)
    BY <1>0, <1>1 DEF CreateGroup, UpdateGroup, AddMember, RemoveMember, Begun, Vetted, Row
  <2> QED BY <1>0, <2>1, <2>2, <2>3, <2>4, <2>5, RequestsCommit
<1>2. CASE AddChildGroup(s)
  <2> DEFINE p == q.on
             c == q.arg
  <2>1. /\ q.step = "checked" /\ p \in group /\ c \in group /\ p # c
        /\ nested' = nested \cup {<<p, c>>} /\ group' = group /\ direct' = direct
    BY <1>0, <1>2 DEF AddChildGroup, Vetted
  <2>2. ~Reachable(p, c)
    BY <2>1 DEF GraphInv, ChecksHold
  <2>3. NoCycles'
    <3>1. p \notin Reach({d \in Groups : <<c, d>> \in nested}, nested)
      BY <2>2 DEF Reachable, Children
    <3>2. \A g \in Groups : g \notin Reach({d \in Groups : <<g, d>> \in nested}, nested)
      BY DEF GraphInv, NoCycles, Children
    <3>3. nested \in SUBSET (Groups \X Groups) /\ p \in Groups /\ c \in Groups
      BY <1>0, <2>1
    <3> HIDE DEF p, c
    <3>4. \A g \in Groups :
            g \notin Reach({d \in Groups : <<g, d>> \in nested \cup {<<p, c>>}}, nested \cup {<<p, c>>})
      BY <2>1, <3>1, <3>2, <3>3, GroupGraphAssumption, EdgesThatCloseNothing
    <3> QED BY <2>1, <3>4 DEF NoCycles, Children
  <2>4. \A t \in Requests : t # s => request[t].step # "checked"
    BY <2>1 DEF GraphInv, OneHolder
  <2>5. \A g \in Groups : g # p => DirectMembers(g)' = DirectMembers(g) /\ Children(g)' = Children(g)
    BY <2>1 DEF DirectMembers, Children
  <2>6. \E row \in Row : Commit(s, row)
    BY <1>0, <1>2, <2>1 DEF AddChildGroup, Row
  <2> QED BY <1>0, <2>1, <2>3, <2>4, <2>5, <2>6, RequestsCommit
<1>3. CASE RemoveChildGroup(s)
  <2>1. /\ q.step = "begun" /\ q.on \in group /\ nested' = nested \ {<<q.on, q.arg>>}
        /\ group' = group /\ direct' = direct
    BY <1>0, <1>3 DEF RemoveChildGroup, Begun, Vetted
  <2>2. \A x \in Groups, y \in Groups : x \notin Reach(Children(y), nested) => x \notin Reach(Children(y), nested)'
    <3> SUFFICES ASSUME NEW x \in Groups, NEW y \in Groups
                 PROVE  Reach(Children(y)', nested') \subseteq Reach(Children(y), nested)
      OBVIOUS
    <3> DEFINE R == Reach(Children(y), nested)
    <3>1. Children(y) \subseteq R /\ Closed(Groups, R, nested)
      BY GroupGraphAssumption, ReachStarts, ReachIsClosed DEF Children
    <3> HIDE DEF R
    <3>2. Children(y)' \subseteq R /\ Closed(Groups, R, nested')
      BY <2>1, <3>1 DEF Children, Closed, Beyond
    <3>3. Reach(Children(y)', nested') \subseteq R
      BY <3>2, GroupGraphAssumption, ReachIsLeast
    <3> QED BY <3>3 DEF R
  <2>3. NoCycles'
    BY <2>2 DEF GraphInv, NoCycles
  <2>4. \A t \in Requests, p, c \in Groups :
          request[t].step = "checked" /\ request[t].on = p /\ request[t].arg = c => ~Reachable(p, c)'
    BY <2>2 DEF GraphInv, ChecksHold, Reachable
  <2>5. \A g \in Groups : g # q.on => DirectMembers(g)' = DirectMembers(g) /\ Children(g)' = Children(g)
    BY <2>1 DEF DirectMembers, Children
  <2>6. \E row \in Row : Commit(s, row)
    BY <1>0, <1>3 DEF RemoveChildGroup, Begun, Vetted, Row
  <2> QED BY <1>0, <2>1, <2>3, <2>4, <2>5, <2>6, RequestsCommit
<1> QED BY <1>1, <1>2, <1>3

LEMMA RowsApply ==
    ASSUME GraphInv, NEW row \in Row, ApplyRow(row)
    PROVE  GraphInv'
<1> USE DEF GraphInv, ApplyRow
<1>1. GraphShape'
  <2>1. \A u \in Users : EffectiveGroups(u) \subseteq group
    <3> TAKE u \in Users
    <3> DEFINE up == {<<e[2], e[1]>> : e \in nested}
    <3>1. {g \in Groups : <<g, u>> \in direct} \subseteq group /\ Closed(Groups, group, up)
      BY DEF GraphShape, Closed, Beyond
    <3> HIDE DEF up
    <3>2. Reach({g \in Groups : <<g, u>> \in direct}, up) \subseteq group
      BY <3>1, GroupGraphAssumption, ReachIsLeast
    <3> QED BY <3>2 DEF EffectiveGroups, up
  <2>2. held' \in [Users -> SUBSET group]
    BY <2>1 DEF GraphShape
  <2>3. \A s \in Requests : Vetted(request[s])'
    BY DEF GraphShape, Vetted
  <2> QED BY <2>2, <2>3 DEF GraphShape
<1>2. OneHolder' /\ ChecksHold' /\ NoCycles'
  BY DEF OneHolder, ChecksHold, Reachable, Children, NoCycles
<1>3. ListsFollow'
  BY DEF ListsFollow, DirectMembers, Children
<1> QED BY <1>1, <1>2, <1>3

LEMMA GroupsApply ==
    ASSUME GraphInv, NEW g \in Groups, ApplyGroup(g)
    PROVE  GraphInv'
<1> USE DEF GraphInv, ApplyGroup
<1>0. /\ listed \in [Groups -> SUBSET (group \cup Users)] /\ g \in group
      /\ nested \subseteq group \X group
  BY DEF GraphShape
<1>1. GraphShape'
  <2>1. DesiredMembers(g) \subseteq group \cup Users
    <3>1. \A c \in Groups : EffectiveMembers(c) \subseteq Users
      BY DEF EffectiveMembers, DirectMembers
    <3>2. UNION {EffectiveMembers(c) : c \in Children(g) \ tracked} \subseteq Users
      BY <3>1 DEF Children
    <3>3. DirectMembers(g) \subseteq Users /\ Children(g) \cap tracked \subseteq group
      BY <1>0 DEF DirectMembers, Children
    <3> QED BY <3>2, <3>3 DEF DesiredMembers
  <2>2. listed' \in [Groups -> SUBSET (group \cup Users)]
    BY <1>0, <2>1
  <2>3. tracked' \subseteq group /\ groupRows' \subseteq group
    BY <1>0 DEF GraphShape
  <2>4. \A s \in Requests : Vetted(request[s])'
    BY DEF GraphShape, Vetted
  <2> QED BY <2>2, <2>3, <2>4 DEF GraphShape
<1>2. OneHolder' /\ ChecksHold' /\ NoCycles'
  BY DEF OneHolder, ChecksHold, Reachable, Children, NoCycles
<1>3. ListsFollow'
  <2> SUFFICES ASSUME NEW h \in tracked', h \notin groupRows', h \notin flattened'
               PROVE  listed'[h] = DirectMembers(h) \cup Children(h) /\ Children(h) \subseteq tracked'
    BY DEF ListsFollow, DirectMembers, Children
  <2>1. CASE h = g
    <3>1. Children(g) \subseteq tracked
      BY <2>1
    <3>2. DesiredMembers(g) = DirectMembers(g) \cup Children(g)
      BY <3>1 DEF DesiredMembers
    <3> QED BY <1>0, <2>1, <3>1, <3>2
  <2>2. CASE h # g
    <3>1. h \in tracked \ (groupRows \cup flattened)
      BY <2>2
    <3>2. listed'[h] = listed[h]
      BY <1>0, <2>2
    <3> QED BY <3>1, <3>2 DEF ListsFollow
  <2> QED BY <2>1, <2>2
<1> QED BY <1>1, <1>2, <1>3

LEMMA GraphStep == GraphInv /\ [GroupGraphNext]_ggvars => GraphInv'
<1> SUFFICES ASSUME GraphInv, [GroupGraphNext]_ggvars PROVE GraphInv'
  OBVIOUS
<1>1. CASE UNCHANGED ggvars
  BY <1>1 DEF ggvars, GraphInv, GraphShape, Vetted, OneHolder, ChecksHold, Reachable, Children,
              NoCycles, ListsFollow, DirectMembers
<1>2. CASE GroupGraphNext
  BY <1>2, HandlersMove, EdgesMove, RowsApply, GroupsApply DEF GroupGraphNext
<1> QED BY <1>1, <1>2

(* The graph, its requests and both targets' lists keep their invariant.   *)
THEOREM GraphInvariance == GroupGraphSpec => []GraphInv
BY GraphStarts, GraphStep, PTL DEF GroupGraphSpec

(* However many requests nest groups at once, no group ever contains       *)
(* itself, through however many edges: the lock of addChildGroup makes its *)
(* check and its insert one step of the graph.                             *)
THEOREM NestingStaysAcyclic == GroupGraphSpec => []NoCycles
<1>1. GraphInv => NoCycles
  BY DEF GraphInv
<1> QED BY <1>1, GraphInvariance, PTL

(* A group's people at the target that keeps lists are its people, through *)
(* every level of nesting, once nothing is owed below it and nothing below *)
(* it was flattened.                                                       *)
THEOREM ListsReachEverybody == GroupGraphSpec => []NestedListsAreComplete
<1>1. GraphInv => NestedListsAreComplete
  <2> SUFFICES ASSUME GraphInv, NEW g \in tracked,
                      Reach({g}, nested) \cap (groupRows \cup flattened) = {}
               PROVE  TargetMembers(g) = EffectiveMembers(g)
    BY DEF NestedListsAreComplete
  <2> DEFINE edges == {e \in Groups \X Groups : e[2] \in listed[e[1]]}
             R == Reach({g}, nested)
             Q == Reach({g}, edges)
  <2>0. /\ tracked \subseteq Groups /\ nested \subseteq Groups \X Groups
        /\ IsFiniteSet(Groups) /\ Groups \cap Users = {}
    BY GroupGraphAssumption DEF GraphInv, GraphShape
  <2>1. g \in R /\ R \subseteq Groups /\ Closed(Groups, R, nested)
    BY <2>0, ReachStarts, ReachIsClosed
  <2>2. g \in Q /\ Q \subseteq Groups /\ Closed(Groups, Q, edges)
    BY <2>0, ReachStarts, ReachIsClosed
  <2>3. R \cap (groupRows \cup flattened) = {}
    OBVIOUS
  <2>4. R \subseteq R \cap tracked
    <3>1. {g} \subseteq R \cap tracked
      BY <2>1
    <3>2. Closed(Groups, R \cap tracked, nested)
      <4> SUFFICES ASSUME NEW h \in R \cap tracked, NEW c \in Groups, <<h, c>> \in nested
                   PROVE  c \in R \cap tracked
        BY DEF Closed, Beyond
      <4>1. c \in Children(h) /\ Children(h) \subseteq tracked
        BY <2>3 DEF GraphInv, ListsFollow, Children
      <4> QED BY <2>1, <4>1 DEF Closed, Beyond
    <3> HIDE DEF R
    <3>3. Reach({g}, nested) \subseteq R \cap tracked
      BY <2>0, <3>1, <3>2, ReachIsLeast
    <3> QED BY <3>3 DEF R
  <2>5. \A h \in R : listed[h] = DirectMembers(h) \cup Children(h)
    BY <2>3, <2>4 DEF GraphInv, ListsFollow
  <2>6. \A h \in R, c \in Groups : <<h, c>> \in edges <=> <<h, c>> \in nested
    BY <2>0, <2>1, <2>5 DEF Children, DirectMembers
  <2> HIDE DEF R, Q, edges
  <2>7. Q \subseteq R
    <3>1. {g} \subseteq R /\ Closed(Groups, R, edges)
      BY <2>1, <2>6 DEF Closed, Beyond
    <3>2. Reach({g}, edges) \subseteq R
      BY <2>0, <3>1, ReachIsLeast
    <3> QED BY <3>2 DEF Q
  <2>8. R \subseteq Q
    <3>1. {g} \subseteq Q /\ Closed(Groups, Q, nested)
      BY <2>2, <2>6, <2>7 DEF Closed, Beyond
    <3>2. Reach({g}, nested) \subseteq Q
      BY <2>0, <3>1, ReachIsLeast
    <3> QED BY <3>2 DEF R
  <2>9. TargetMembers(g) = UNION {listed[h] \cap Users : h \in Q}
    BY DEF TargetMembers, Q, edges
  <2>10. \A h \in R : listed[h] \cap Users = DirectMembers(h)
    BY <2>0, <2>5 DEF DirectMembers, Children
  <2>11. EffectiveMembers(g) = UNION {DirectMembers(h) : h \in R}
    BY DEF EffectiveMembers, R
  <2> QED BY <2>7, <2>8, <2>9, <2>10, <2>11
<1> QED BY <1>1, GraphInvariance, PTL

-----------------------------------------------------------------------------
(* Paths.                                                                  *)

LEMMA FrontOf ==
    ASSUME NEW L, NEW s \in Seq(L), s # <<>>
    PROVE  /\ Len(s) \in Nat \ {0}
           /\ Front(s) \in Seq(L) /\ Len(Front(s)) = Len(s) - 1
           /\ \A i \in 1..(Len(s) - 1) : Front(s)[i] = s[i]
<1>1. Len(s) \in Nat \ {0}
  BY EmptySeq
<1>2. \A i \in 1..(Len(s) - 1) : s[i] \in L
  BY <1>1, ElementOfSeq
<1>3. /\ SubSeq(s, 1, Len(s) - 1) \in Seq(L)
      /\ Len(SubSeq(s, 1, Len(s) - 1)) = IF 1 <= Len(s) - 1 THEN Len(s) - 1 - 1 + 1 ELSE 0
      /\ \A i \in 1..(Len(s) - 1 - 1 + 1) : SubSeq(s, 1, Len(s) - 1)[i] = s[1 + i - 1]
  <2>1. 1 \in Int /\ Len(s) - 1 \in Int
    BY <1>1
  <2> QED BY <1>2, <2>1, SubSeqProperties
<1>4. Len(s) - 1 - 1 + 1 = Len(s) - 1
  BY <1>1
<1>5. \A i \in 1..(Len(s) - 1) : SubSeq(s, 1, Len(s) - 1)[i] = s[i]
  <2> SUFFICES ASSUME NEW i \in 1..(Len(s) - 1) PROVE SubSeq(s, 1, Len(s) - 1)[i] = s[i]
    OBVIOUS
  <2>1. 1 + i - 1 = i
    BY <1>1
  <2> QED BY <1>3, <1>4, <2>1
<1>6. Len(SubSeq(s, 1, Len(s) - 1)) = Len(s) - 1
  <2> DEFINE n == Len(s)
             m == Len(SubSeq(s, 1, n - 1))
  <2>1. n \in Nat \ {0} /\ m = IF 1 <= n - 1 THEN n - 1 - 1 + 1 ELSE 0
    BY <1>1, <1>3
  <2> HIDE DEF n, m
  <2>2. m = n - 1
    BY <2>1
  <2> QED BY <2>2 DEF n, m
<1> QED BY <1>1, <1>3, <1>5, <1>6 DEF Front

LEMMA PrefixOf ==
    ASSUME NEW L, NEW s \in Seq(L), NEW t \in Seq(L)
    PROVE  IsPrefix(s, t) <=> Len(s) <= Len(t) /\ \A i \in 1..Len(s) : s[i] = t[i]
BY DEF IsPrefix

LEMMA AppendedTo ==
    ASSUME NEW L, NEW s \in Seq(L), NEW e \in L
    PROVE  Append(s, e) \in Seq(L) /\ Append(s, e) # <<>> /\ Len(Append(s, e)) = Len(s) + 1
           /\ Front(Append(s, e)) = s
<1>1. /\ Append(s, e) \in Seq(L) /\ Append(s, e) # <<>> /\ Len(Append(s, e)) = Len(s) + 1
      /\ \A i \in 1..Len(s) : Append(s, e)[i] = s[i]
  BY AppendProperties
<1>2. Len(s) \in Nat
  BY LenProperties
<1>3. /\ Front(Append(s, e)) \in Seq(L) /\ Len(Front(Append(s, e))) = Len(s)
      /\ \A i \in 1..Len(s) : Front(Append(s, e))[i] = s[i]
  <2>1. Len(Append(s, e)) - 1 = Len(s)
    BY <1>1, <1>2
  <2>2. /\ Front(Append(s, e)) \in Seq(L) /\ Len(Front(Append(s, e))) = Len(Append(s, e)) - 1
        /\ \A i \in 1..(Len(Append(s, e)) - 1) : Front(Append(s, e))[i] = Append(s, e)[i]
    BY <1>1, FrontOf
  <2> QED BY <1>1, <2>1, <2>2
<1>4. Front(Append(s, e)) = s
  BY <1>3, SeqEqual
<1> QED BY <1>1, <1>4

(* Below a path is below or at the front's.                                *)
LEMMA StrictlyBelow ==
    ASSUME NEW L, NEW s \in Seq(L), NEW t \in Seq(L), t # <<>>
    PROVE  /\ IsStrictPrefix(s, t) <=> IsPrefix(s, Front(t))
           /\ IsStrictPrefix(s, t) => Len(s) < Len(t)
<1>1. /\ Len(t) \in Nat \ {0} /\ Front(t) \in Seq(L) /\ Len(Front(t)) = Len(t) - 1
      /\ \A i \in 1..(Len(t) - 1) : Front(t)[i] = t[i]
  BY FrontOf
<1>2. Len(s) \in Nat
  BY LenProperties
<1>3. ASSUME IsStrictPrefix(s, t)
      PROVE  Len(s) < Len(t) /\ IsPrefix(s, Front(t))
  <2>1. Len(s) <= Len(t) /\ \A i \in 1..Len(s) : s[i] = t[i]
    BY <1>3, PrefixOf DEF IsStrictPrefix
  <2>2. Len(s) # Len(t)
    BY <1>3, <2>1, SeqEqual DEF IsStrictPrefix
  <2>3. Len(s) < Len(t)
    BY <1>1, <1>2, <2>1, <2>2
  <2>4. \A i \in 1..Len(s) : s[i] = Front(t)[i]
    BY <1>1, <1>2, <2>1, <2>3
  <2> QED BY <1>1, <1>2, <2>3, <2>4, PrefixOf
<1>4. ASSUME IsPrefix(s, Front(t))
      PROVE  IsStrictPrefix(s, t)
  <2>1. Len(s) <= Len(t) - 1 /\ \A i \in 1..Len(s) : s[i] = Front(t)[i]
    BY <1>1, <1>4, PrefixOf
  <2>2. Len(s) <= Len(t) /\ \A i \in 1..Len(s) : s[i] = t[i]
    BY <1>1, <1>2, <2>1
  <2>3. s # t
    BY <1>1, <1>2, <2>1
  <2> QED BY <2>2, <2>3, PrefixOf DEF IsStrictPrefix
<1> QED BY <1>3, <1>4

(* A path with what is above it replaced by n.                             *)
LEMMA Transplanted ==
    ASSUME NEW L, NEW n \in Seq(L), n # <<>>, NEW r \in Seq(L), NEW w \in Seq(L)
    PROVE  /\ n \o SubSeq(w, Len(r) + 1, Len(w)) \in Seq(L)
           /\ n \o SubSeq(w, Len(r) + 1, Len(w)) # <<>>
<1>1. Len(r) \in Nat /\ Len(w) \in Nat /\ Len(n) \in Nat
  BY LenProperties
<1>2. \A i \in (Len(r) + 1)..Len(w) : w[i] \in L
  <2>1. \A i \in (Len(r) + 1)..Len(w) : i \in 1..Len(w)
    BY <1>1
  <2> QED BY <2>1, ElementOfSeq
<1>3. SubSeq(w, Len(r) + 1, Len(w)) \in Seq(L)
  <2>1. Len(r) + 1 \in Int /\ Len(w) \in Int
    BY <1>1
  <2> QED BY <1>2, <2>1, SubSeqProperties
<1> QED BY <1>3, ConcatProperties, ConcatEqualIffEmpty

LEMMA FrontsAreTransplanted ==
    ASSUME NEW L, NEW n \in Seq(L), n # <<>>, NEW r \in Seq(L), NEW w \in Seq(L),
           w # <<>>, IsStrictPrefix(r, w)
    PROVE  Front(n \o SubSeq(w, Len(r) + 1, Len(w)))
             = IF Front(w) = r THEN n ELSE n \o SubSeq(Front(w), Len(r) + 1, Len(Front(w)))
<1> DEFINE tail == SubSeq(w, Len(r) + 1, Len(w))
           M == n \o tail
           f == Front(w)
<1>1. Len(r) \in Nat /\ Len(w) \in Nat /\ Len(n) \in Nat
  BY LenProperties
<1>2. Len(r) < Len(w)
  BY StrictlyBelow
<1>3. /\ f \in Seq(L) /\ Len(f) = Len(w) - 1
      /\ \A i \in 1..(Len(w) - 1) : f[i] = w[i]
  BY FrontOf
<1>4. /\ tail \in Seq(L) /\ Len(tail) = Len(w) - Len(r)
      /\ \A i \in 1..(Len(w) - Len(r)) : tail[i] = w[Len(r) + i]
  <2>1. \A i \in (Len(r) + 1)..Len(w) : w[i] \in L
    <3>1. \A i \in (Len(r) + 1)..Len(w) : i \in 1..Len(w)
      BY <1>1
    <3> QED BY <3>1, ElementOfSeq
  <2>2. Len(r) + 1 \in Int /\ Len(w) \in Int
    BY <1>1
  <2>3. /\ tail \in Seq(L)
        /\ Len(tail) = IF Len(r) + 1 <= Len(w) THEN Len(w) - (Len(r) + 1) + 1 ELSE 0
        /\ \A i \in 1..(Len(w) - (Len(r) + 1) + 1) : tail[i] = w[(Len(r) + 1) + i - 1]
    BY <2>1, <2>2, SubSeqProperties
  <2> QED BY <1>1, <1>2, <2>3
<1> HIDE DEF tail
<1>5. /\ M \in Seq(L) /\ Len(M) = Len(n) + Len(tail)
      /\ \A i \in 1..(Len(n) + Len(tail)) : M[i] = IF i <= Len(n) THEN n[i] ELSE tail[i - Len(n)]
  BY <1>4, ConcatProperties
<1>6. M # <<>>
  BY <1>4, ConcatEqualIffEmpty
<1> HIDE DEF M, f
<1>7. /\ Front(M) \in Seq(L) /\ Len(Front(M)) = Len(M) - 1
      /\ \A i \in 1..(Len(M) - 1) : Front(M)[i] = M[i]
  BY <1>5, <1>6, FrontOf
<1>8. CASE f = r
  <2>1. Len(r) = Len(w) - 1
    BY <1>3, <1>8
  <2>2. Len(Front(M)) = Len(n)
    BY <1>1, <1>4, <1>5, <1>7, <2>1
  <2>3. \A i \in 1..Len(n) : Front(M)[i] = n[i]
    BY <1>1, <1>4, <1>5, <1>7, <2>1
  <2>4. Front(M) = n
    BY <1>7, <2>2, <2>3, SeqEqual
  <2> QED BY <1>8, <2>4 DEF M, tail, f
<1>9. CASE f # r
  <2> DEFINE ftail == SubSeq(f, Len(r) + 1, Len(f))
             F == n \o ftail
  <2>1. IsPrefix(r, f)
    BY StrictlyBelow DEF f
  <2>2. /\ ftail \in Seq(L) /\ Len(ftail) = Len(f) - Len(r)
        /\ \A i \in 1..(Len(f) - Len(r)) : ftail[i] = f[Len(r) + i]
    <3>1. Len(r) <= Len(f)
      BY <1>3, <2>1, PrefixOf
    <3>2. \A i \in (Len(r) + 1)..Len(f) : f[i] \in L
      <4>1. \A i \in (Len(r) + 1)..Len(f) : i \in 1..Len(f)
        BY <1>1, <1>3
      <4> QED BY <1>3, <4>1, ElementOfSeq
    <3>3. Len(r) + 1 \in Int /\ Len(f) \in Int
      BY <1>1, <1>3
    <3>4. /\ ftail \in Seq(L)
          /\ Len(ftail) = IF Len(r) + 1 <= Len(f) THEN Len(f) - (Len(r) + 1) + 1 ELSE 0
          /\ \A i \in 1..(Len(f) - (Len(r) + 1) + 1) : ftail[i] = f[(Len(r) + 1) + i - 1]
      BY <3>2, <3>3, SubSeqProperties
    <3> QED BY <1>1, <1>3, <3>1, <3>3, <3>4
  <2> HIDE DEF ftail
  <2>3. /\ F \in Seq(L) /\ Len(F) = Len(n) + Len(ftail)
        /\ \A i \in 1..(Len(n) + Len(ftail)) : F[i] = IF i <= Len(n) THEN n[i] ELSE ftail[i - Len(n)]
    BY <2>2, ConcatProperties
  <2> HIDE DEF F
  <2>4. Len(Front(M)) = Len(F)
    BY <1>1, <1>3, <1>4, <1>5, <1>7, <2>2, <2>3
  <2>5. \A i \in 1..Len(F) : Front(M)[i] = F[i]
    <3> SUFFICES ASSUME NEW i \in 1..Len(F) PROVE Front(M)[i] = F[i]
      OBVIOUS
    <3>1. i \in Nat /\ 1 <= i /\ i <= Len(n) + Len(w) - 1 - Len(r)
      BY <1>1, <1>3, <2>2, <2>3
    <3>2. Front(M)[i] = IF i <= Len(n) THEN n[i] ELSE tail[i - Len(n)]
      <4>1. i \in 1..(Len(M) - 1) /\ i \in 1..(Len(n) + Len(tail))
        BY <1>1, <1>4, <1>5, <3>1
      <4> QED BY <1>5, <1>7, <4>1
    <3>3. F[i] = IF i <= Len(n) THEN n[i] ELSE ftail[i - Len(n)]
      BY <2>3, <2>2, <1>1, <1>3, <3>1
    <3>4. CASE i > Len(n)
      <4>1. i - Len(n) \in 1..(Len(w) - Len(r)) /\ i - Len(n) \in 1..(Len(f) - Len(r))
        BY <1>1, <1>3, <3>1, <3>4
      <4>2. Len(r) + (i - Len(n)) \in 1..(Len(w) - 1)
        BY <1>1, <1>2, <3>1, <3>4
      <4> QED BY <1>1, <1>3, <1>4, <2>2, <3>1, <3>2, <3>3, <3>4, <4>1, <4>2
    <3> QED BY <1>1, <3>1, <3>2, <3>3, <3>4
  <2>6. Front(M) = F
    BY <1>7, <2>3, <2>4, <2>5, SeqEqual
  <2> QED BY <1>9, <2>6 DEF M, tail, f, F, ftail
<1> QED BY <1>8, <1>9

-----------------------------------------------------------------------------
(* The tree.                                                               *)

Holding == [role : GrantRoles, scope : Units \cup {Everywhere}, path : Seq(Labels)]

Session ==
    [step : Steps, act : Acts \cup {"none"}, on : Units \cup {Nobody},
     label : Labels \cup {Nobody}, grant : Grant \cup {Nobody}, holds : SUBSET Holding,
     reach : SUBSET (Units \cup {Everywhere}), read : Seq(Labels), found : SUBSET Units,
     moved : BOOLEAN, overtaken : BOOLEAN]

(* What a request carries by the step it is at.                            *)
Sensible(q) ==
    q.step # "idle" =>
        /\ q.act \in Acts
        /\ q.act \in {"create", "rename"} => q.on \in Units /\ q.label \in Labels
        /\ q.act = "delete" => q.on \in Units
        /\ q.act \in {"assign", "revoke"} => q.grant \in Grant
        /\ q.step = "read" => q.act \in {"create", "rename"}
        /\ q.step \in {"found", "moved"} => q.act = "rename"
        /\ q.step \in {"read", "found", "moved"} => q.read # <<>>

Below(path) == {v \in Existing : IsStrictPrefix(path, unit[v].path)}

Relabelled(q) == Append(Front(q.read), q.label)

(* What a request that no write of the tree has overtaken has read is      *)
(* still so, and the rows it has locked are those below its unit.          *)
Current(q) ==
    ~q.overtaken =>
        /\ q.step \in {"read", "found", "moved"} =>
              q.on \in Existing /\ q.read = unit[q.on].path
        /\ q.step = "found" => q.found = Below(q.read)
        /\ q.step = "moved" => q.found = IF Relabelled(q) = q.read THEN {} ELSE Below(q.read)

(* The reach of whoever asks to assign is closed downwards and has every   *)
(* scope held for the role; the check has found the scope in it.           *)
WithinReach(q) ==
    q.act = "assign" /\ ~q.overtaken =>
        /\ q.step # "idle" => \A v \in Existing : unit[v].parent \in q.reach => v \in q.reach
        /\ q.step \in {"resolved", "allowed"} =>
              \A h \in q.holds : h.role \in {q.grant.role, "super_admin"} =>
                  IF h.scope = Everywhere THEN Units \cup {Everywhere} \subseteq q.reach
                  ELSE h.scope \in Existing \cap q.reach /\ h.path = unit[h.scope].path
        /\ q.step = "counted" /\ torn = {} => q.grant.scope \in q.reach

TreeShape ==
    /\ unit \in [Units -> UnitRow]
    /\ \A u \in Existing :
          /\ unit[u].path # <<>>
          /\ unit[u].parent # Nobody => unit[u].parent \in Existing
          /\ unit[u].parent = Nobody /\ u \notin torn => Len(unit[u].path) = 1
    /\ \A u, v \in Existing : unit[u].path = unit[v].path => u = v

GrantsShape == grants \subseteq Grant /\ \A g \in grants : g.scope \in Existing \cup {Everywhere}

SessionsShape ==
    /\ txn \in [Sessions -> Session]
    /\ \A s \in Sessions : Sensible(txn[s]) /\ Current(txn[s]) /\ WithinReach(txn[s])

TreeInv == TreeShape /\ PathsFollowParents /\ GrantsShape /\ SessionsShape

LEMMA IdleIsASession ==
    /\ Idle \in Session /\ Idle.step = "idle" /\ Idle.act = "none"
    /\ Sensible(Idle) /\ Current(Idle) /\ WithinReach(Idle)
<1>1. Idle \in Session
  <2>1. <<>> \in Seq(Labels)
    BY EmptySeq
  <2> QED BY <2>1 DEF Idle, Session, Steps
<1>2. Idle.step = "idle" /\ Idle.act = "none"
  BY DEF Idle
<1> QED BY <1>1, <1>2 DEF Sensible, Current, WithinReach

LEMMA TreeStarts == OrgTreeInit => TreeInv
<1> SUFFICES ASSUME OrgTreeInit PROVE TreeInv
  OBVIOUS
<1>1. PICK tree \in FirstTrees : unit = FirstUnits(tree)
  BY DEF OrgTreeInit
<1>2. Orderly(FirstUnits(tree))
  BY OrgTreeAssumption
<1>3. Orderly(unit)
  BY <1>1, <1>2
<1>4. TreeShape /\ PathsFollowParents
  BY <1>3 DEF Orderly, TreeShape, PathsFollowParents, Existing
<1>5. \A r \in Roots : r \in Existing
  BY <1>1, OrgTreeAssumption DEF FirstUnits, Existing
<1>6. GrantsShape
  BY <1>5, OrgTreeAssumption DEF OrgTreeInit, GrantsShape
<1>7. SessionsShape
  BY IdleIsASession DEF OrgTreeInit, SessionsShape
<1> QED BY <1>4, <1>6, <1>7 DEF TreeInv

(* A step of one request that leaves the tree as it is.                    *)
LEMMA SessionsMove ==
    ASSUME TreeInv, NEW s \in Sessions, NEW q \in Session,
           Sensible(q), Current(q), WithinReach(q),
           txn' = [txn EXCEPT ![s] = q], unit' = unit, torn' = torn,
           GrantsShape'
    PROVE  TreeInv'
<1>1. TreeShape' /\ PathsFollowParents'
  BY DEF TreeInv, TreeShape, PathsFollowParents, Existing
<1>2. SessionsShape'
  <2>1. txn' \in [Sessions -> Session]
    BY DEF TreeInv, SessionsShape
  <2>2. ASSUME NEW t \in Sessions
        PROVE  Sensible(txn'[t]) /\ Current(txn'[t]) /\ WithinReach(txn'[t])
    <3>1. txn'[t] = IF t = s THEN q ELSE txn[t]
      BY DEF TreeInv, SessionsShape
    <3> QED BY <3>1 DEF TreeInv, SessionsShape
  <2>3. \A t \in Sessions : Sensible(txn[t])'
    BY <2>2 DEF Sensible
  <2>4. \A t \in Sessions : Current(txn[t])'
    <3>1. Existing' = Existing
      BY DEF Existing
    <3>2. \A path : Below(path)' = Below(path)
      BY <3>1 DEF Below
    <3> QED BY <2>2, <3>1, <3>2 DEF Current, Relabelled
  <2>5. \A t \in Sessions : WithinReach(txn[t])'
    BY <2>2 DEF WithinReach, Existing
  <2> QED BY <2>1, <2>3, <2>4, <2>5 DEF SessionsShape
<1> QED BY <1>1, <1>2 DEF TreeInv

(* A write of the tree overtakes every other request.                      *)
LEMMA TreesChange ==
    ASSUME TreeInv, NEW s \in Sessions, txn' = Overtake(s, Idle),
           TreeShape', PathsFollowParents', GrantsShape'
    PROVE  TreeInv'
<1>1. txn \in [Sessions -> Session] /\ \A t \in Sessions : Sensible(txn[t])
  BY DEF TreeInv, SessionsShape
<1>2. ASSUME NEW t \in Sessions
      PROVE  txn'[t] \in Session /\ Sensible(txn'[t]) /\ (txn'[t].step = "idle" \/ txn'[t].overtaken)
  <2>1. CASE t = s \/ txn[t].step = "idle"
    BY <1>1, <2>1, IdleIsASession DEF Overtake
  <2>2. CASE t # s /\ txn[t].step # "idle"
    <3>1. PICK q \in Session : q = [txn[t] EXCEPT !.overtaken = TRUE]
      BY <1>1 DEF Session
    <3>2. /\ q.overtaken /\ q.step = txn[t].step /\ q.act = txn[t].act /\ q.on = txn[t].on
          /\ q.label = txn[t].label /\ q.grant = txn[t].grant /\ q.read = txn[t].read
      BY <1>1, <3>1 DEF Session
    <3>3. Sensible(q)
      BY <1>1, <3>2 DEF Sensible
    <3>4. txn'[t] = q
      BY <2>2, <3>1 DEF Overtake
    <3> QED BY <3>2, <3>3, <3>4
  <2> QED BY <2>1, <2>2
<1>3. txn' \in [Sessions -> Session]
  BY <1>2 DEF Overtake
<1>4. \A t \in Sessions : Sensible(txn[t])' /\ Current(txn[t])' /\ WithinReach(txn[t])'
  <2>1. \A t \in Sessions : txn'[t].step = "idle" => txn'[t] = Idle \/ txn'[t] = txn[t]
    BY <1>2 DEF Overtake
  <2>2. \A t \in Sessions : Sensible(txn[t])'
    BY <1>2 DEF Sensible
  <2> QED BY <1>2, <2>2 DEF Current, WithinReach
<1> QED BY <1>3, <1>4 DEF TreeInv, SessionsShape

LEMMA RequestsArrive ==
    ASSUME TreeInv, NEW s \in Sessions, NEW p \in People, Ask(s, p)
    PROVE  TreeInv'
<1>1. PICK act \in Acts, u \in Units \cup {Nobody}, l \in Labels \cup {Nobody}, g \in Grant \cup {Nobody} :
        /\ Request(s, p, act, u, l, g)
        /\ act \in {"create", "rename"} => u \in Units /\ l \in Labels
        /\ act = "delete" => u \in Units
        /\ act \in {"assign", "revoke"} => g \in Grant
  BY DEF Ask, Acts
<1>2. /\ unit \in [Units -> UnitRow] /\ grants \subseteq Grant
      /\ \A g1 \in grants : g1.scope \in Existing \cup {Everywhere}
  BY DEF TreeInv, TreeShape, GrantsShape
<1> DEFINE H == Holdings(p)
           R == IF act = "assign" THEN ReachOf(p, g.role) ELSE {}
           Mine == {h \in grants : h.user = p /\ h.role \in {g.role, "super_admin"}}
           Span(h) == IF h.scope = Everywhere THEN Units \cup {Everywhere} ELSE Subtree(h.scope)
<1>3. H \subseteq Holding
  <2> SUFFICES ASSUME NEW h \in grants
               PROVE  [role |-> h.role, scope |-> h.scope,
                       path |-> IF h.scope = Everywhere THEN <<>> ELSE unit[h.scope].path] \in Holding
    BY DEF Holdings
  <2>1. h.role \in GrantRoles /\ h.scope \in Units \cup {Everywhere}
    BY <1>2 DEF Grant
  <2>2. h.scope # Everywhere => unit[h.scope].path \in Seq(Labels)
    BY <1>2, <2>1 DEF UnitRow
  <2>3. <<>> \in Seq(Labels)
    BY EmptySeq
  <2> QED BY <2>1, <2>2, <2>3 DEF Holding
<1>4. act = "assign" => R = UNION {Span(h) : h \in Mine}
  BY DEF ReachOf
<1>5. \A h \in Mine : Span(h) \subseteq Units \cup {Everywhere}
  <2> TAKE h \in Mine
  <2>1. h.scope \in Units \cup {Everywhere}
    BY <1>2 DEF Grant
  <2> QED BY <2>1, OrgTreeAssumption, SubtreeIsClosed
<1>6. R \subseteq Units \cup {Everywhere}
  BY <1>4, <1>5
<1>7. \A h \in Mine, v \in Existing : unit[v].parent \in Span(h) => v \in Span(h)
  <2> TAKE h \in Mine, v \in Existing
  <2>1. h.scope \in Units \cup {Everywhere} /\ v \in Units
    BY <1>2 DEF Grant, Existing
  <2> QED BY <2>1, OrgTreeAssumption, SubtreeIsClosed
<1>8. \A h \in Mine : h.scope # Everywhere => h.scope \in Span(h) /\ h.scope \in Existing
  <2> TAKE h \in Mine
  <2>1. h.scope # Everywhere => h.scope \in Units /\ h.scope \in Existing
    BY <1>2 DEF Grant, Existing
  <2> QED BY <2>1, OrgTreeAssumption, SubtreeIsClosed
<1>9. PICK q : q = [Idle EXCEPT !.step = "resolved", !.act = act, !.on = u, !.label = l,
                                !.grant = g, !.holds = H, !.reach = R]
  OBVIOUS
<1>10. /\ q.step = "resolved" /\ q.act = act /\ q.on = u /\ q.label = l /\ q.grant = g
       /\ q.holds = H /\ q.reach = R /\ q.read = <<>> /\ q.found = {}
       /\ q.moved = FALSE /\ q.overtaken = FALSE
       /\ q = [step |-> q.step, act |-> q.act, on |-> q.on, label |-> q.label, grant |-> q.grant,
               holds |-> q.holds, reach |-> q.reach, read |-> q.read, found |-> q.found,
               moved |-> q.moved, overtaken |-> q.overtaken]
  BY <1>9 DEF Idle
<1> HIDE DEF H, R
<1>11. q \in Session
  <2>1. <<>> \in Seq(Labels)
    BY EmptySeq
  <2>2. q.step \in Steps
    BY <1>10 DEF Steps
  <2> QED BY <1>3, <1>6, <1>10, <2>1, <2>2 DEF Session
<1>12. Sensible(q) /\ Current(q)
  BY <1>1, <1>10 DEF Sensible, Current
<1>13. WithinReach(q)
  <2> SUFFICES ASSUME act = "assign"
               PROVE  /\ \A v \in Existing : unit[v].parent \in R => v \in R
                      /\ \A h \in H : h.role \in {g.role, "super_admin"} =>
                            IF h.scope = Everywhere THEN Units \cup {Everywhere} \subseteq R
                            ELSE h.scope \in Existing \cap R /\ h.path = unit[h.scope].path
    BY <1>10 DEF WithinReach
  <2>1. \A v \in Existing : unit[v].parent \in R => v \in R
    BY <1>4, <1>7
  <2>2. ASSUME NEW h \in H, h.role \in {g.role, "super_admin"}
        PROVE  IF h.scope = Everywhere THEN Units \cup {Everywhere} \subseteq R
               ELSE h.scope \in Existing \cap R /\ h.path = unit[h.scope].path
    <3>1. PICK k \in grants : /\ k.user = p
                              /\ h = [role |-> k.role, scope |-> k.scope,
                                      path |-> IF k.scope = Everywhere THEN <<>> ELSE unit[k.scope].path]
      BY DEF H, Holdings
    <3>2. k \in Mine /\ h.scope = k.scope
      BY <2>2, <3>1
    <3>3. Span(k) \subseteq R
      BY <1>4, <3>2
    <3> QED BY <1>8, <3>1, <3>2, <3>3
  <2> QED BY <2>1, <2>2
<1>14. txn' = [txn EXCEPT ![s] = q] /\ unit' = unit /\ torn' = torn /\ grants' = grants
  BY <1>1, <1>9 DEF Request, H, R
<1>15. GrantsShape'
  BY <1>14 DEF TreeInv, GrantsShape, Existing
<1> QED BY <1>11, <1>12, <1>13, <1>14, <1>15, SessionsMove

(* A request that only goes on to its next step.                           *)
LEMMA OnlyTheStep ==
    ASSUME TreeInv, NEW s \in Sessions, NEW st \in Steps, NEW q,
           q = [txn[s] EXCEPT !.step = st]
    PROVE  /\ q \in Session /\ q.step = st /\ q.act = txn[s].act /\ q.on = txn[s].on
           /\ q.label = txn[s].label /\ q.grant = txn[s].grant /\ q.holds = txn[s].holds
           /\ q.reach = txn[s].reach /\ q.read = txn[s].read /\ q.found = txn[s].found
           /\ q.moved = txn[s].moved /\ q.overtaken = txn[s].overtaken
BY DEF TreeInv, SessionsShape, Session

LEMMA GoingLeavesTheTree ==
    ASSUME TreeInv, NEW s \in Sessions, NEW q, Go(s, q)
    PROVE  /\ txn' = [txn EXCEPT ![s] = q] /\ unit' = unit /\ torn' = torn
           /\ GrantsShape'
BY DEF TreeInv, GrantsShape, Go, Existing

LEMMA RollbacksMove ==
    ASSUME TreeInv, NEW s \in Sessions, Rollback(s)
    PROVE  TreeInv'
BY GoingLeavesTheTree, SessionsMove, IdleIsASession DEF Rollback

LEMMA ChecksMove ==
    ASSUME TreeInv, NEW s \in Sessions, AssertCanIn(s)
    PROVE  TreeInv'
<1>1. PICK q : q = [txn[s] EXCEPT !.step = "allowed"]
  OBVIOUS
<1>2. Go(s, q) /\ txn[s].step = "resolved"
  BY <1>1 DEF AssertCanIn, At
<1>3. "allowed" \in Steps
  BY DEF Steps
<1>4. Sensible(txn[s]) /\ WithinReach(txn[s])
  BY DEF TreeInv, SessionsShape
<1>5. q \in Session /\ Sensible(q) /\ Current(q) /\ WithinReach(q)
  BY <1>1, <1>2, <1>3, <1>4, OnlyTheStep DEF Sensible, Current, WithinReach
<1> QED BY <1>2, <1>5, GoingLeavesTheTree, SessionsMove

(* Both writers read a path of a unit that is there.                       *)
LEMMA ReadingMoves ==
    ASSUME TreeInv, NEW s \in Sessions, At(s, "allowed", {"create", "rename"}),
           txn[s].on \in Existing,
           Go(s, [txn[s] EXCEPT !.step = "read", !.read = unit[txn[s].on].path])
    PROVE  TreeInv'
<1>1. PICK q : q = [txn[s] EXCEPT !.step = "read", !.read = unit[txn[s].on].path]
  OBVIOUS
<1>2. Go(s, q)
  BY <1>1
<1>3. /\ unit[txn[s].on].path \in Seq(Labels) /\ unit[txn[s].on].path # <<>>
      /\ Sensible(txn[s]) /\ WithinReach(txn[s]) /\ txn[s] \in Session
  BY DEF TreeInv, TreeShape, SessionsShape, Existing, UnitRow
<1>4. "read" \in Steps
  BY DEF Steps
<1>5. /\ q.step = "read" /\ q.read = unit[txn[s].on].path /\ q.act = txn[s].act
      /\ q.on = txn[s].on /\ q.label = txn[s].label /\ q.grant = txn[s].grant
      /\ q.holds = txn[s].holds /\ q.reach = txn[s].reach /\ q.found = txn[s].found
      /\ q.moved = txn[s].moved /\ q.overtaken = txn[s].overtaken
      /\ q \in Session
  BY <1>1, <1>3, <1>4 DEF Session
<1>6. Sensible(q) /\ Current(q) /\ WithinReach(q)
  BY <1>3, <1>5 DEF At, Sensible, Current, WithinReach
<1> QED BY <1>2, <1>5, <1>6, GoingLeavesTheTree, SessionsMove

LEMMA FindingMoves ==
    ASSUME TreeInv, NEW s \in Sessions, FindDescendants(s)
    PROVE  TreeInv'
<1>1. PICK q : q = [txn[s] EXCEPT !.step = "found",
                       !.found = {v \in Existing : IsStrictPrefix(txn[s].read, unit[v].path)}]
  OBVIOUS
<1>2. Go(s, q)
  BY <1>1 DEF FindDescendants
<1>3. /\ Sensible(txn[s]) /\ Current(txn[s]) /\ txn[s] \in Session
      /\ txn[s].step = "read" /\ txn[s].act = "rename"
  BY DEF TreeInv, SessionsShape, FindDescendants, At
<1>4. "found" \in Steps
  BY DEF Steps
<1>5. /\ q.step = "found" /\ q.read = txn[s].read /\ q.act = txn[s].act
      /\ q.on = txn[s].on /\ q.label = txn[s].label /\ q.grant = txn[s].grant
      /\ q.holds = txn[s].holds /\ q.reach = txn[s].reach /\ q.found = Below(txn[s].read)
      /\ q.moved = txn[s].moved /\ q.overtaken = txn[s].overtaken
      /\ q \in Session
  BY <1>1, <1>3, <1>4 DEF Session, Below, Existing
<1>6. Sensible(q) /\ Current(q) /\ WithinReach(q)
  BY <1>3, <1>5 DEF Sensible, Current, WithinReach
<1> QED BY <1>2, <1>5, <1>6, GoingLeavesTheTree, SessionsMove

LEMMA MovingMoves ==
    ASSUME TreeInv, NEW s \in Sessions, MoveDescendants(s)
    PROVE  TreeInv'
<1> DEFINE F == IF NewPath(s) = txn[s].read THEN {}
                ELSE {v \in txn[s].found \cap Existing : IsStrictPrefix(txn[s].read, unit[v].path)}
<1>1. /\ Sensible(txn[s]) /\ Current(txn[s]) /\ txn[s] \in Session
      /\ txn[s].step = "found" /\ txn[s].act = "rename"
  BY DEF TreeInv, SessionsShape, MoveDescendants, At
<1>2. PICK q : q = [txn[s] EXCEPT !.step = "moved", !.moved = TRUE, !.found = F]
  OBVIOUS
<1>3. Go(s, q)
  BY <1>2 DEF MoveDescendants
<1>4. F \subseteq Units
  BY DEF Existing
<1>5. NewPath(s) = Relabelled(txn[s])
  BY DEF NewPath, Relabelled
<1>6. ~txn[s].overtaken => F = IF Relabelled(txn[s]) = txn[s].read THEN {} ELSE Below(txn[s].read)
  BY <1>1, <1>5 DEF Current, Below
<1> HIDE DEF F
<1>7. "moved" \in Steps
  BY DEF Steps
<1>8. /\ q.step = "moved" /\ q.read = txn[s].read /\ q.act = txn[s].act
      /\ q.on = txn[s].on /\ q.label = txn[s].label /\ q.grant = txn[s].grant
      /\ q.holds = txn[s].holds /\ q.reach = txn[s].reach /\ q.found = F
      /\ q.moved = TRUE /\ q.overtaken = txn[s].overtaken
      /\ q \in Session
  BY <1>1, <1>2, <1>4, <1>7 DEF Session
<1>9. Sensible(q) /\ Current(q) /\ WithinReach(q)
  BY <1>1, <1>6, <1>8 DEF Sensible, Current, WithinReach, Relabelled
<1> QED BY <1>3, <1>8, <1>9, GoingLeavesTheTree, SessionsMove

LEMMA CountingMoves ==
    ASSUME TreeInv, NEW s \in Sessions, CountBlockers(s)
    PROVE  TreeInv'
<1>1. PICK q : q = [txn[s] EXCEPT !.step = "counted"]
  OBVIOUS
<1>2. Go(s, q) /\ txn[s].step = "allowed" /\ txn[s].act = "delete"
  BY <1>1 DEF CountBlockers, At
<1>3. "counted" \in Steps
  BY DEF Steps
<1>4. Sensible(txn[s])
  BY DEF TreeInv, SessionsShape
<1>5. q \in Session /\ Sensible(q) /\ Current(q) /\ WithinReach(q)
  BY <1>1, <1>2, <1>3, <1>4, OnlyTheStep DEF Sensible, Current, WithinReach
<1> QED BY <1>2, <1>5, GoingLeavesTheTree, SessionsMove

(* Where no write was overtaken, whatever is closed downwards has every    *)
(* unit whose path says it is below one of its members.                    *)
LEMMA PathsReachDown ==
    ASSUME TreeShape, PathsFollowParents, torn = {},
           NEW C, \A w \in Existing : unit[w].parent \in C => w \in C,
           NEW u \in Existing, u \in C,
           NEW v \in Existing, IsPrefix(unit[u].path, unit[v].path)
    PROVE  v \in C
<1> DEFINE n == Len(unit[v].path)
           T == {k \in 0..n : \A w \in Existing :
                    IsPrefix(unit[u].path, unit[w].path) /\ Len(unit[w].path) <= k => w \in C}
<1>1. \A w \in Existing :
        /\ unit[w].path \in Seq(Labels) /\ unit[w].path # <<>> /\ Len(unit[w].path) \in Nat \ {0}
        /\ Len(Front(unit[w].path)) = Len(unit[w].path) - 1
  <2> TAKE w \in Existing
  <2>1. unit[w].path \in Seq(Labels) /\ unit[w].path # <<>>
    BY DEF TreeShape, Existing, UnitRow
  <2> QED BY <2>1, FrontOf
<1>2. n \in Nat
  BY <1>1
<1>3. 0 \in T
  BY <1>1, <1>2
<1>4. ASSUME NEW k \in 0..n, k # n, k \in T
      PROVE  k + 1 \in T
  <2>1. ASSUME NEW w \in Existing, IsPrefix(unit[u].path, unit[w].path), Len(unit[w].path) <= k + 1,
               u # w
        PROVE  w \in C
    <3>1. IsStrictPrefix(unit[u].path, unit[w].path)
      BY <2>1 DEF TreeShape, IsStrictPrefix
    <3>2. IsPrefix(unit[u].path, Front(unit[w].path)) /\ Len(unit[u].path) < Len(unit[w].path)
      BY <1>1, <3>1, StrictlyBelow
    <3>3. unit[w].parent # Nobody
      BY <1>1, <3>2 DEF TreeShape
    <3>4. unit[w].parent \in Existing /\ Front(unit[w].path) = unit[unit[w].parent].path
      BY <3>3 DEF TreeShape, PathsFollowParents
    <3>5. Len(unit[unit[w].parent].path) <= k
      BY <1>1, <2>1, <3>4
    <3> QED BY <1>4, <3>2, <3>4, <3>5
  <2>2. k + 1 \in 0..n
    BY <1>2, <1>4
  <2> QED BY <2>1, <2>2
<1>5. 0..n \subseteq T
  <2> HIDE DEF T, n
  <2> QED BY <1>2, <1>3, <1>4, UpTo
<1> QED BY <1>1, <1>2, <1>5

LEMMA GrantChecksMove ==
    ASSUME TreeInv, NEW s \in Sessions, CheckGrant(s)
    PROVE  TreeInv'
<1>1. PICK q : q = [txn[s] EXCEPT !.step = "counted"]
  OBVIOUS
<1>2. Go(s, q) /\ txn[s].step = "allowed" /\ txn[s].act \in {"assign", "revoke"}
  BY <1>1 DEF CheckGrant, At
<1>3. "counted" \in Steps
  BY DEF Steps
<1>4. Sensible(txn[s]) /\ WithinReach(txn[s]) /\ txn[s].grant \in Grant
  BY <1>2 DEF TreeInv, SessionsShape, Sensible
<1>5. q \in Session /\ Sensible(q) /\ Current(q)
  BY <1>1, <1>2, <1>3, <1>4, OnlyTheStep DEF Sensible, Current
<1>6. ASSUME txn[s].act = "assign", ~txn[s].overtaken, torn = {}
      PROVE  txn[s].grant.scope \in txn[s].reach
  <2> DEFINE holdings == {h \in txn[s].holds : h.role \in {txn[s].grant.role, "super_admin"}}
             scope == txn[s].grant.scope
             C == txn[s].reach
  <2>1. /\ \A v \in Existing : unit[v].parent \in C => v \in C
        /\ \A h \in holdings : IF h.scope = Everywhere THEN Units \cup {Everywhere} \subseteq C
                               ELSE h.scope \in Existing \cap C /\ h.path = unit[h.scope].path
    BY <1>2, <1>4, <1>6 DEF WithinReach
  <2>2. scope \in Units \cup {Everywhere}
    BY <1>4 DEF Grant
  <2>3. IF scope = Everywhere THEN \E h \in holdings : h.scope = Everywhere ELSE Covered(holdings, scope)
    BY DEF CheckGrant, CanAssignRole
  <2> HIDE DEF holdings, C, scope
  <2>4. CASE \E h \in holdings : h.scope = Everywhere
    BY <2>1, <2>2, <2>4 DEF scope, C
  <2>5. CASE scope \in Existing /\ \E h \in holdings : h.scope # Everywhere /\ IsPrefix(h.path, unit[scope].path)
    <3>1. PICK h \in holdings : h.scope # Everywhere /\ IsPrefix(h.path, unit[scope].path)
      BY <2>5
    <3>2. h.scope \in Existing /\ h.scope \in C /\ IsPrefix(unit[h.scope].path, unit[scope].path)
      BY <2>1, <3>1
    <3>3. scope \in C
      BY <1>6, <2>1, <2>5, <3>2, PathsReachDown DEF TreeInv
    <3> QED BY <3>3 DEF scope, C
  <2> QED BY <2>3, <2>4, <2>5 DEF Covered, IsWithinScope
<1>7. WithinReach(q)
  BY <1>1, <1>2, <1>3, <1>4, <1>6, OnlyTheStep DEF WithinReach
<1> QED BY <1>2, <1>5, <1>7, GoingLeavesTheTree, SessionsMove

LEMMA GrantsMove ==
    ASSUME TreeInv, NEW s \in Sessions, Assign(s) \/ Revoke(s)
    PROVE  TreeInv'
<1>1. txn' = [txn EXCEPT ![s] = Idle] /\ unit' = unit /\ torn' = torn
  BY DEF Assign, Revoke
<1>2. txn[s].act = "assign" /\ txn[s].step # "idle" => txn[s].grant \in Grant
  BY DEF TreeInv, SessionsShape, Sensible
<1>3. GrantsShape'
  BY <1>1, <1>2 DEF TreeInv, GrantsShape, Assign, Revoke, At, Existing
<1> QED BY <1>1, <1>3, IdleIsASession, SessionsMove

LEMMA InsertsChange ==
    ASSUME TreeInv, NEW s \in Sessions, NEW u \in Units, InsertChild(s, u)
    PROVE  TreeInv'
<1> DEFINE q == txn[s]
           path == Append(q.read, q.label)
           row == [exists |-> TRUE, parent |-> q.on, path |-> path]
<1>1. /\ q.step = "read" /\ q.act = "create" /\ q \in Session /\ Sensible(q) /\ Current(q)
      /\ q.on \in Existing /\ u \notin Existing
      /\ \A v \in Existing : unit[v].path # path
      /\ unit' = [unit EXCEPT ![u] = row]
      /\ torn' = IF q.overtaken THEN torn \cup {u} ELSE torn \ {u}
      /\ txn' = Overtake(s, Idle) /\ grants' = grants
  BY DEF InsertChild, At, TreeInv, SessionsShape
<1>2. path \in Seq(Labels) /\ path # <<>> /\ Front(path) = q.read
  <2>1. q.read \in Seq(Labels) /\ q.label \in Labels
    BY <1>1 DEF Session, Sensible
  <2> QED BY <2>1, AppendedTo
<1>3. q.on \in Units /\ q.on # u /\ q.on # Nobody
  BY <1>1, OrgTreeAssumption DEF Existing
<1>4. ~q.overtaken => q.read = unit[q.on].path
  BY <1>1 DEF Current
<1> HIDE DEF path
<1>5. row \in UnitRow
  BY <1>2, <1>3 DEF UnitRow
<1>6. /\ unit' \in [Units -> UnitRow] /\ Existing' = Existing \cup {u}
      /\ \A v \in Units : unit'[v] = IF v = u THEN row ELSE unit[v]
  BY <1>1, <1>5 DEF TreeInv, TreeShape, Existing
<1>7. TreeShape'
  <2>1. ASSUME NEW v \in Existing'
        PROVE  /\ unit'[v].path # <<>>
               /\ unit'[v].parent # Nobody => unit'[v].parent \in Existing'
               /\ unit'[v].parent = Nobody /\ v \notin torn' => Len(unit'[v].path) = 1
    BY <1>1, <1>2, <1>3, <1>6 DEF TreeInv, TreeShape
  <2>2. \A v, w \in Existing' : unit'[v].path = unit'[w].path => v = w
    BY <1>1, <1>6 DEF TreeInv, TreeShape, Existing
  <2> QED BY <1>6, <2>1, <2>2 DEF TreeShape
<1>8. PathsFollowParents'
  <2>1. ASSUME NEW v \in Existing', v \notin torn', unit'[v].parent # Nobody, unit'[v].parent \notin torn'
        PROVE  Front(unit'[v].path) = unit'[unit'[v].parent].path
    <3>1. CASE v = u
      <4>1. unit'[v] = row /\ unit'[q.on] = unit[q.on] /\ ~q.overtaken
        BY <1>1, <1>3, <1>6, <2>1, <3>1
      <4> QED BY <1>2, <1>4, <4>1
    <3>2. CASE v # u
      <4>1. v \in Existing /\ unit'[v] = unit[v] /\ unit[v].parent \in Existing
        BY <1>6, <2>1, <3>2 DEF TreeInv, TreeShape, Existing
      <4>2. unit[v].parent # u /\ unit'[unit[v].parent] = unit[unit[v].parent]
        BY <1>1, <1>6, <4>1 DEF Existing
      <4>3. v \notin torn /\ unit[v].parent \notin torn
        BY <1>1, <2>1, <3>2, <4>1, <4>2
      <4> QED BY <2>1, <4>1, <4>2, <4>3 DEF TreeInv, PathsFollowParents
    <3> QED BY <3>1, <3>2
  <2> QED BY <2>1 DEF PathsFollowParents
<1>9. GrantsShape'
  BY <1>1, <1>6 DEF TreeInv, GrantsShape
<1> QED BY <1>1, <1>7, <1>8, <1>9, TreesChange

LEMMA DeletesChange ==
    ASSUME TreeInv, NEW s \in Sessions, DeleteUnit(s)
    PROVE  TreeInv'
<1> DEFINE u == txn[s].on
<1>1. /\ u \in Existing /\ \A v \in Existing : unit[v].parent # u
      /\ unit' = [unit EXCEPT ![u] = Absent]
      /\ grants' = {g \in grants : g.scope # u}
      /\ torn' = torn \ {u}
      /\ txn' = Overtake(s, Idle)
  BY DEF DeleteUnit
<1>2. Absent \in UnitRow /\ Absent.exists = FALSE
  <2>1. <<>> \in Seq(Labels)
    BY EmptySeq
  <2> QED BY <2>1 DEF Absent, UnitRow
<1> HIDE DEF u
<1>3. /\ unit' \in [Units -> UnitRow]
      /\ \A v \in Units : unit'[v] = IF v = u THEN Absent ELSE unit[v]
  BY <1>1, <1>2 DEF TreeInv, TreeShape
<1>4. Existing' = Existing \ {u}
  BY <1>2, <1>3 DEF Existing
<1>5. \A v \in Existing' : v \in Existing /\ v # u /\ unit'[v] = unit[v]
  BY <1>3, <1>4 DEF Existing
<1>6. TreeShape'
  <2>1. ASSUME NEW v \in Existing'
        PROVE  /\ unit'[v].path # <<>>
               /\ unit'[v].parent # Nobody => unit'[v].parent \in Existing'
               /\ unit'[v].parent = Nobody /\ v \notin torn' => Len(unit'[v].path) = 1
    BY <1>1, <1>4, <1>5 DEF TreeInv, TreeShape
  <2>2. \A v, w \in Existing' : unit'[v].path = unit'[w].path => v = w
    BY <1>5 DEF TreeInv, TreeShape
  <2> QED BY <1>3, <2>1, <2>2 DEF TreeShape
<1>7. PathsFollowParents'
  <2>1. ASSUME NEW v \in Existing', v \notin torn', unit'[v].parent # Nobody, unit'[v].parent \notin torn'
        PROVE  Front(unit'[v].path) = unit'[unit'[v].parent].path
    <3>1. v \in Existing /\ v # u /\ unit'[v] = unit[v] /\ v \notin torn
      BY <1>1, <1>5, <2>1
    <3>2. unit[v].parent \in Existing /\ unit[v].parent # u
      BY <1>1, <2>1, <3>1 DEF TreeInv, TreeShape
    <3>3. unit'[unit[v].parent] = unit[unit[v].parent] /\ unit[v].parent \notin torn
      BY <1>1, <1>4, <1>5, <2>1, <3>1, <3>2
    <3> QED BY <2>1, <3>1, <3>3 DEF TreeInv, PathsFollowParents
  <2> QED BY <2>1 DEF PathsFollowParents
<1>8. GrantsShape'
  BY <1>1, <1>4 DEF TreeInv, GrantsShape
<1> QED BY <1>1, <1>6, <1>7, <1>8, TreesChange

(* A rename rewrites its unit and those it has locked.  Overtaken or not,  *)
(* the paths stay paths; not overtaken, it rewrites all that is below its  *)
(* unit, each unit as its parent.                                          *)
LEMMA RenamesChange ==
    ASSUME TreeInv, NEW s \in Sessions, CommitRename(s)
    PROVE  TreeInv'
<1> DEFINE q == txn[s]
           u == q.on
           new == NewPath(s)
           moving == q.found \cup {u}
           path(v) == IF v = u THEN new ELSE Moved(s, v)
<1>1. /\ q.step = "moved" /\ q.act = "rename" /\ q \in Session /\ Sensible(q) /\ Current(q)
      /\ u \in Existing
      /\ \A v \in moving, w \in Existing \ moving : path(v) # unit[w].path
      /\ \A v, w \in moving : path(v) = path(w) => v = w
      /\ unit' = [v \in Units |-> IF v \in moving THEN [unit[v] EXCEPT !.path = path(v)] ELSE unit[v]]
      /\ torn' = torn \cup (IF q.overtaken THEN moving ELSE {})
      /\ txn' = Overtake(s, Idle) /\ grants' = grants
  BY DEF CommitRename, At, TreeInv, SessionsShape
<1>2. q.read \in Seq(Labels) /\ q.read # <<>> /\ q.label \in Labels
  BY <1>1 DEF Session, Sensible
<1>3. /\ new \in Seq(Labels) /\ new # <<>> /\ Front(new) = Front(q.read)
      /\ Len(new) = Len(q.read) /\ Len(q.read) \in Nat \ {0}
  <2>1. /\ Front(q.read) \in Seq(Labels) /\ Len(Front(q.read)) = Len(q.read) - 1
        /\ Len(q.read) \in Nat \ {0}
    BY <1>2, FrontOf
  <2> QED BY <1>2, <2>1, AppendedTo DEF NewPath
<1>4. \A v \in Units : Moved(s, v) = new \o SubSeq(unit[v].path, Len(q.read) + 1, Len(unit[v].path))
  BY DEF Moved
<1>5. \A v \in Units : unit[v] \in UnitRow /\ unit[v].path \in Seq(Labels)
  BY DEF TreeInv, TreeShape, UnitRow
<1>6. moving \subseteq Units
  BY <1>1 DEF Session, Existing
<1> HIDE DEF new, q
<1>7. \A v \in Units : path(v) \in Seq(Labels) /\ path(v) # <<>>
  <2> TAKE v \in Units
  <2>1. Moved(s, v) \in Seq(Labels) /\ Moved(s, v) # <<>>
    <3>1. unit[v].path \in Seq(Labels)
      BY <1>5
    <3>2. /\ new \o SubSeq(unit[v].path, Len(q.read) + 1, Len(unit[v].path)) \in Seq(Labels)
          /\ new \o SubSeq(unit[v].path, Len(q.read) + 1, Len(unit[v].path)) # <<>>
      BY <1>2, <1>3, <3>1, Transplanted
    <3> QED BY <1>4, <3>2
  <2> QED BY <1>3, <2>1
<1>8. \A v \in Units : /\ unit'[v] \in UnitRow /\ unit'[v].exists = unit[v].exists
                       /\ unit'[v].parent = unit[v].parent
                       /\ unit'[v].path = IF v \in moving THEN path(v) ELSE unit[v].path
  <2> TAKE v \in Units
  <2> DEFINE p == path(v)
  <2>1. unit'[v] = IF v \in moving THEN [unit[v] EXCEPT !.path = p] ELSE unit[v]
    BY <1>1
  <2>2. p \in Seq(Labels) /\ unit[v] \in UnitRow
    BY <1>5, <1>7
  <2> HIDE DEF p, moving
  <2>3. /\ unit'[v] \in UnitRow /\ unit'[v].exists = unit[v].exists
        /\ unit'[v].parent = unit[v].parent
        /\ unit'[v].path = IF v \in moving THEN p ELSE unit[v].path
    BY <2>1, <2>2 DEF UnitRow
  <2> QED BY <2>3 DEF p
<1>9. unit' \in [Units -> UnitRow] /\ Existing' = Existing
  BY <1>1, <1>8 DEF Existing
<1>10. ASSUME ~q.overtaken
       PROVE  /\ q.read = unit[u].path
              /\ q.found = IF new = q.read THEN {} ELSE Below(q.read)
  BY <1>1, <1>10 DEF Current, Relabelled, new, NewPath, q
<1>11. ASSUME ~q.overtaken, new # q.read, NEW v \in Existing, v # u
       PROVE  v \in moving <=> IsStrictPrefix(q.read, unit[v].path)
  BY <1>10, <1>11 DEF Below
<1>12. TreeShape'
  <2>1. \A v \in Existing' : unit'[v].path # <<>>
    BY <1>7, <1>8, <1>9 DEF TreeInv, TreeShape, Existing
  <2>2. \A v \in Existing' : unit'[v].parent # Nobody => unit'[v].parent \in Existing'
    BY <1>8, <1>9 DEF TreeInv, TreeShape, Existing
  <2>3. ASSUME NEW v \in Existing', unit'[v].parent = Nobody, v \notin torn'
        PROVE  Len(unit'[v].path) = 1
    <3>1. v \in Existing /\ v \in Units /\ unit[v].parent = Nobody /\ v \notin torn
      BY <1>1, <1>8, <1>9, <2>3 DEF Existing
    <3>2. Len(unit[v].path) = 1 /\ unit[v].path # <<>>
      BY <3>1 DEF TreeInv, TreeShape
    <3>3. CASE v \notin moving
      BY <1>8, <3>1, <3>2, <3>3
    <3>4. CASE v \in moving
      <4>1. ~q.overtaken
        BY <1>1, <2>3, <3>4
      <4>2. v = u
        <5> SUFFICES ASSUME v # u PROVE FALSE
          OBVIOUS
        <5>1. v \in Below(q.read)
          BY <1>10, <3>4, <4>1
        <5>2. IsStrictPrefix(q.read, unit[v].path)
          BY <5>1 DEF Below
        <5>3. Len(q.read) < Len(unit[v].path)
          BY <1>2, <1>5, <3>1, <3>2, <5>2, StrictlyBelow
        <5> QED BY <1>3, <3>2, <5>3
      <4>3. q.read = unit[v].path /\ unit'[v].path = new
        BY <1>8, <1>10, <3>1, <3>4, <4>1, <4>2
      <4> QED BY <1>3, <3>2, <4>3
    <3> QED BY <3>3, <3>4
  <2>4. \A v, w \in Existing' : unit'[v].path = unit'[w].path => v = w
    <3> TAKE v, w \in Existing'
    <3>1. v \in Existing /\ w \in Existing /\ v \in Units /\ w \in Units
      BY <1>9 DEF Existing
    <3>2. /\ unit'[v].path = IF v \in moving THEN path(v) ELSE unit[v].path
          /\ unit'[w].path = IF w \in moving THEN path(w) ELSE unit[w].path
      BY <1>8, <3>1
    <3> HIDE DEF path, moving
    <3> QED BY <1>1, <3>1, <3>2 DEF TreeInv, TreeShape
  <2> QED BY <1>9, <2>1, <2>2, <2>3, <2>4 DEF TreeShape
<1>13. PathsFollowParents'
  <2>1. ASSUME NEW v \in Existing', v \notin torn', unit'[v].parent # Nobody, unit'[v].parent \notin torn'
        PROVE  Front(unit'[v].path) = unit'[unit'[v].parent].path
    <3> DEFINE w == unit[v].parent
    <3>1. v \in Existing /\ v \in Units /\ unit'[v].parent = w
      BY <1>8, <1>9, <2>1 DEF Existing
    <3>2. w \in Existing /\ w \in Units /\ v \notin torn /\ w \notin torn
      BY <1>1, <2>1, <3>1 DEF TreeInv, TreeShape, Existing
    <3>3. Front(unit[v].path) = unit[w].path /\ unit[v].path # <<>>
      BY <2>1, <3>1, <3>2 DEF TreeInv, TreeShape, PathsFollowParents
    <3>4. /\ unit'[v].path = IF v \in moving THEN path(v) ELSE unit[v].path
          /\ unit'[w].path = IF w \in moving THEN path(w) ELSE unit[w].path
      BY <1>8, <3>1, <3>2
    <3> HIDE DEF w
    <3>5. CASE v \notin moving /\ w \notin moving
      BY <3>1, <3>3, <3>4, <3>5
    <3>6. CASE v \in moving \/ w \in moving
      <4>1. ~q.overtaken
        BY <1>1, <2>1, <3>1, <3>6
      <4>2. q.read = unit[u].path /\ u \in Existing
        BY <1>1, <1>10, <4>1
      <4>3. CASE new = q.read
        <5>1. moving = {u} /\ unit'[v].path = unit[v].path /\ unit'[w].path = unit[w].path
          BY <1>10, <3>4, <4>1, <4>2, <4>3
        <5> QED BY <3>1, <3>3, <5>1
      <4>4. CASE new # q.read
        <5>1. /\ v # u => (v \in moving <=> IsStrictPrefix(q.read, unit[v].path))
              /\ w # u => (w \in moving <=> IsStrictPrefix(q.read, unit[w].path))
          BY <1>11, <3>1, <3>2, <4>1, <4>4
        <5>2. IsStrictPrefix(q.read, unit[v].path) <=> IsPrefix(q.read, unit[w].path)
          BY <1>2, <1>5, <3>1, <3>3, StrictlyBelow
        <5>3. IsPrefix(q.read, unit[w].path) <=> IsStrictPrefix(q.read, unit[w].path) \/ w = u
          <6>1. q.read = unit[w].path <=> w = u
            BY <3>2, <4>2 DEF TreeInv, TreeShape
          <6>2. IsPrefix(q.read, q.read)
            BY <1>2, PrefixOf, LenProperties
          <6> QED BY <4>2, <6>1, <6>2 DEF IsStrictPrefix
        <5>4. w \in moving <=> IsStrictPrefix(q.read, unit[v].path)
          BY <5>1, <5>2, <5>3
        <5>5. CASE v = u
          <6>1. ~IsStrictPrefix(q.read, unit[v].path)
            BY <4>2, <5>5 DEF IsStrictPrefix
          <6>2. unit'[v].path = new /\ unit'[w].path = unit[w].path
            BY <3>4, <5>4, <5>5, <6>1
          <6>3. Front(new) = unit[w].path
            BY <1>3, <3>3, <4>2, <5>5
          <6> QED BY <3>1, <6>2, <6>3
        <5>6. CASE v # u
          <6>1. v \in moving /\ w \in moving /\ IsStrictPrefix(q.read, unit[v].path)
            BY <3>6, <5>1, <5>4, <5>6
          <6>2. unit'[v].path = new \o SubSeq(unit[v].path, Len(q.read) + 1, Len(unit[v].path))
            BY <1>4, <3>1, <3>4, <5>6, <6>1
          <6>3. unit'[w].path = IF w = u THEN new
                                ELSE new \o SubSeq(unit[w].path, Len(q.read) + 1, Len(unit[w].path))
            BY <1>4, <3>2, <3>4, <6>1
          <6>4. w = u <=> unit[w].path = q.read
            BY <3>2, <4>2 DEF TreeInv, TreeShape
          <6>5. Front(unit'[v].path)
                  = IF unit[w].path = q.read THEN new
                    ELSE new \o SubSeq(unit[w].path, Len(q.read) + 1, Len(unit[w].path))
            <7>1. unit[v].path \in Seq(Labels)
              BY <1>5, <3>1
            <7> QED BY <1>2, <1>3, <3>3, <6>1, <6>2, <7>1, FrontsAreTransplanted
          <6> QED BY <3>1, <6>3, <6>4, <6>5
        <5> QED BY <5>5, <5>6
      <4> QED BY <4>3, <4>4
    <3> QED BY <3>5, <3>6
  <2> QED BY <2>1 DEF PathsFollowParents
<1>14. GrantsShape'
  BY <1>1, <1>9 DEF TreeInv, GrantsShape
<1> QED BY <1>1, <1>12, <1>13, <1>14, TreesChange

(* Every step of the tree keeps the invariant.                             *)
LEMMA TreeSteps == TreeInv /\ [OrgTreeNext]_tvars => TreeInv'
<1> SUFFICES ASSUME TreeInv, [OrgTreeNext]_tvars PROVE TreeInv'
  OBVIOUS
<1>1. ASSUME unit' = unit, torn' = torn, txn' = txn, grants' = grants
      PROVE  TreeInv'
  <2>1. Existing' = Existing /\ \A path : Below(path)' = Below(path)
    BY <1>1 DEF Existing, Below
  <2>2. TreeShape' /\ PathsFollowParents' /\ GrantsShape'
    BY <1>1, <2>1 DEF TreeInv, TreeShape, PathsFollowParents, GrantsShape
  <2>3. SessionsShape'
    BY <1>1, <2>1 DEF TreeInv, SessionsShape, Sensible, Current, WithinReach, Relabelled
  <2> QED BY <2>2, <2>3 DEF TreeInv
<1>2. CASE UNCHANGED tvars \/ \E p \in People, u \in Units : Transfer(p, u)
  BY <1>1, <1>2 DEF tvars, Transfer
<1>3. ASSUME NEW s \in Sessions, NEW p \in People, Ask(s, p)
      PROVE  TreeInv'
  BY <1>3, RequestsArrive
<1>4. ASSUME NEW s \in Sessions, Rollback(s) \/ AssertCanIn(s)
      PROVE  TreeInv'
  BY <1>4, RollbacksMove, ChecksMove
<1>5. ASSUME NEW s \in Sessions, NEW u \in Units, ReadParent(s, u)
      PROVE  TreeInv'
  BY <1>5, ReadingMoves DEF ReadParent, At
<1>6. ASSUME NEW s \in Sessions, ReadOwnPath(s)
      PROVE  TreeInv'
  BY <1>6, ReadingMoves DEF ReadOwnPath, At
<1>7. ASSUME NEW s \in Sessions,
             FindDescendants(s) \/ MoveDescendants(s) \/ CountBlockers(s) \/ CheckGrant(s)
      PROVE  TreeInv'
  BY <1>7, FindingMoves, MovingMoves, CountingMoves, GrantChecksMove
<1>8. ASSUME NEW s \in Sessions, Assign(s) \/ Revoke(s)
      PROVE  TreeInv'
  BY <1>8, GrantsMove
<1>9. ASSUME NEW s \in Sessions, NEW u \in Units, InsertChild(s, u)
      PROVE  TreeInv'
  BY <1>9, InsertsChange
<1>10. ASSUME NEW s \in Sessions, CommitRename(s) \/ DeleteUnit(s)
       PROVE  TreeInv'
  BY <1>10, RenamesChange, DeletesChange
<1> QED BY <1>2, <1>3, <1>4, <1>5, <1>6, <1>7, <1>8, <1>9, <1>10 DEF OrgTreeNext

(* The tree and everything in progress on it stay as described, through    *)
(* any requests of any number of sessions.                                 *)
THEOREM TreeInvariance == OrgTreeSpec => []TreeInv
<1> QED BY TreeStarts, TreeSteps, PTL DEF OrgTreeSpec

(* Creations, renames of whole subtrees and deletions, in any number and   *)
(* interleaved statement by statement, leave a unit with a path that is    *)
(* its parent's and its own label, unless the write that gave one of the   *)
(* two its path was overtaken by another.                                  *)
THEOREM PathsFollow == OrgTreeSpec => []PathsFollowParents
<1>1. TreeInv => PathsFollowParents
  BY DEF TreeInv
<1> QED BY <1>1, TreeInvariance, PTL

(* Whatever the scopes are, an administrator whose request no write of     *)
(* the tree overtook grants a role only at or below what the administrator *)
(* held it for when the request arrived: the check of paths that lets the  *)
(* grant through has the tree's own answer.                                *)
THEOREM GrantsKeepToTheSubtree == OrgTreeSpec => GrantsStayInReach
<1> DEFINE Kept == \A s \in Sessions :
                      txn[s].act = "assign" /\ ~txn[s].overtaken /\ torn = {} /\
                      txn[s].grant \in grants' \ grants /\ txn'[s] # txn[s]
                          => txn[s].grant.scope \in txn[s].reach
<1>1. ASSUME TreeInv, [OrgTreeNext]_tvars
      PROVE  [Kept]_tvars
  <2> SUFFICES ASSUME OrgTreeNext,
                      NEW s \in Sessions, txn[s].act = "assign", ~txn[s].overtaken, torn = {},
                      txn[s].grant \in grants' \ grants, txn'[s] # txn[s]
               PROVE  txn[s].grant.scope \in txn[s].reach
    BY <1>1
  <2>0. ~UNCHANGED grants
    OBVIOUS
  <2>1. PICK t \in Sessions : Assign(t)
    <3>1. ASSUME NEW t \in Sessions
          PROVE  /\ \A p \in People : Ask(t, p) => UNCHANGED grants
                 /\ Rollback(t) \/ AssertCanIn(t) => UNCHANGED grants
                 /\ \A u \in Units : ReadParent(t, u) \/ InsertChild(t, u) => UNCHANGED grants
      BY DEF Ask, Request, Rollback, AssertCanIn, ReadParent, InsertChild, Go
    <3>2. ASSUME NEW t \in Sessions
          PROVE  ReadOwnPath(t) \/ FindDescendants(t) \/ MoveDescendants(t) \/ CommitRename(t)
                     => UNCHANGED grants
      BY DEF ReadOwnPath, FindDescendants, MoveDescendants, CommitRename, Go
    <3>3. ASSUME NEW t \in Sessions
          PROVE  CountBlockers(t) \/ DeleteUnit(t) \/ CheckGrant(t) => UNCHANGED grants
      BY DEF CountBlockers, DeleteUnit, CheckGrant, Go
    <3>4. ASSUME NEW t \in Sessions, Revoke(t) PROVE ~(txn[s].grant \in grants' \ grants)
      BY <3>4 DEF Revoke
    <3>5. \A p \in People, u \in Units : Transfer(p, u) => UNCHANGED grants
      BY DEF Transfer
    <3> QED BY <2>0, <3>1, <3>2, <3>3, <3>4, <3>5 DEF OrgTreeNext
  <2>2. txn' = [txn EXCEPT ![t] = Idle] /\ txn \in [Sessions -> Session]
    BY <1>1, <2>1 DEF Assign, TreeInv, SessionsShape
  <2>3. s = t
    BY <2>2
  <2>4. txn[s].step = "counted"
    BY <2>1, <2>3 DEF Assign, At
  <2> QED BY <1>1, <2>4 DEF TreeInv, SessionsShape, WithinReach
<1> QED BY <1>1, TreeInvariance, PTL DEF OrgTreeSpec, GrantsStayInReach

(* A scope check by paths answers what the tree would, for every pair of   *)
(* units and across organisations, as long as no write was overtaken.      *)
THEOREM ScopesAreSubtrees == OrgTreeSpec => []ScopeIsTheSubtree
<1>1. ASSUME TreeInv, torn = {}, NEW u \in Existing
      PROVE  FindSubtree(u) = Subtree(u)
  <2>0. u \in Units /\ IsFiniteSet(Units) /\ \A v \in Existing : v \in Units
    BY OrgTreeAssumption DEF Existing
  <2>1. \A v \in Existing : unit[v].path \in Seq(Labels) /\ unit[v].path # <<>>
    BY <1>1 DEF TreeInv, TreeShape, Existing, UnitRow
  <2>2. FindSubtree(u) \subseteq Subtree(u)
    <3> SUFFICES ASSUME NEW v \in Existing, IsPrefix(unit[u].path, unit[v].path)
                 PROVE  v \in Subtree(u)
      BY DEF FindSubtree, IsWithinScope
    <3>1. u \in Subtree(u) /\ \A w \in Existing : unit[w].parent \in Subtree(u) => w \in Subtree(u)
      BY <2>0, SubtreeIsClosed
    <3> QED BY <1>1, <3>1, PathsReachDown DEF TreeInv
  <2>3. Subtree(u) \subseteq FindSubtree(u)
    <3>1. u \in FindSubtree(u)
      <4>1. IsPrefix(unit[u].path, unit[u].path)
        BY <2>1, PrefixOf, LenProperties
      <4> QED BY <4>1 DEF FindSubtree, IsWithinScope
    <3>2. ASSUME NEW v \in Existing, unit[v].parent \in FindSubtree(u)
          PROVE  v \in FindSubtree(u)
      <4>1. unit[v].parent \in Existing /\ IsPrefix(unit[u].path, unit[unit[v].parent].path)
        BY <3>2 DEF FindSubtree, IsWithinScope
      <4>2. unit[v].parent # Nobody
        BY <4>1, OrgTreeAssumption DEF Existing
      <4>3. Front(unit[v].path) = unit[unit[v].parent].path
        BY <1>1, <4>2 DEF TreeInv, PathsFollowParents
      <4>4. IsStrictPrefix(unit[u].path, unit[v].path)
        BY <2>1, <4>1, <4>3, StrictlyBelow
      <4> QED BY <4>4 DEF FindSubtree, IsWithinScope, IsStrictPrefix
    <3> QED BY <2>0, <3>1, <3>2, SubtreeIsLeast
  <2> QED BY <2>2, <2>3
<1>2. TreeInv => ScopeIsTheSubtree
  BY <1>1 DEF ScopeIsTheSubtree
<1> QED BY <1>2, TreeInvariance, PTL
=============================================================================
