---------------------------- MODULE ExecutorProofs ----------------------------
(* Proofs about Topology and Executor, for any documents, servers and limits. *)
EXTENDS Executor, RecursionProofs, FiniteSetTheorems

-----------------------------------------------------------------------------
(* What the recursive functions of Topology compute *)

Ids(nodes) == ToSet(nodes)
States(nodes) ==
  [order : Seq(Ids(nodes)), ready : Seq(Ids(nodes)), indegree : [Ids(nodes) -> Int]]

LEMMA Members ==
  ASSUME NEW S, NEW s \in Seq(S)
  PROVE  ToSet(s) = {s[k] : k \in 1..Len(s)}
BY DEF ToSet

LEMMA ReleaseInStates ==
  ASSUME NEW nodes, NEW t \in States(nodes), NEW id \in Ids(nodes)
  PROVE  /\ Release(t, id) \in States(nodes)
         /\ Release(t, id).order = t.order
         /\ Release(t, id).ready = IF t.indegree[id] = 1 THEN Append(t.ready, id) ELSE t.ready
         /\ Release(t, id).indegree = [t.indegree EXCEPT ![id] = t.indegree[id] - 1]
<1> DEFINE r == IF t.indegree[id] = 1 THEN Append(t.ready, id) ELSE t.ready
           d == [t.indegree EXCEPT ![id] = t.indegree[id] - 1]
<1>1. t.order \in Seq(Ids(nodes)) /\ t.ready \in Seq(Ids(nodes)) /\ t.indegree \in [Ids(nodes) -> Int]
  BY DEF States
<1>2. Release(t, id) = [order |-> t.order, ready |-> r, indegree |-> d]
  BY <1>1 DEF Release, States
<1>3. r \in Seq(Ids(nodes)) /\ d \in [Ids(nodes) -> Int]
  BY <1>1
<1> HIDE DEF r, d
<1>4. Release(t, id) \in States(nodes)
  BY <1>1, <1>2, <1>3 DEF States
<1> QED BY <1>2, <1>4 DEF r, d

\* Releasing along the first n edges, as Shift does.
Released(nodes, edges, s, g) ==
  g = [n \in 0..Len(edges) |->
         IF n = 0
         THEN [order |-> Append(s.order, Head(s.ready)), ready |-> Tail(s.ready),
               indegree |-> s.indegree]
         ELSE IF edges[n].source = Head(s.ready) /\ Live(nodes, edges[n])
              THEN Release(g[n - 1], edges[n].target)
              ELSE g[n - 1]]

LEMMA ShiftReleases ==
  ASSUME NEW N, NEW nodes \in Seq(N), NEW edges \in Seq([source : N, target : N]),
         NEW s \in States(nodes),
         Head(s.ready) \in Ids(nodes), Tail(s.ready) \in Seq(Ids(nodes))
  PROVE  \E g \in [0..Len(edges) -> States(nodes)] :
            Released(nodes, edges, s, g) /\ Shift(nodes, edges, s) = g[Len(edges)]
<1> DEFINE n == Len(edges)
           S == States(nodes)
           V == Ids(nodes)
           c == [order |-> Append(s.order, Head(s.ready)), ready |-> Tail(s.ready),
                 indegree |-> s.indegree]
           Go(t, k) == IF edges[k].source = Head(s.ready) /\ Live(nodes, edges[k])
                         THEN Release(t, edges[k].target) ELSE t
           F == [k \in 1..n |-> [t \in S |-> Go(t, k)]]
<1>1. n \in Nat
  OBVIOUS
<1>2. c \in S
  <2>1. s.order \in Seq(V) /\ s.ready \in Seq(V) /\ s.indegree \in [V -> Int]
    BY DEF States
  <2>3. Append(s.order, Head(s.ready)) \in Seq(V)
    BY <2>1
  <2> QED BY <2>1, <2>3 DEF States
<1>3. ASSUME NEW t \in S, NEW k \in 1..n PROVE Go(t, k) \in S
  <2>1. CASE Live(nodes, edges[k])
    <3>1. edges[k].target \in Ids(nodes)
      BY <2>1 DEF Live, Ids
    <3>2. Release(t, edges[k].target) \in S
      BY <3>1, ReleaseInStates
    <3> QED BY <3>2
  <2> QED BY <2>1
<1>4. F \in Steps(S, n)
  <2> HIDE DEF S, Go
  <2> QED BY <1>3 DEF Steps
<1>5. PICK h : Recurs(h, S, c, n, F)
  <2> HIDE DEF S, c, F, n
  <2> QED BY <1>1, <1>2, <1>4, Recursion
<1>6. Released(nodes, edges, s, h)
  <2>1. \A k \in 1..n : F[k][h[k - 1]] = Go(h[k - 1], k)
    <3> HIDE DEF S, Go, n
    <3>1. \A k \in 1..n : k - 1 \in 0..n
      BY <1>1
    <3> QED BY <1>5, <3>1 DEF Recurs
  <2>2. h = [k \in 0..n |-> IF k = 0 THEN c ELSE Go(h[k - 1], k)]
    <3> HIDE DEF F, Go, c, n
    <3>1. \A k \in 0..n : k # 0 => k \in 1..n
      BY <1>1
    <3> QED BY <1>5, <2>1, <3>1 DEF Recurs
  <2> QED BY <2>2 DEF Released
<1> DEFINE g == CHOOSE x : Released(nodes, edges, s, x)
<1>7. Released(nodes, edges, s, g)
  BY <1>6
<1>8. Shift(nodes, edges, s) = g[n]
  BY DEF Shift, Released
<1>9. g \in [0..n -> S]
  <2> DEFINE T == {k \in 0..n : g[k] \in S}
  <2> HIDE DEF S, g
  <2>1. g = [k \in 0..n |-> IF k = 0 THEN c ELSE Go(g[k - 1], k)]
    BY <1>7 DEF Released
  <2> HIDE DEF c, Go
  <2>2. 0 \in T
    BY <1>1, <1>2, <2>1
  <2>3. ASSUME NEW k \in 1..n, k - 1 \in T PROVE k \in T
    BY <1>3, <2>1, <2>3
  <2>4. \A k \in 0..n : k \in T
    <3> HIDE DEF T
    <3> QED BY <1>1, <2>2, <2>3, UpTo
  <2> QED BY <2>1, <2>4
<1> HIDE DEF g
<1> QED BY <1>7, <1>8, <1>9

-----------------------------------------------------------------------------
(* The queue *)

Unique(s) == \A x, y \in 1..Len(s) : s[x] = s[y] => x = y

\* The order and the queue of a state in which each node id still waits for the
\* edges wait[id].
QueueInv(nodes, edges, s, wait) ==
  /\ s \in States(nodes)
  /\ Unique(s.order) /\ Unique(s.ready) /\ ToSet(s.order) \cap ToSet(s.ready) = {}
  /\ \A id \in Ids(nodes) :
       /\ s.indegree[id] = Cardinality(wait[id])
       /\ s.indegree[id] = 0 <=> id \in ToSet(s.order) \cup ToSet(s.ready)
  /\ \A y \in 1..Len(s.order) : \A k \in incoming(nodes, edges, s.order[y]) :
       \E x \in 1..Len(s.order) : x < y /\ s.order[x] = edges[k].source

LEMMA AppendUnique ==
  ASSUME NEW S, NEW s \in Seq(S), NEW e \in S
  PROVE  /\ ToSet(Append(s, e)) = ToSet(s) \cup {e}
         /\ Unique(s) /\ e \notin ToSet(s) => Unique(Append(s, e))
<1>1. /\ Append(s, e) \in Seq(S) /\ Len(s) \in Nat /\ Len(Append(s, e)) = Len(s) + 1
      /\ Append(s, e)[Len(s) + 1] = e /\ \A k \in 1..Len(s) : Append(s, e)[k] = s[k]
  OBVIOUS
<1>2. ToSet(s) = {s[k] : k \in 1..Len(s)}
  BY Members
<1>3. ToSet(Append(s, e)) = {Append(s, e)[k] : k \in 1..(Len(s) + 1)}
  BY <1>1, Members
<1>4. ToSet(Append(s, e)) = ToSet(s) \cup {e}
  BY <1>1, <1>2, <1>3
<1>5. ASSUME Unique(s), e \notin ToSet(s) PROVE Unique(Append(s, e))
  BY <1>1, <1>2, <1>5 DEF Unique
<1> QED BY <1>4, <1>5

LEMMA HeadAndTail ==
  ASSUME NEW S, NEW s \in Seq(S), s # <<>>
  PROVE  /\ Head(s) \in S /\ Tail(s) \in Seq(S)
         /\ ToSet(s) = {Head(s)} \cup ToSet(Tail(s))
         /\ Unique(s) => Unique(Tail(s)) /\ Head(s) \notin ToSet(Tail(s))
<1>1. /\ Head(s) = s[1] /\ Head(s) \in S /\ Tail(s) \in Seq(S) /\ Len(s) \in Nat \ {0}
      /\ Len(Tail(s)) = Len(s) - 1 /\ \A k \in 1..(Len(s) - 1) : Tail(s)[k] = s[k + 1]
  OBVIOUS
<1>2. ToSet(s) = {s[k] : k \in 1..Len(s)}
  BY Members
<1>3. ToSet(Tail(s)) = {Tail(s)[k] : k \in 1..(Len(s) - 1)}
  BY <1>1, Members
<1>4. ToSet(s) = {Head(s)} \cup ToSet(Tail(s))
  <2>1. \A k \in 1..Len(s) : k = 1 \/ (k - 1 \in 1..(Len(s) - 1) /\ s[k] = Tail(s)[k - 1])
    BY <1>1
  <2>2. \A k \in 1..(Len(s) - 1) : k + 1 \in 1..Len(s) /\ Tail(s)[k] = s[k + 1]
    BY <1>1
  <2>3. 1 \in 1..Len(s) /\ s[1] = Head(s)
    BY <1>1
  <2>4. ToSet(s) \subseteq {Head(s)} \cup ToSet(Tail(s))
    BY <1>2, <1>3, <2>1, <2>3
  <2>5. {Head(s)} \cup ToSet(Tail(s)) \subseteq ToSet(s)
    BY <1>2, <1>3, <2>2, <2>3
  <2> QED BY <2>4, <2>5
<1>5. ASSUME Unique(s) PROVE Unique(Tail(s)) /\ Head(s) \notin ToSet(Tail(s))
  BY <1>1, <1>3, <1>5 DEF Unique
<1> QED BY <1>1, <1>4, <1>5

\* One edge e less for t to wait for.
LEMMA ReleaseKeeps ==
  ASSUME NEW nodes, NEW edges, NEW s, NEW wait, QueueInv(nodes, edges, s, wait),
         NEW t \in Ids(nodes), NEW e \in wait[t], NEW less,
         \A id \in Ids(nodes) : IsFiniteSet(wait[id]),
         less[t] = wait[t] \ {e},
         \A id \in Ids(nodes) : id # t => less[id] = wait[id]
  PROVE  QueueInv(nodes, edges, Release(s, t), less) /\ Release(s, t).order = s.order
<1> DEFINE r == Release(s, t)
<1>1. s \in States(nodes) /\ s.order \in Seq(Ids(nodes)) /\ s.ready \in Seq(Ids(nodes))
      /\ s.indegree \in [Ids(nodes) -> Int]
  BY DEF QueueInv, States
<1>2. /\ r \in States(nodes) /\ r.order = s.order
      /\ r.ready = IF s.indegree[t] = 1 THEN Append(s.ready, t) ELSE s.ready
      /\ r.indegree = [s.indegree EXCEPT ![t] = s.indegree[t] - 1]
  BY <1>1, ReleaseInStates
<1> HIDE DEF r
<1>3. /\ Cardinality(wait[t]) \in Nat /\ Cardinality(less[t]) = Cardinality(wait[t]) - 1
      /\ Cardinality(less[t]) \in Nat
  BY FS_RemoveElement, FS_CardinalityType
<1>4. s.indegree[t] = Cardinality(wait[t]) /\ s.indegree[t] # 0
      /\ t \notin ToSet(s.order) \cup ToSet(s.ready)
  BY <1>3 DEF QueueInv
<1>5. Unique(r.ready) /\ ToSet(r.ready) = ToSet(s.ready) \cup {x \in {t} : s.indegree[t] = 1}
  BY <1>1, <1>2, <1>4, AppendUnique DEF QueueInv
<1>6. \A id \in Ids(nodes) :
        /\ r.indegree[id] = Cardinality(less[id])
        /\ r.indegree[id] = 0 <=> id \in ToSet(r.order) \cup ToSet(r.ready)
  <2> SUFFICES ASSUME NEW id \in Ids(nodes)
               PROVE  /\ r.indegree[id] = Cardinality(less[id])
                      /\ r.indegree[id] = 0 <=> id \in ToSet(r.order) \cup ToSet(r.ready)
    OBVIOUS
  <2>1. CASE id = t
    <3>1. r.indegree[id] = s.indegree[t] - 1
      BY <1>1, <1>2, <2>1
    <3>2. r.indegree[id] = 0 <=> s.indegree[t] = 1
      BY <1>3, <1>4, <3>1
    <3>3. t \in ToSet(r.order) \cup ToSet(r.ready) <=> s.indegree[t] = 1
      BY <1>2, <1>4, <1>5
    <3> QED BY <1>3, <1>4, <2>1, <3>1, <3>2, <3>3
  <2>2. CASE id # t
    <3>1. r.indegree[id] = s.indegree[id]
      BY <1>1, <1>2, <2>2
    <3>2. /\ s.indegree[id] = Cardinality(wait[id])
          /\ s.indegree[id] = 0 <=> id \in ToSet(s.order) \cup ToSet(s.ready)
      BY DEF QueueInv
    <3> QED BY <1>2, <1>5, <2>2, <3>1, <3>2
  <2> QED BY <2>1, <2>2
<1>7. ToSet(r.order) \cap ToSet(r.ready) = {}
  BY <1>2, <1>4, <1>5 DEF QueueInv
<1>8. QueueInv(nodes, edges, r, less)
  BY <1>2, <1>5, <1>6, <1>7 DEF QueueInv
<1> QED BY <1>2, <1>8 DEF r

\* The edges each node waits for: those from nodes not placed yet, and of those
\* from x the ones after the n-th edge.
Waiting(nodes, edges, placed) ==
  [id \in Ids(nodes) |-> {k \in incoming(nodes, edges, id) : edges[k].source \notin placed}]
WaitingPast(nodes, edges, placed, x, n) ==
  [id \in Ids(nodes) |->
     {k \in incoming(nodes, edges, id) :
        edges[k].source \notin placed \/ (edges[k].source = x /\ k > n)}]

LEMMA IncomingIsFinite ==
  ASSUME NEW N, NEW nodes, NEW edges \in Seq(N), NEW id, NEW T \in SUBSET incoming(nodes, edges, id)
  PROVE  IsFiniteSet(T)
<1>1. Len(edges) \in Nat
  OBVIOUS
<1>2. IsFiniteSet(1..Len(edges))
  BY <1>1, FS_Interval
<1>3. T \subseteq 1..Len(edges)
  BY DEF incoming
<1> QED BY <1>2, <1>3, FS_Subset

LEMMA ShiftKeeps ==
  ASSUME NEW N, NEW nodes \in Seq(N), NEW edges \in Seq([source : N, target : N]), NEW s,
         QueueInv(nodes, edges, s, Waiting(nodes, edges, ToSet(s.order))), s.ready # <<>>
  PROVE  /\ QueueInv(nodes, edges, Shift(nodes, edges, s),
                     Waiting(nodes, edges, ToSet(Shift(nodes, edges, s).order)))
         /\ Shift(nodes, edges, s).order = Append(s.order, Head(s.ready))
<1> DEFINE n == Len(edges)
           V == Ids(nodes)
           x == Head(s.ready)
           placed == ToSet(s.order) \cup {x}
           Past(k) == WaitingPast(nodes, edges, placed, x, k)
<1>1. /\ s \in States(nodes) /\ s.order \in Seq(V) /\ s.ready \in Seq(V)
      /\ s.indegree \in [V -> Int]
  BY DEF QueueInv, States
<1>2. /\ x \in V /\ Tail(s.ready) \in Seq(V) /\ ToSet(s.ready) = {x} \cup ToSet(Tail(s.ready))
      /\ Unique(Tail(s.ready)) /\ x \notin ToSet(Tail(s.ready)) /\ x \notin ToSet(s.order)
  BY <1>1, HeadAndTail DEF QueueInv
<1>3. PICK g \in [0..n -> States(nodes)] :
            Released(nodes, edges, s, g) /\ Shift(nodes, edges, s) = g[n]
  BY <1>1, <1>2, ShiftReleases
<1>4. n \in Nat /\ \A k \in 1..n : edges[k] \in [source : N, target : N]
  <2>1. n \in Nat
    OBVIOUS
  <2> DEFINE R == [source : N, target : N]
  <2>2. \A k \in 1..n : edges[k] \in R
    <3> HIDE DEF R
    <3> QED OBVIOUS
  <2> QED BY <2>1, <2>2
<1>5. /\ ToSet(Append(s.order, x)) = placed /\ Unique(Append(s.order, x))
      /\ Append(s.order, x) \in Seq(V) /\ Len(Append(s.order, x)) = Len(s.order) + 1
      /\ Append(s.order, x)[Len(s.order) + 1] = x /\ Len(s.order) \in Nat
      /\ \A k \in 1..Len(s.order) : Append(s.order, x)[k] = s.order[k]
  BY <1>1, <1>2, AppendUnique DEF QueueInv
<1>6. QueueInv(nodes, edges, g[0], Past(0)) /\ g[0].order = Append(s.order, x)
  <2> DEFINE c == g[0]
  <2>1. /\ c \in States(nodes) /\ c.order = Append(s.order, x) /\ c.ready = Tail(s.ready)
        /\ c.indegree = s.indegree
    <3>1. 0 \in 0..n
      BY <1>4
    <3>2. c = [order |-> Append(s.order, x), ready |-> Tail(s.ready), indegree |-> s.indegree]
      BY <1>3, <3>1 DEF Released
    <3>3. c \in States(nodes)
      BY <1>3, <3>1
    <3> QED BY <3>2, <3>3
  <2> HIDE DEF c
  <2>2. ToSet(c.order) \cap ToSet(c.ready) = {}
    BY <1>2, <1>5, <2>1 DEF QueueInv
  <2>3. ASSUME NEW id \in V
        PROVE  /\ c.indegree[id] = Cardinality(Past(0)[id])
               /\ c.indegree[id] = 0 <=> id \in ToSet(c.order) \cup ToSet(c.ready)
    <3>1. Past(0)[id] = Waiting(nodes, edges, ToSet(s.order))[id]
      BY <1>2, <1>4 DEF WaitingPast, Waiting, incoming
    <3>2. /\ s.indegree[id] = Cardinality(Waiting(nodes, edges, ToSet(s.order))[id])
          /\ s.indegree[id] = 0 <=> id \in ToSet(s.order) \cup ToSet(s.ready)
      BY DEF QueueInv
    <3>3. ToSet(c.order) \cup ToSet(c.ready) = ToSet(s.order) \cup ToSet(s.ready)
      BY <1>2, <1>5, <2>1
    <3> QED BY <2>1, <3>1, <3>2, <3>3
  <2>4. ASSUME NEW y \in 1..Len(c.order), NEW k \in incoming(nodes, edges, c.order[y])
        PROVE  \E z \in 1..Len(c.order) : z < y /\ c.order[z] = edges[k].source
    <3>1. CASE y \in 1..Len(s.order)
      <4>1. c.order[y] = s.order[y]
        BY <1>5, <2>1, <3>1
      <4>2. PICK z \in 1..Len(s.order) : z < y /\ s.order[z] = edges[k].source
        BY <2>4, <3>1, <4>1 DEF QueueInv
      <4> QED BY <1>5, <2>1, <4>2
    <3>2. CASE y = Len(s.order) + 1
      <4>1. k \in incoming(nodes, edges, x)
        BY <1>5, <2>1, <2>4, <3>2
      <4>2. Waiting(nodes, edges, ToSet(s.order))[x] = {}
        <5> DEFINE W == Waiting(nodes, edges, ToSet(s.order))[x]
        <5>1. s.indegree[x] = Cardinality(W) /\ s.indegree[x] = 0
          BY <1>2 DEF QueueInv
        <5>2. IsFiniteSet(W)
          BY <1>2, IncomingIsFinite DEF Waiting
        <5> QED BY <5>1, <5>2, FS_EmptySet
      <4>3. edges[k].source \in ToSet(s.order)
        BY <1>2, <4>1, <4>2 DEF Waiting
      <4>4. ToSet(s.order) = {s.order[z] : z \in 1..Len(s.order)}
        BY <1>1, Members
      <4>5. PICK z \in 1..Len(s.order) : s.order[z] = edges[k].source
        BY <4>3, <4>4
      <4> QED BY <1>5, <2>1, <3>2, <4>5
    <3> QED BY <1>5, <2>1, <3>1, <3>2
  <2>5. QueueInv(nodes, edges, c, Past(0))
    BY <1>2, <1>5, <2>1, <2>2, <2>3, <2>4 DEF QueueInv
  <2> QED BY <2>1, <2>5 DEF c
<1>7. ASSUME NEW k \in 1..n,
             QueueInv(nodes, edges, g[k - 1], Past(k - 1)), g[k - 1].order = Append(s.order, x)
      PROVE  QueueInv(nodes, edges, g[k], Past(k)) /\ g[k].order = Append(s.order, x)
  <2>1. k \in 0..n /\ k # 0 /\ k - 1 \in Nat
    BY <1>4
  <2>2. CASE edges[k].source = x /\ Live(nodes, edges[k])
    <3> DEFINE t == edges[k].target
    <3>1. g[k] = Release(g[k - 1], t)
      BY <1>3, <2>1, <2>2 DEF Released
    <3>2. t \in V /\ k \in incoming(nodes, edges, t)
      BY <2>2 DEF Live, Ids, incoming
    <3>3. k \in Past(k - 1)[t] /\ Past(k)[t] = Past(k - 1)[t] \ {k}
      BY <2>1, <2>2, <3>2, <1>5, <1>4 DEF WaitingPast, incoming
    <3>4. \A id \in V : id # t => Past(k)[id] = Past(k - 1)[id]
      BY <2>1, <1>4 DEF WaitingPast, incoming
    <3>5. \A id \in V : IsFiniteSet(Past(k - 1)[id])
      BY IncomingIsFinite DEF WaitingPast
    <3> DEFINE h == g[k - 1]
               wait == Past(k - 1)
               less == Past(k)
    <3>6. QueueInv(nodes, edges, Release(h, t), less) /\ Release(h, t).order = h.order
      <4>1. QueueInv(nodes, edges, h, wait) /\ t \in Ids(nodes) /\ k \in wait[t]
        BY <1>7, <3>2, <3>3
      <4>2. less[t] = wait[t] \ {k}
        BY <3>3
      <4>3. \A id \in Ids(nodes) : IsFiniteSet(wait[id]) /\ (id # t => less[id] = wait[id])
        BY <3>4, <3>5
      <4> HIDE DEF h, wait, less, t
      <4> QED BY <4>1, <4>2, <4>3, ReleaseKeeps
    <3> QED BY <1>7, <3>1, <3>6
  <2>3. CASE ~(edges[k].source = x /\ Live(nodes, edges[k]))
    <3>1. g[k] = g[k - 1]
      BY <1>3, <2>1, <2>3 DEF Released
    <3>2. Past(k) = Past(k - 1)
      BY <2>1, <2>3, <1>4 DEF WaitingPast, incoming
    <3> QED BY <1>7, <3>1, <3>2
  <2> QED BY <2>2, <2>3
<1>8. QueueInv(nodes, edges, g[n], Past(n)) /\ g[n].order = Append(s.order, x)
  <2> DEFINE P(k) == QueueInv(nodes, edges, g[k], Past(k)) /\ g[k].order = Append(s.order, x)
             T == {k \in 0..n : P(k)}
  <2>1. P(0)
    BY <1>6
  <2>2. \A k \in 1..n : P(k - 1) => P(k)
    BY <1>7
  <2> HIDE DEF P
  <2>3. 0 \in T /\ \A k \in 1..n : k - 1 \in T => k \in T
    BY <1>4, <2>1, <2>2
  <2>4. \A k \in 0..n : k \in T
    <3> HIDE DEF T, n
    <3> QED BY <1>4, <2>3, UpTo
  <2>5. P(n)
    BY <1>4, <2>4
  <2> QED BY <2>5 DEF P
<1>9. Past(n) = Waiting(nodes, edges, placed)
  BY <1>4 DEF WaitingPast, Waiting, incoming
<1> QED BY <1>3, <1>5, <1>8, <1>9

-----------------------------------------------------------------------------
(* The whole algorithm *)

LEMMA UniqueCount ==
  ASSUME NEW S, NEW s \in Seq(S), Unique(s)
  PROVE  IsFiniteSet(ToSet(s)) /\ Cardinality(ToSet(s)) = Len(s)
<1>1. Len(s) \in Nat /\ s \in [1..Len(s) -> ToSet(s)] /\ ToSet(s) = {s[k] : k \in 1..Len(s)}
  BY Members
<1>2. s \in Bijection(1..Len(s), ToSet(s))
  BY <1>1 DEF Bijection, Injection, Surjection, IsInjective, Unique
<1>3. ExistsBijection(1..Len(s), ToSet(s))
  BY <1>2 DEF ExistsBijection
<1> QED BY <1>1, <1>3, FS_NatBijection, FS_CountingElements

\* Collecting what waits for nothing among the first n nodes, as Roots does.
Collected(nodes, d, g) ==
  g = [n \in 0..Len(nodes) |->
         IF n = 0 THEN <<>>
         ELSE IF d[nodes[n]] = 0 THEN Append(g[n - 1], nodes[n])
         ELSE g[n - 1]]

LEMMA RootsWaitForNothing ==
  ASSUME NEW N, NEW nodes \in Seq(N), Unique(nodes), NEW d
  PROVE  /\ Roots(nodes, d) \in Seq(Ids(nodes)) /\ Unique(Roots(nodes, d))
         /\ ToSet(Roots(nodes, d)) = {id \in Ids(nodes) : d[id] = 0}
<1> DEFINE n == Len(nodes)
           V == Ids(nodes)
           S == Seq(V)
           Go(t, k) == IF d[nodes[k]] = 0 THEN Append(t, nodes[k]) ELSE t
           F == [k \in 1..n |-> [t \in S |-> Go(t, k)]]
<1>1. n \in Nat /\ V = {nodes[k] : k \in 1..n} /\ \A k \in 1..n : nodes[k] \in V
  BY Members DEF Ids
<1>2. <<>> \in S
  OBVIOUS
<1>3. ASSUME NEW t \in S, NEW k \in 1..n PROVE Go(t, k) \in S
  BY <1>1
<1>4. F \in Steps(S, n)
  <2> HIDE DEF S, Go
  <2> QED BY <1>3 DEF Steps
<1>5. PICK h : Recurs(h, S, <<>>, n, F)
  <2> HIDE DEF S, F, n
  <2> QED BY <1>1, <1>2, <1>4, Recursion
<1>6. Collected(nodes, d, h)
  <2>1. \A k \in 1..n : F[k][h[k - 1]] = Go(h[k - 1], k)
    <3> HIDE DEF S, Go, n
    <3>1. \A k \in 1..n : k - 1 \in 0..n
      BY <1>1
    <3> QED BY <1>5, <3>1 DEF Recurs
  <2>2. h = [k \in 0..n |-> IF k = 0 THEN <<>> ELSE Go(h[k - 1], k)]
    <3> HIDE DEF F, Go, n
    <3>1. \A k \in 0..n : k # 0 => k \in 1..n
      BY <1>1
    <3> QED BY <1>5, <2>1, <3>1 DEF Recurs
  <2> QED BY <2>2 DEF Collected
<1> DEFINE g == CHOOSE x : Collected(nodes, d, x)
<1>7. Collected(nodes, d, g)
  BY <1>6
<1>8. Roots(nodes, d) = g[n]
  BY DEF Roots, Collected
<1>7a. g = [k \in 0..n |-> IF k = 0 THEN <<>> ELSE Go(g[k - 1], k)]
  BY <1>7 DEF Collected
<1> HIDE DEF g
<1> DEFINE Found(k) == {nodes[j] : j \in {l \in 1..k : d[nodes[l]] = 0}}
           P(k) == g[k] \in Seq(V) /\ Unique(g[k]) /\ ToSet(g[k]) = Found(k)
           T == {k \in 0..n : P(k)}
<1>9. P(0)
  <2>1. g[0] = <<>>
    BY <1>1, <1>7 DEF Collected
  <2>2. <<>> \in Seq(V) /\ Unique(<<>>) /\ ToSet(<<>>) = {}
    BY DEF Unique, ToSet
  <2> QED BY <2>1, <2>2
<1>10. ASSUME NEW k \in 1..n, P(k - 1) PROVE P(k)
  <2>1. g[k] = Go(g[k - 1], k) /\ nodes[k] \in V
    <3> HIDE DEF Go
    <3> QED BY <1>1, <1>7a
  <2>2. CASE d[nodes[k]] = 0
    <3>1. nodes[k] \notin Found(k - 1)
      BY <1>1 DEF Unique
    <3>2. Found(k) = Found(k - 1) \cup {nodes[k]}
      BY <1>1, <2>2
    <3>3. g[k] = Append(g[k - 1], nodes[k])
      BY <2>1, <2>2
    <3> HIDE DEF Found
    <3> QED BY <1>10, <2>1, <3>1, <3>2, <3>3, AppendUnique
  <2>3. CASE d[nodes[k]] # 0
    <3>1. Found(k) = Found(k - 1)
      BY <1>1, <2>3
    <3> HIDE DEF Found
    <3> QED BY <1>10, <2>1, <2>3, <3>1
  <2> QED BY <2>2, <2>3
<1>11. P(n)
  <2>0. P(0) /\ \A k \in 1..n : P(k - 1) => P(k)
    BY <1>9, <1>10
  <2> HIDE DEF P
  <2>1. 0 \in T /\ \A k \in 1..n : k - 1 \in T => k \in T
    BY <1>1, <2>0
  <2>2. \A k \in 0..n : k \in T
    <3> HIDE DEF T, n
    <3> QED BY <1>1, <2>1, UpTo
  <2> QED BY <1>1, <2>2
<1>12. Found(n) = {id \in V : d[id] = 0}
  BY <1>1
<1> QED BY <1>8, <1>11, <1>12

\* Shifting the queue up to n times, as Kahn does.
Drained(nodes, edges, g) ==
  g = [n \in 0..Len(nodes) |->
         IF n = 0
         THEN [order |-> <<>>, ready |-> Roots(nodes, indegrees(nodes, edges)),
               indegree |-> indegrees(nodes, edges)]
         ELSE IF g[n - 1].ready = <<>> THEN g[n - 1]
         ELSE Shift(nodes, edges, g[n - 1])]

QueueOf(nodes, edges, s) ==
  QueueInv(nodes, edges, s, Waiting(nodes, edges, ToSet(s.order)))

LEMMA FirstQueue ==
  ASSUME NEW N, NEW nodes \in Seq(N), Unique(nodes), NEW edges \in Seq([source : N, target : N])
  PROVE  QueueOf(nodes, edges, [order |-> <<>>, ready |-> Roots(nodes, indegrees(nodes, edges)),
                                indegree |-> indegrees(nodes, edges)])
<1> DEFINE V == Ids(nodes)
           d == indegrees(nodes, edges)
           r == Roots(nodes, d)
           s == [order |-> <<>>, ready |-> r, indegree |-> d]
<1>1. r \in Seq(V) /\ Unique(r) /\ ToSet(r) = {id \in V : d[id] = 0}
  BY RootsWaitForNothing
<1>2. \A id \in V : d[id] = Cardinality(incoming(nodes, edges, id)) /\ d[id] \in Int
  <2> TAKE id \in V
  <2>1. IsFiniteSet(incoming(nodes, edges, id))
    BY IncomingIsFinite
  <2> QED BY <2>1, FS_CardinalityType DEF indegrees, Ids
<1>3. d \in [V -> Int]
  BY <1>2 DEF indegrees, Ids
<1> HIDE DEF r, d
<1>4. s \in States(nodes) /\ s.order = <<>> /\ s.ready = r /\ s.indegree = d
  <2>1. <<>> \in Seq(V)
    OBVIOUS
  <2> QED BY <1>1, <1>3, <2>1 DEF States
<1> HIDE DEF s
<1>5. ToSet(s.order) = {} /\ Unique(s.order) /\ Len(s.order) = 0
  BY <1>4 DEF ToSet, Unique
<1>6. \A id \in V : Waiting(nodes, edges, ToSet(s.order))[id] = incoming(nodes, edges, id)
  BY <1>5 DEF Waiting
<1>7. QueueOf(nodes, edges, s)
  BY <1>1, <1>2, <1>4, <1>5, <1>6 DEF QueueOf, QueueInv
<1> QED BY <1>7 DEF s, r, d

LEMMA KahnDrains ==
  ASSUME NEW N, NEW nodes \in Seq(N), Unique(nodes), NEW edges \in Seq([source : N, target : N])
  PROVE  /\ QueueOf(nodes, edges, Kahn(nodes, edges))
         /\ Kahn(nodes, edges).ready = <<>> \/ Len(Kahn(nodes, edges).order) = Len(nodes)
<1> DEFINE n == Len(nodes)
           Good == {s \in States(nodes) : QueueOf(nodes, edges, s)}
           c == [order |-> <<>>, ready |-> Roots(nodes, indegrees(nodes, edges)),
                 indegree |-> indegrees(nodes, edges)]
           Go(t) == IF t.ready = <<>> THEN t ELSE Shift(nodes, edges, t)
           F == [k \in 1..n |-> [t \in Good |-> Go(t)]]
<1>1. n \in Nat
  OBVIOUS
<1>2. c \in Good
  BY FirstQueue DEF QueueOf, QueueInv
<1>3. ASSUME NEW t \in Good
      PROVE  /\ Go(t) \in Good
             /\ t.ready # <<>> => Len(Go(t).order) = Len(t.order) + 1
  <2>1. CASE t.ready # <<>>
    <3>1. QueueOf(nodes, edges, Go(t)) /\ Go(t).order = Append(t.order, Head(t.ready))
      BY <2>1, ShiftKeeps DEF QueueOf
    <3>2. t.order \in Seq(Ids(nodes)) /\ Head(t.ready) \in Ids(nodes)
      BY <2>1 DEF States
    <3>3. Go(t) \in States(nodes)
      BY <3>1 DEF QueueOf, QueueInv
    <3>4. Len(Append(t.order, Head(t.ready))) = Len(t.order) + 1
      BY <3>2
    <3> HIDE DEF Go
    <3> QED BY <3>1, <3>3, <3>4
  <2> QED BY <2>1
<1>4. F \in Steps(Good, n)
  <2> HIDE DEF Good, Go
  <2> QED BY <1>3 DEF Steps
<1>5. PICK h : Recurs(h, Good, c, n, F)
  <2> HIDE DEF Good, c, F, n
  <2> QED BY <1>1, <1>2, <1>4, Recursion
<1>6. Drained(nodes, edges, h)
  <2>1. \A k \in 1..n : F[k][h[k - 1]] = Go(h[k - 1])
    <3> HIDE DEF Good, Go, n
    <3>1. \A k \in 1..n : k - 1 \in 0..n
      BY <1>1
    <3> QED BY <1>5, <3>1 DEF Recurs
  <2>2. h = [k \in 0..n |-> IF k = 0 THEN c ELSE Go(h[k - 1])]
    <3> HIDE DEF F, Go, c, n
    <3>1. \A k \in 0..n : k # 0 => k \in 1..n
      BY <1>1
    <3> QED BY <1>5, <2>1, <3>1 DEF Recurs
  <2> QED BY <2>2 DEF Drained
<1> DEFINE g == CHOOSE x : Drained(nodes, edges, x)
<1>7. Drained(nodes, edges, g)
  BY <1>6
<1>8. Kahn(nodes, edges) = g[n]
  BY DEF Kahn, Drained
<1>9. g = [k \in 0..n |-> IF k = 0 THEN c ELSE Go(g[k - 1])]
  BY <1>7 DEF Drained
<1> HIDE DEF g
<1> DEFINE P(k) == g[k] \in Good /\ (g[k].ready = <<>> \/ Len(g[k].order) = k)
           T == {k \in 0..n : P(k)}
<1>10. P(0)
  <2>1. g[0] = c
    <3> HIDE DEF c, Go
    <3> QED BY <1>1, <1>9
  <2>2. Len(c.order) = 0
    OBVIOUS
  <2> HIDE DEF c
  <2> QED BY <1>2, <2>1, <2>2
<1>11. ASSUME NEW k \in 1..n, P(k - 1) PROVE P(k)
  <2>1. g[k] = Go(g[k - 1]) /\ k # 0
    <3> HIDE DEF c, Go
    <3> QED BY <1>1, <1>9
  <2> DEFINE t == g[k - 1]
  <2>2. CASE t.ready # <<>>
    <3>1. Len(t.order) = k - 1
      BY <1>11, <2>2
    <3>2. Go(t) \in Good /\ Len(Go(t).order) = Len(t.order) + 1
      BY <1>3, <1>11, <2>2
    <3>3. k - 1 + 1 = k
      BY <1>1
    <3>4. Len(g[k].order) = k /\ g[k] \in Good
      <4> HIDE DEF Go, Good
      <4> QED BY <2>1, <3>1, <3>2, <3>3
    <3> QED BY <3>4
  <2>3. CASE t.ready = <<>>
    BY <1>11, <2>1, <2>3
  <2> QED BY <2>2, <2>3
<1>12. P(n)
  <2>1. P(0) /\ \A k \in 1..n : P(k - 1) => P(k)
    BY <1>10, <1>11
  <2> HIDE DEF P
  <2>2. 0 \in T /\ \A k \in 1..n : k - 1 \in T => k \in T
    BY <1>1, <2>1
  <2>3. \A k \in 0..n : k \in T
    <3> HIDE DEF T, n
    <3> QED BY <1>1, <2>2, UpTo
  <2> QED BY <1>1, <2>3
<1> QED BY <1>8, <1>12

\* The order so far repeats no node and puts each after those that feed it.
LEMMA KahnOrders ==
  ASSUME NEW N, NEW nodes \in Seq(N), Unique(nodes), NEW edges \in Seq([source : N, target : N])
  PROVE  /\ Kahn(nodes, edges).order \in Seq(Ids(nodes))
         /\ Unique(Kahn(nodes, edges).order)
         /\ \A y \in 1..Len(Kahn(nodes, edges).order) :
              \A k \in incoming(nodes, edges, Kahn(nodes, edges).order[y]) :
                \E x \in 1..Len(Kahn(nodes, edges).order) :
                   x < y /\ Kahn(nodes, edges).order[x] = edges[k].source
<1> DEFINE s == Kahn(nodes, edges)
<1>1. QueueOf(nodes, edges, s)
  BY KahnDrains
<1> HIDE DEF s
<1>2. s.order \in Seq(Ids(nodes)) /\ Unique(s.order)
  BY <1>1 DEF QueueOf, QueueInv, States
<1>3. \A y \in 1..Len(s.order) : \A k \in incoming(nodes, edges, s.order[y]) :
         \E x \in 1..Len(s.order) : x < y /\ s.order[x] = edges[k].source
  BY <1>1 DEF QueueOf, QueueInv
<1> QED BY <1>2, <1>3 DEF s

\* GraphCycleError names nodes that wait for each other: each has an edge from
\* another one of them.
LEMMA StuckWaitForStuck ==
  ASSUME NEW N, NEW nodes \in Seq(N), Unique(nodes), NEW edges \in Seq([source : N, target : N]),
         NEW id \in stuck(nodes, edges)
  PROVE  \E k \in incoming(nodes, edges, id) : edges[k].source \in stuck(nodes, edges)
<1> DEFINE s == Kahn(nodes, edges)
           V == Ids(nodes)
<1>1. QueueOf(nodes, edges, s) /\ (s.ready = <<>> \/ Len(s.order) = Len(nodes))
  BY KahnDrains
<1>2. stuck(nodes, edges) = V \ ToSet(s.order)
  BY DEF stuck, Ids
<1> HIDE DEF s
<1>3. s.order \in Seq(V) /\ Unique(s.order)
  BY <1>1 DEF QueueOf, QueueInv, States
<1>4. ToSet(s.order) \subseteq V /\ id \in V /\ id \notin ToSet(s.order)
  <2>1. ToSet(s.order) = {s.order[k] : k \in 1..Len(s.order)}
    BY <1>3, Members
  <2> QED BY <1>2, <1>3, <2>1
<1>5. s.ready = <<>>
  <2>1. SUFFICES ASSUME Len(s.order) = Len(nodes) PROVE FALSE
    BY <1>1
  <2>2. IsFiniteSet(V) /\ Cardinality(V) = Len(nodes)
    BY UniqueCount DEF Ids
  <2>3. Cardinality(ToSet(s.order)) = Len(s.order)
    BY <1>3, UniqueCount
  <2>4. V = ToSet(s.order)
    BY <1>4, <2>1, <2>2, <2>3, FS_Subset
  <2> QED BY <1>4, <2>4
<1>6. s.indegree[id] # 0
  <2>1. ToSet(s.ready) = {}
    BY <1>5 DEF ToSet
  <2> QED BY <1>1, <1>4, <2>1 DEF QueueOf, QueueInv
<1> DEFINE W == Waiting(nodes, edges, ToSet(s.order))[id]
<1>7. W # {}
  <2>1. s.indegree[id] = Cardinality(W)
    BY <1>1, <1>4 DEF QueueOf, QueueInv
  <2> QED BY <1>6, <2>1, FS_EmptySet
<1>8. PICK k \in incoming(nodes, edges, id) : edges[k].source \notin ToSet(s.order)
  BY <1>4, <1>7 DEF Waiting
<1>9. edges[k].source \in V
  BY <1>8 DEF incoming, Live, Ids
<1> QED BY <1>2, <1>8, <1>9

\* Shrinking a set of nodes to those fed from it, as Unplaceable does.
Feeds(edges, S) ==
  {id \in S : \E k \in 1..Len(edges) : edges[k].target = id /\ edges[k].source \in S}
Shrunk(nodes, edges, g) ==
  g = [n \in 0..Len(nodes) |-> IF n = 0 THEN ToSet(nodes) ELSE Feeds(edges, g[n - 1])]

LEMMA UnplaceableShrinks ==
  ASSUME NEW N, NEW nodes \in Seq(N), NEW edges
  PROVE  \E g \in [0..Len(nodes) -> SUBSET Ids(nodes)] :
            /\ Unplaceable(nodes, edges) = g[Len(nodes)] /\ g[0] = Ids(nodes)
            /\ \A k \in 1..Len(nodes) : g[k] = Feeds(edges, g[k - 1])
<1> DEFINE n == Len(nodes)
           S == SUBSET Ids(nodes)
           c == Ids(nodes)
           F == [k \in 1..n |-> [t \in S |-> Feeds(edges, t)]]
<1>1. n \in Nat /\ c \in S
  OBVIOUS
<1>2. \A t \in S : Feeds(edges, t) \in S
  BY DEF Feeds
<1>3. F \in Steps(S, n)
  <2> HIDE DEF S
  <2> QED BY <1>2 DEF Steps
<1>4. PICK h : Recurs(h, S, c, n, F)
  <2> HIDE DEF S, c, F, n
  <2> QED BY <1>1, <1>3, Recursion
<1>5. /\ h \in [0..n -> S] /\ h[0] = c
      /\ \A k \in 1..n : k - 1 \in 0..n /\ h[k] = Feeds(edges, h[k - 1])
  <2>1. \A k \in 1..n : k - 1 \in 0..n
    BY <1>1
  <2> HIDE DEF S, c, n
  <2> QED BY <1>4, <2>1 DEF Recurs
<1>6. Shrunk(nodes, edges, h)
  <2>1. h = [k \in 0..n |-> IF k = 0 THEN c ELSE Feeds(edges, h[k - 1])]
    <3>1. \A k \in 0..n : k # 0 => k \in 1..n
      BY <1>1
    <3> HIDE DEF S, c, n
    <3> QED BY <1>5, <3>1
  <2> QED BY <2>1 DEF Shrunk, Ids
<1> DEFINE g == CHOOSE x : Shrunk(nodes, edges, x)
<1>7. Shrunk(nodes, edges, g)
  BY <1>6
<1>8. Unplaceable(nodes, edges) = g[n]
  BY DEF Unplaceable, Shrunk, Feeds
<1> HIDE DEF g
<1>9. g = [k \in 0..n |-> IF k = 0 THEN c ELSE Feeds(edges, g[k - 1])]
  BY <1>7 DEF Shrunk, Ids
<1>10. g[0] = c /\ \A k \in 1..n : g[k] = Feeds(edges, g[k - 1])
  <2>1. 0 \in 0..n /\ \A k \in 1..n : k \in 0..n /\ k # 0
    BY <1>1
  <2> HIDE DEF c, n
  <2> QED BY <1>9, <2>1
<1>11. g \in [0..n -> S]
  <2> DEFINE T == {k \in 0..n : g[k] \in S}
  <2>1. 0 \in T
    BY <1>1, <1>10
  <2>2. ASSUME NEW k \in 1..n, k - 1 \in T PROVE k \in T
    BY <1>2, <1>10, <2>2
  <2>3. \A k \in 0..n : k \in T
    <3> HIDE DEF T, n
    <3> QED BY <1>1, <2>1, <2>2, UpTo
  <2> HIDE DEF S, c, n
  <2> QED BY <1>9, <2>3
<1> QED BY <1>8, <1>10, <1>11

\* After as many steps as there are nodes the shrinking has come to rest.
LEMMA UnplaceableIsFed ==
  ASSUME NEW N, NEW nodes \in Seq(N), Unique(nodes), NEW edges
  PROVE  /\ Unplaceable(nodes, edges) \subseteq Ids(nodes)
         /\ Feeds(edges, Unplaceable(nodes, edges)) = Unplaceable(nodes, edges)
<1> DEFINE n == Len(nodes)
           V == Ids(nodes)
<1>1. PICK g \in [0..n -> SUBSET V] :
            /\ Unplaceable(nodes, edges) = g[n] /\ g[0] = V
            /\ \A k \in 1..n : g[k] = Feeds(edges, g[k - 1])
  BY UnplaceableShrinks
<1>2. n \in Nat /\ IsFiniteSet(V) /\ Cardinality(V) = n
  BY UniqueCount DEF Ids
<1> DEFINE Rests(k) == Feeds(edges, g[k]) = g[k] \/ Cardinality(g[k]) <= n - k
           T == {k \in 0..n : Rests(k)}
<1>3. 0 \in T
  BY <1>1, <1>2
<1>4. ASSUME NEW k \in 1..n, k - 1 \in T PROVE k \in T
  <2>1. /\ k \in 0..n /\ k - 1 \in 0..n /\ g[k] = Feeds(edges, g[k - 1])
        /\ g[k - 1] \subseteq V /\ g[k] \subseteq g[k - 1]
    BY <1>1, <1>2 DEF Feeds
  <2>2. CASE g[k] = g[k - 1]
    BY <2>1, <2>2
  <2>3. CASE g[k] # g[k - 1]
    <3>1. Cardinality(g[k - 1]) <= n - (k - 1)
      BY <1>4, <2>1, <2>3
    <3>2. IsFiniteSet(g[k - 1])
      BY <1>2, <2>1, FS_Subset
    <3>3. /\ Cardinality(g[k]) < Cardinality(g[k - 1])
          /\ Cardinality(g[k]) \in Nat /\ Cardinality(g[k - 1]) \in Nat
      <4>1. IsFiniteSet(g[k]) /\ Cardinality(g[k]) <= Cardinality(g[k - 1])
            /\ Cardinality(g[k]) # Cardinality(g[k - 1])
        BY <2>1, <2>3, <3>2, FS_Subset
      <4>2. Cardinality(g[k]) \in Nat /\ Cardinality(g[k - 1]) \in Nat
        BY <3>2, <4>1, FS_CardinalityType
      <4> QED BY <4>1, <4>2
    <3>4. Cardinality(g[k]) <= n - k
      BY <1>2, <2>1, <3>1, <3>3
    <3> QED BY <2>1, <3>4
  <2> QED BY <2>2, <2>3
<1>5. \A k \in 0..n : k \in T
  <2> HIDE DEF T, n
  <2> QED BY <1>2, <1>3, <1>4, UpTo
<1>6. Rests(n) /\ g[n] \subseteq V
  BY <1>1, <1>2, <1>5
<1>7. CASE Cardinality(g[n]) <= n - n
  <2>1. IsFiniteSet(g[n])
    BY <1>2, <1>6, FS_Subset
  <2>2. Cardinality(g[n]) \in Nat
    BY <2>1, FS_CardinalityType
  <2>3. Cardinality(g[n]) = 0
    BY <1>2, <1>7, <2>2
  <2>4. g[n] = {}
    BY <2>1, <2>3, FS_EmptySet
  <2> QED BY <1>1, <2>4 DEF Feeds
<1> QED BY <1>1, <1>6, <1>7

\* Nodes that are all fed by one another stay in it.
LEMMA UnplaceableHolds ==
  ASSUME NEW N, NEW nodes \in Seq(N), NEW edges,
         NEW S \in SUBSET Ids(nodes), S \subseteq Feeds(edges, S)
  PROVE  S \subseteq Unplaceable(nodes, edges)
<1> DEFINE n == Len(nodes)
           V == Ids(nodes)
<1>1. PICK g \in [0..n -> SUBSET V] :
            /\ Unplaceable(nodes, edges) = g[n] /\ g[0] = V
            /\ \A k \in 1..n : g[k] = Feeds(edges, g[k - 1])
  BY UnplaceableShrinks
<1> DEFINE T == {k \in 0..n : S \subseteq g[k]}
<1>2. n \in Nat /\ 0 \in T
  BY <1>1
<1>3. ASSUME NEW k \in 1..n, k - 1 \in T PROVE k \in T
  <2>1. S \subseteq g[k - 1] /\ g[k] = Feeds(edges, g[k - 1]) /\ k \in 0..n
    BY <1>1, <1>2, <1>3
  <2> QED BY <2>1 DEF Feeds
<1>4. \A k \in 0..n : k \in T
  <2> HIDE DEF T, n
  <2> QED BY <1>2, <1>3, UpTo
<1> QED BY <1>1, <1>2, <1>4

\* What can be placed by no order is what Kahn's queue never reaches.
LEMMA StuckIsUnplaceable ==
  ASSUME NEW N, NEW nodes \in Seq(N), Unique(nodes), NEW edges \in Seq([source : N, target : N])
  PROVE  stuck(nodes, edges) = Unplaceable(nodes, edges)
<1> DEFINE V == Ids(nodes)
           n == Len(nodes)
           U == Unplaceable(nodes, edges)
           s == Kahn(nodes, edges).order
<1>1. stuck(nodes, edges) \subseteq U
  <2> DEFINE S == stuck(nodes, edges)
  <2>1. S \subseteq V
    BY DEF stuck, Ids
  <2>2. ASSUME NEW id \in S PROVE id \in Feeds(edges, S)
    <3>1. PICK j \in incoming(nodes, edges, id) : edges[j].source \in S
      BY StuckWaitForStuck
    <3>2. j \in 1..Len(edges) /\ edges[j].target = id
      BY <3>1 DEF incoming
    <3> HIDE DEF S
    <3> QED BY <2>2, <3>1, <3>2 DEF Feeds
  <2> HIDE DEF S
  <2>3. S \subseteq Unplaceable(nodes, edges)
    BY <2>1, <2>2, UnplaceableHolds
  <2> QED BY <2>3 DEF S
<1>2. U \subseteq V /\ Feeds(edges, U) = U
  BY UnplaceableIsFed
<1>3. /\ s \in Seq(V) /\ stuck(nodes, edges) = V \ ToSet(s)
      /\ \A y \in 1..Len(s) : \A k \in incoming(nodes, edges, s[y]) :
            \E x \in 1..Len(s) : x < y /\ s[x] = edges[k].source
  BY KahnOrders DEF stuck, Ids
<1> HIDE DEF s, U
<1> DEFINE R == {x \in 1..Len(s) : s[x] \in U}
<1>4. R = {}
  <2>1. SUFFICES ASSUME R # {} PROVE FALSE
    OBVIOUS
  <2>2. PICK y \in R : \A x \in R : ~(x < y)
    <3>1. R \subseteq Nat
      OBVIOUS
    <3> HIDE DEF R
    <3> QED BY <2>1, <3>1, Least
  <2>3. PICK k \in 1..Len(edges) : edges[k].target = s[y] /\ edges[k].source \in U
    BY <1>2, <2>2 DEF Feeds
  <2>4. k \in incoming(nodes, edges, s[y])
    BY <1>2, <2>2, <2>3 DEF incoming, Live, Ids
  <2>5. PICK x \in 1..Len(s) : x < y /\ s[x] = edges[k].source
    BY <1>3, <2>2, <2>4
  <2> QED BY <2>2, <2>3, <2>5
<1>5. U \cap ToSet(s) = {}
  <2>1. ToSet(s) = {s[x] : x \in 1..Len(s)}
    BY <1>3, Members
  <2> QED BY <1>4, <2>1
<1> QED BY <1>1, <1>2, <1>3, <1>5 DEF U

-----------------------------------------------------------------------------
(* What a run may count on *)

\* A document that is not refused runs in an order that puts every tool after
\* those that feed it (executor.ts, topologicalOrder).
THEOREM OrderIsSound ==
  ASSUME NEW N, NEW nodes \in Seq(N), NEW edges \in Seq([source : N, target : N]),
         Unique(nodes), stuck(nodes, edges) = {}
  PROVE  IsOrder(topologicalOrder(nodes, edges), nodes, edges)
<1> DEFINE s == Kahn(nodes, edges).order
<1>1. topologicalOrder(nodes, edges) = s /\ ToSet(nodes) \subseteq ToSet(s)
  BY DEF topologicalOrder, stuck
<1>2. /\ s \in Seq(ToSet(nodes)) /\ Unique(s)
      /\ \A y \in 1..Len(s) : \A k \in incoming(nodes, edges, s[y]) :
            \E x \in 1..Len(s) : x < y /\ s[x] = edges[k].source
  BY KahnOrders DEF Ids
<1> HIDE DEF s
<1>3. ToSet(s) = {s[x] : x \in 1..Len(s)}
  BY <1>2, Members
<1>4. ToSet(s) = ToSet(nodes)
  BY <1>1, <1>2, <1>3
<1>5. ASSUME NEW k \in 1..Len(edges), Live(nodes, edges[k])
      PROVE  \E x, y \in 1..Len(s) : x < y /\ s[x] = edges[k].source /\ s[y] = edges[k].target
  <2>1. edges[k].target \in ToSet(s) /\ k \in incoming(nodes, edges, edges[k].target)
    BY <1>4, <1>5 DEF Live, incoming
  <2>2. PICK y \in 1..Len(s) : s[y] = edges[k].target
    BY <1>3, <2>1
  <2> QED BY <1>2, <2>1, <2>2
<1> QED BY <1>1, <1>2, <1>4, <1>5 DEF IsOrder, Unique

\* Only a document no order exists for is refused: a stale edge, two edges
\* between the same nodes or the order of the list never make a cycle.
THEOREM OrderIsComplete ==
  ASSUME NEW N, NEW nodes \in Seq(N), NEW edges \in Seq([source : N, target : N]),
         Unique(nodes), NEW s, IsOrder(s, nodes, edges)
  PROVE  stuck(nodes, edges) = {}
<1> DEFINE T == {x \in 1..Len(s) : s[x] \in stuck(nodes, edges)}
<1>1. SUFFICES ASSUME stuck(nodes, edges) # {} PROVE FALSE
  OBVIOUS
<1>2. s \in Seq(ToSet(nodes)) /\ ToSet(s) = ToSet(nodes) /\ ToSet(s) = {s[x] : x \in 1..Len(s)}
  BY Members DEF IsOrder
<1>3. stuck(nodes, edges) \subseteq ToSet(nodes)
  BY DEF stuck
<1>4. T # {} /\ T \subseteq Nat
  <2>1. PICK id \in stuck(nodes, edges) : TRUE
    BY <1>1
  <2>2. PICK x \in 1..Len(s) : s[x] = id
    BY <1>2, <1>3, <2>1
  <2> QED BY <2>1, <2>2
<1>5. PICK x \in T : \A y \in T : ~(y < x)
  <2> HIDE DEF T
  <2> QED BY <1>4, Least
<1>6. PICK k \in incoming(nodes, edges, s[x]) : edges[k].source \in stuck(nodes, edges)
  BY <1>5, StuckWaitForStuck
<1>7. k \in 1..Len(edges) /\ Live(nodes, edges[k]) /\ edges[k].target = s[x]
  BY <1>6 DEF incoming
<1>8. PICK y, z \in 1..Len(s) : y < z /\ s[y] = edges[k].source /\ s[z] = s[x]
  BY <1>7 DEF IsOrder
<1>9. z = x /\ y \in T
  BY <1>5, <1>6, <1>8 DEF IsOrder
<1> QED BY <1>5, <1>8, <1>9

\* A run visits every node once and never before the nodes feeding it; only a
\* document no order exists for is refused, and the nodes its error names are
\* those no order can place (executor.ts, topologicalOrder and GraphCycleError).
THEOREM OrdersDocuments ==
  ASSUME NEW N, NEW nodes \in Seq(N), NEW edges \in Seq([source : N, target : N]), Unique(nodes)
  PROVE  OrdersExactlyTheAcyclic(nodes, edges)
<1>1. stuck(nodes, edges) = Unplaceable(nodes, edges)
  BY StuckIsUnplaceable
<1>2. stuck(nodes, edges) = {} => IsOrder(topologicalOrder(nodes, edges), nodes, edges)
  BY OrderIsSound
<1>3. stuck(nodes, edges) # {} => topologicalOrder(nodes, edges) = <<>>
  BY DEF topologicalOrder
<1> QED BY <1>1, <1>2, <1>3 DEF OrdersExactlyTheAcyclic

-----------------------------------------------------------------------------
(* Connections *)

Running == {"start", "loop", "connect", "call", "nowhere", "dispose"}

\* A server is connected to at most once, in the loop, and what is over is closed.
ClientsInv ==
  /\ clients \in [Servers -> {"none", "open", "leaked", "closed"}]
  /\ pc \in Running => \A s \in Servers : clients[s] \in {"none", "open"}
  /\ pc \notin Running => \A s \in Servers : clients[s] \in {"none", "closed"}
  /\ pc = "start" => \A s \in Servers : clients[s] = "none"
  /\ pc = "connect" /\ graph.server[node] \in Servers => clients[graph.server[node]] = "none"

LEMMA StepClients ==
  ASSUME ClientsInv, [Next]_vars
  PROVE  ClientsInv'
<1> USE DEF ClientsInv, Running, node
<1>1. CASE RefuseGraph \/ Begin
  BY <1>1 DEF RefuseGraph, Begin
<1>2. CASE Boundary \/ BoundaryThrows \/ Skip \/ Stop \/ LoopEnds
  BY <1>2 DEF Boundary, BoundaryThrows, Skip, Stop, LoopEnds, AtNode
<1>3. CASE StartUnsafe \/ StartNowhere
  BY <1>3 DEF StartUnsafe, StartNowhere, AtNode
<1>4. CASE StartStep
  BY <1>4 DEF StartStep, AtNode, Cached
<1>5. CASE Connected
  BY <1>5 DEF Connected
<1>6. CASE StepFails
  BY <1>6 DEF StepFails, StepEnds
<1>7. CASE CallReturns
  BY <1>7 DEF CallReturns, StepEnds
<1>8. CASE Dispose
  BY <1>8 DEF Dispose, DisposeOn
<1>9. CASE Finish \/ Error \/ Record
  BY <1>9 DEF Finish, Error, Record
<1>10. CASE Tick \/ Leave \/ Closed \/ UNCHANGED vars
  BY <1>10 DEF Tick, Leave, Closed, vars, control
<1> QED BY <1>1, <1>2, <1>3, <1>4, <1>5, <1>6, <1>7, <1>8, <1>9, <1>10
        DEF Next, Engine, Nowhere, TimesOut

\* Whatever its servers do and whenever the browser leaves, a run that is over
\* has closed every connection it made.
THEOREM ConnectionsAreClosed == Spec => []NothingLeftOpen
<1>1. Init => ClientsInv
  BY DEF Init, ClientsInv, Running
<1>2. ClientsInv => NothingLeftOpen
  BY DEF ClientsInv, Running, NothingLeftOpen
<1> QED BY <1>1, <1>2, StepClients, PTL DEF Spec

-----------------------------------------------------------------------------
(* Time and the abort signal *)

IsSeq(s) == \E S : s \in Seq(S)

\* What an event appended to a stream changes of it.
LEMMA AppendEvent ==
  ASSUME NEW s, IsSeq(s), NEW e
  PROVE  /\ IsSeq(Append(s, e)) /\ Append(s, e) # <<>>
         /\ Len(Append(s, e)) = Len(s) + 1 /\ Len(s) \in Nat
         /\ Append(s, e)[Len(s) + 1] = e
         /\ \A k \in 1..Len(s) : Append(s, e)[k] = s[k]
<1>1. PICK S : s \in Seq(S)
  BY DEF IsSeq
<1>2. s \in Seq(S \cup {e}) /\ e \in S \cup {e}
  BY <1>1
<1>3. Append(s, e) \in Seq(S \cup {e})
  BY <1>2
<1> QED BY <1>2, <1>3 DEF IsSeq

\* The clock is past the budget by no more than the step under way has taken.
TimeInv ==
  /\ elapsed \in Nat /\ waited \in Nat
  /\ elapsed <= MaxRun + ConnectLimit + CallLimit
  /\ pc = "connect" => elapsed <= MaxRun + waited /\ waited <= ConnectLimit
  /\ pc = "call" => elapsed <= MaxRun + ConnectLimit + waited /\ waited <= CallLimit
  /\ IsSeq(stream)

LEMMA StepTime ==
  ASSUME TimeInv, [Next]_vars
  PROVE  TimeInv'
<1> USE ExecutorAssumption DEF TimeInv
<1>1. CASE RefuseGraph
  BY <1>1 DEF RefuseGraph, clock
<1>2. CASE Begin
  BY <1>2, AppendEvent DEF Begin, clock, Send
<1>3. CASE Boundary \/ BoundaryThrows \/ Skip \/ Stop \/ LoopEnds
  BY <1>3 DEF Boundary, BoundaryThrows, Skip, Stop, LoopEnds, AtNode, clock
<1>4. CASE StartUnsafe \/ StartNowhere
  BY <1>4, AppendEvent DEF StartUnsafe, StartNowhere, clock, Send
<1>5. CASE StartStep
  <2>1. elapsed <= MaxRun /\ elapsed' = elapsed /\ waited' = 0
    BY <1>5 DEF StartStep, Stopped
  <2>2. IsSeq(stream')
    BY <1>5, AppendEvent DEF StartStep, Send
  <2> QED BY <2>1, <2>2
<1>6. CASE Connected
  BY <1>6 DEF Connected
<1>7. CASE StepFails \/ CallReturns
  <2>1. PICK s : stream' = Append(stream, Event("step:finish", node, s))
    BY <1>7 DEF StepFails, CallReturns, Send
  <2>2. pc' = "loop" /\ elapsed' = elapsed /\ waited' = waited
    BY <1>7 DEF StepFails, CallReturns, StepEnds, clock
  <2> QED BY <2>1, <2>2, AppendEvent
<1>8. CASE Dispose \/ Record
  BY <1>8 DEF Dispose, Record, clock
<1>9. CASE Finish \/ Error
  BY <1>9, AppendEvent DEF Finish, Error, clock, Send
<1>10. CASE Tick
  BY <1>10 DEF Tick, Pending, Limit, control
<1>11. CASE Leave \/ Closed \/ UNCHANGED vars
  BY <1>11 DEF Leave, Closed, vars, control, clock
<1> QED BY <1>1, <1>2, <1>3, <1>4, <1>5, <1>6, <1>7, <1>8, <1>9, <1>10, <1>11
        DEF Next, Engine, Nowhere, TimesOut

LEMMA OtherEvents ==
  ASSUME IsSeq(stream), NEW e, stream' = Append(stream, e), NEW t, e.type # t
  PROVE  OfType(t)' = OfType(t)
<1>1. /\ Len(stream') = Len(stream) + 1 /\ Len(stream) \in Nat
      /\ stream'[Len(stream) + 1] = e
      /\ \A k \in 1..Len(stream) : stream'[k] = stream[k]
  BY AppendEvent
<1> QED BY <1>1 DEF OfType

LEMMA NothingStarts ==
  ASSUME TimeInv, [Next]_vars, aborted
  PROVE  OfType("step:start")' = OfType("step:start")
<1>1. CASE StartUnsafe \/ StartNowhere \/ StartStep
  BY <1>1 DEF StartUnsafe, StartNowhere, StartStep, Stopped
<1>2. CASE Begin
  <2>1. stream' = Append(stream, Event("run:start", None, "none"))
    BY <1>2 DEF Begin, Send
  <2> QED BY <2>1, OtherEvents DEF TimeInv, Event, Stream!Event
<1>3. CASE StepFails \/ CallReturns
  <2>1. PICK s : stream' = Append(stream, Event("step:finish", node, s))
    BY <1>3 DEF StepFails, CallReturns, Send
  <2> QED BY <2>1, OtherEvents DEF TimeInv, Event, Stream!Event
<1>4. CASE Finish \/ Error
  <2>1. PICK t, s : /\ t \in {"run:finish", "run:error"}
                    /\ stream' = Append(stream, Event(t, None, s))
    BY <1>4 DEF Finish, Error, Send
  <2> QED BY <2>1, OtherEvents DEF TimeInv, Event, Stream!Event
<1>5. CASE UNCHANGED stream
  BY <1>5 DEF OfType
<1> QED
  BY <1>1, <1>2, <1>3, <1>4, <1>5
  DEF Next, Engine, Nowhere, TimesOut, RefuseGraph, Boundary, BoundaryThrows, Skip, Stop,
      LoopEnds, Connected, Dispose, Record, Tick, Leave, Closed, vars

\* A run outlasts its budget by one step at most, and starts no tool once it
\* was told that nobody reads.
THEOREM RunsStop == Spec => RunStopsInTime
<1>1. Init => TimeInv
  <2>1. <<>> \in Seq({})
    OBVIOUS
  <2> QED BY <2>1, ExecutorAssumption DEF Init, TimeInv, IsSeq
<1>2. Spec => []TimeInv
  BY <1>1, StepTime, PTL DEF Spec
<1>3. TimeInv' => OverrunByOneStep'
  BY DEF TimeInv, OverrunByOneStep
<1>4. TimeInv /\ TimeInv' /\ [Next]_vars =>
        [OverrunByOneStep' /\ (aborted => OfType("step:start")' = OfType("step:start"))]_vars
  BY <1>3, NothingStarts
<1> QED BY <1>2, <1>4, PTL DEF Spec, RunStopsInTime

-----------------------------------------------------------------------------
(* What tools are given *)

\* A sequence of distinct nodes of the document, each after those that feed it.
Orders(s, g) ==
  /\ s \in Seq(Nodes)
  /\ ToSet(s) = ToSet(g.nodes)
  /\ \A x, y \in 1..Len(s) : s[x] = s[y] => x = y
  /\ \A k \in 1..Len(g.edges) : Live(g.nodes, g.edges[k]) =>
       \E x, y \in 1..Len(s) :
          x < y /\ s[x] = g.edges[k].source /\ s[y] = g.edges[k].target

LEMMA OrdersAreSound ==
  ASSUME NEW g \in Graphs, stuck(g.nodes, g.edges) = {}
  PROVE  Orders(topologicalOrder(g.nodes, g.edges), g)
<1> DEFINE s == topologicalOrder(g.nodes, g.edges)
<1>1. /\ g.nodes \in Seq(Nodes) /\ g.edges \in Seq([source : Nodes, target : Nodes])
      /\ Unique(g.nodes)
  BY ExecutorAssumption DEF GraphType, Unique
<1>2. IsOrder(s, g.nodes, g.edges)
  BY <1>1, OrderIsSound
<1> HIDE DEF s
<1>3. ToSet(g.nodes) \subseteq Nodes
  <2>1. ToSet(g.nodes) = {g.nodes[k] : k \in 1..Len(g.nodes)}
    BY <1>1, Members
  <2> QED BY <1>1, <2>1
<1>4. s \in Seq(Nodes)
  BY <1>2, <1>3 DEF IsOrder
<1>5. Orders(s, g)
  BY <1>2, <1>4 DEF IsOrder, Orders
<1> QED BY <1>5 DEF s

Called == {"connect", "call", "nowhere"}
Looping == Called \cup {"loop"}
Passed(n) == {order[j] : j \in 1..n}

\* As long as nothing failed, every node passed has left its value.
FedInv ==
  /\ graph \in Graphs /\ i \in Nat \ {0}
  /\ pc = "start" => i = 1 /\ outputs = {} /\ ~failed
  /\ pc \in Looping => Orders(order, graph)
  /\ pc \in Called => i <= Len(order) /\ ~failed /\ isTool(node)
  /\ pc \in Looping /\ ~failed => outputs = Passed(i - 1)
  /\ FedByEverySource

LEMMA PassedNext ==
  ASSUME NEW n \in Nat \ {0}
  PROVE  Passed(n) = Passed(n - 1) \cup {order[n]}
BY DEF Passed

LEMMA StepFed ==
  ASSUME FedInv, [Next]_vars
  PROVE  FedInv'
<1> USE DEF FedInv, Called, Looping
<1>0. ASSUME graph' = graph, order' = order, i' = i
      PROVE  node' = node /\ (isTool(node) => isTool(node)')
  BY <1>0 DEF node, isTool
<1>1. ASSUME graph' = graph, fed' = fed
      PROVE  graph' \in Graphs /\ FedByEverySource'
  BY <1>1 DEF FedByEverySource, LiveEdge
<1>2. CASE RefuseGraph
  BY <1>1, <1>2 DEF RefuseGraph
<1>3. CASE Begin
  <2>1. Orders(order', graph)
    BY <1>3, OrdersAreSound DEF Begin, FedInv
  <2>2. i' = 1 /\ outputs' = {} /\ Passed(0)' = {}
    BY <1>3 DEF Begin, Passed
  <2> QED BY <1>1, <1>3, <2>1, <2>2 DEF Begin, AtNode
<1>4. CASE Boundary
  <2>1. Passed(i) = Passed(i - 1) \cup {node}
    BY PassedNext DEF node
  <2>2. i' = i + 1 /\ Passed(i - 1)' = Passed(i)
    BY <1>4 DEF Boundary, Passed
  <2> QED BY <1>1, <1>4, <2>1, <2>2 DEF Boundary, AtNode
<1>5. CASE BoundaryThrows \/ Stop \/ StartUnsafe \/ LoopEnds
  BY <1>1, <1>5 DEF BoundaryThrows, Stop, StartUnsafe, LoopEnds
<1>6. CASE Skip
  BY <1>1, <1>6 DEF Skip, SkipsRest, AtNode
<1>7. CASE StartNowhere
  BY <1>0, <1>1, <1>7 DEF StartNowhere, SkipsRest, AtNode, Passed
<1>8. CASE StartStep
  <2>1. AtNode /\ ~failed /\ i \in 1..Len(order) /\ outputs = Passed(i - 1)
    BY <1>8 DEF StartStep, AtNode, SkipsRest, Orders
  <2>2. sources(node) = {graph.edges[k].source : k \in {j \in 1..Len(graph.edges) :
                            graph.edges[j].target = node /\ LiveEdge(j)}}
    <3>1. ASSUME NEW k \in 1..Len(graph.edges), graph.edges[k].target = node,
                 graph.edges[k].source \in outputs
          PROVE  LiveEdge(k)
      <4>1. graph.edges[k].source \in ToSet(graph.nodes) /\ node \in ToSet(graph.nodes)
        BY <2>1, <3>1, Members DEF Passed, Orders, node, AtNode
      <4> QED BY <3>1, <4>1 DEF LiveEdge, Live
    <3>2. ASSUME NEW k \in 1..Len(graph.edges), graph.edges[k].target = node, LiveEdge(k)
          PROVE  graph.edges[k].source \in outputs
      <4>1. PICK x, y \in 1..Len(order) :
                   x < y /\ order[x] = graph.edges[k].source /\ order[y] = node
        BY <2>1, <3>2 DEF Orders, LiveEdge, AtNode
      <4>2. y = i
        BY <2>1, <4>1 DEF Orders, node, AtNode
      <4> QED BY <2>1, <4>1, <4>2 DEF Passed
    <3> QED BY <3>1, <3>2 DEF sources, contributing
  <2>3. fed' = [n \in DOMAIN fed \cup {node} |-> IF n = node THEN sources(n) ELSE fed[n]]
    BY <1>8 DEF StartStep
  <2>4. graph' = graph /\ FedByEverySource'
    BY <1>8, <2>2, <2>3 DEF StartStep, FedByEverySource, LiveEdge
  <2>5. UNCHANGED <<order, i, outputs, failed>> /\ pc' \in {"call", "connect"} /\ isTool(node)
    BY <1>8 DEF StartStep
  <2> QED BY <1>0, <1>1, <2>1, <2>4, <2>5 DEF AtNode, Passed
<1>9. CASE Connected
  BY <1>0, <1>1, <1>9 DEF Connected, AtNode, Passed
<1>10. CASE StepFails
  <2>1. failed' /\ i' = i + 1 /\ pc' = "loop" /\ UNCHANGED <<order, graph, fed>>
    BY <1>10 DEF StepFails, StepEnds
  <2> QED BY <1>1, <1>10, <2>1 DEF StepFails
<1>11. CASE CallReturns
  <2>1. Passed(i) = Passed(i - 1) \cup {node}
    BY PassedNext DEF node
  <2>2. i' = i + 1 /\ Passed(i - 1)' = Passed(i)
    BY <1>11 DEF CallReturns, StepEnds, Passed
  <2> QED BY <1>1, <1>11, <2>1, <2>2 DEF CallReturns, StepEnds, AtNode
<1>12. CASE Dispose \/ Finish \/ Error \/ Record
  BY <1>1, <1>12 DEF Dispose, Finish, Error, Record, AtNode
<1>13. CASE Tick \/ Leave \/ Closed \/ UNCHANGED vars
  <2>1. UNCHANGED <<order, pc, i, outputs, failed, fed>>
    BY <1>13 DEF Tick, Leave, Closed, vars, control
  <2>2. graph' = graph
    BY <1>13 DEF Tick, Leave, Closed, vars
  <2> QED BY <1>0, <1>1, <2>1, <2>2 DEF Passed
<1> QED BY <1>2, <1>3, <1>4, <1>5, <1>6, <1>7, <1>8, <1>9, <1>10, <1>11, <1>12, <1>13
        DEF Next, Engine, Nowhere, TimesOut

LEMMA InitFed == Init => FedInv
BY DEF Init, FedInv, Called, Looping, FedByEverySource

\* Whatever fails on the way, a tool that is called has an argument from every
\* node that feeds it.
THEOREM ToolsAreFed == Spec => []FedByEverySource
<1>1. FedInv => FedByEverySource
  BY DEF FedInv
<1>2. FedInv /\ [Next]_vars => FedInv'
  BY StepFed
<1> QED BY InitFed, <1>1, <1>2, PTL DEF Spec

-----------------------------------------------------------------------------
(* The stream *)

last == stream[Len(stream)]
AtRest == {"run:start", "step:finish"}

\* Where the handler is, in terms of what it has told.
StreamInv ==
  /\ stream \in Seq(Stream!Events)
  /\ pc = "start" => stream = <<>>
  /\ pc \in Looping \cup {"dispose", "finish"} => stream # <<>>
  /\ pc \in {"loop", "finish"} => last.type \in AtRest
  /\ pc \in Called => last.type = "step:start" /\ last.node = node
  /\ pc = "dispose" => last.type \in AtRest \/ (thrown /\ last.type = "step:start")
  /\ pc = "error" /\ stream # <<>> => last.type \notin {"run:finish", "run:error"}
  /\ Stream!HasFailed(stream) <=> failed
  /\ pc = "loop" => Stream!Started(stream) \subseteq Passed(i - 1)
  /\ pc \in Called => Stream!Started(stream) \subseteq Passed(i)

LEMMA AppendTold ==
  ASSUME NEW s \in Seq(Stream!Events), NEW e \in Stream!Events
  PROVE  /\ Append(s, e) \in Seq(Stream!Events) /\ Append(s, e) # <<>>
         /\ Append(s, e)[Len(Append(s, e))] = e
         /\ Stream!HasFailed(Append(s, e))
              <=> Stream!HasFailed(s) \/ (e.type = "step:finish" /\ e.status = "failed")
         /\ Stream!Started(Append(s, e))
              = Stream!Started(s) \cup {n \in {e.node} : e.type = "step:start"}
<1>1. Append(s, e) \in Seq(Stream!Events) /\ Append(s, e) # <<>> /\ Len(s) \in Nat
      /\ Len(Append(s, e)) = Len(s) + 1 /\ Append(s, e)[Len(s) + 1] = e
  OBVIOUS
<1>2. \A k \in 1..Len(s) : Append(s, e)[k] = s[k]
  OBVIOUS
<1>3. 1..(Len(s) + 1) = 1..Len(s) \cup {Len(s) + 1}
  BY <1>1
<1>4. Stream!HasFailed(Append(s, e))
        <=> Stream!HasFailed(s) \/ (e.type = "step:finish" /\ e.status = "failed")
  BY <1>1, <1>2, <1>3 DEF Stream!HasFailed
<1>5. Stream!Started(Append(s, e))
        = Stream!Started(s) \cup {n \in {e.node} : e.type = "step:start"}
  BY <1>1, <1>2, <1>3 DEF Stream!Started
<1> QED BY <1>1, <1>4, <1>5

\* One more event told, as RunStream allows.
Tells(e) == e \in Stream!Events /\ Stream!Follows(stream, e) /\ stream' = Append(stream, e)

LEMMA EventTypes ==
  ASSUME NEW t, NEW n, NEW s,
         \/ t \in {"run:start", "run:error"} /\ n = None /\ s = "none"
         \/ t = "run:finish" /\ n = None /\ s \in {"succeeded", "failed"}
         \/ t = "step:start" /\ n \in Nodes /\ s = "none"
         \/ t = "step:finish" /\ n \in Nodes /\ s \in {"succeeded", "failed"}
  PROVE  /\ Event(t, n, s) \in Stream!Events
         /\ Event(t, n, s).type = t /\ Event(t, n, s).node = n /\ Event(t, n, s).status = s
BY DEF Event, Stream!Event, Stream!Events

\* The node the handler is at, once a step of it is under way or about to be.
LEMMA AtANode ==
  ASSUME FedInv, pc \in Called \/ AtNode
  PROVE  /\ i \in 1..Len(order) /\ Orders(order, graph) /\ node \in Nodes
         /\ node \notin Passed(i - 1) /\ Passed(i) = Passed(i - 1) \cup {node}
<1>1. i \in 1..Len(order) /\ Orders(order, graph)
  BY DEF FedInv, AtNode, Called, Looping, Orders
<1>2. node \in Nodes
  BY <1>1 DEF Orders, node
<1>3. node \notin Passed(i - 1)
  BY <1>1 DEF Orders, node, Passed
<1> QED BY <1>1, <1>2, <1>3, PassedNext DEF node

\* What becomes of the stream when an event is told.
LEMMA Telling ==
  ASSUME StreamInv, NEW e \in Stream!Events, stream' = Append(stream, e)
  PROVE  /\ stream' \in Seq(Stream!Events) /\ stream' # <<>> /\ last' = e
         /\ Stream!HasFailed(stream)' <=> failed \/ (e.type = "step:finish" /\ e.status = "failed")
         /\ Stream!Started(stream)'
              = Stream!Started(stream) \cup {n \in {e.node} : e.type = "step:start"}
BY AppendTold DEF StreamInv, last

LEMMA StepStream ==
  ASSUME FedInv, StreamInv, [Next]_vars
  PROVE  StreamInv' /\ ((\E e : Tells(e)) \/ stream' = stream)
<1> USE DEF Called, Looping, AtRest
<1>1. CASE RefuseGraph
  BY <1>1 DEF RefuseGraph, StreamInv
<1>2. CASE Begin
  <2> DEFINE e == Event("run:start", None, "none")
  <2>1. stream' = Append(stream, e) /\ stream = <<>> /\ pc' = "loop" /\ failed' = failed
    BY <1>2 DEF Begin, Send, StreamInv
  <2>2. e \in Stream!Events /\ e.type = "run:start"
    BY EventTypes
  <2> HIDE DEF e
  <2>3. Tells(e)
    BY <2>1, <2>2 DEF Tells, Stream!Follows
  <2>4. Stream!Started(stream) = {}
    BY <2>1 DEF Stream!Started
  <2>5. StreamInv'
    BY <2>1, <2>2, <2>4, Telling DEF StreamInv
  <2> QED BY <2>3, <2>5
<1>3. CASE Boundary \/ Skip
  <2>1. Passed(i - 1) \subseteq Passed(i - 1)'
    BY <1>3 DEF Boundary, Skip, AtNode, Passed, FedInv
  <2>2. UNCHANGED <<stream, pc, failed, thrown>>
    BY <1>3 DEF Boundary, Skip
  <2> QED BY <1>3, <2>1, <2>2 DEF StreamInv, last, Boundary, Skip, AtNode
<1>4. CASE BoundaryThrows \/ Stop \/ LoopEnds
  BY <1>4 DEF BoundaryThrows, Stop, LoopEnds, AtNode, StreamInv, last
<1>5. CASE StartUnsafe \/ StartNowhere \/ StartStep
  <2> DEFINE e == Event("step:start", node, "none")
  <2>1. AtNode /\ ~failed /\ stream' = Append(stream, e) /\ UNCHANGED <<order, i, failed>>
    BY <1>5 DEF StartUnsafe, StartNowhere, StartStep, SkipsRest, Send
  <2>2. pc = "loop" /\ (pc' \in Called \/ (pc' = "dispose" /\ thrown'))
    BY <1>5 DEF StartUnsafe, StartNowhere, StartStep, AtNode
  <2>3. node \in Nodes /\ node \notin Passed(i - 1) /\ Passed(i) = Passed(i - 1) \cup {node}
    BY <2>1, AtANode
  <2>4. e \in Stream!Events /\ e.type = "step:start" /\ e.node = node
    BY <2>3, EventTypes
  <2> HIDE DEF e
  <2>5. Tells(e)
    BY <2>1, <2>2, <2>3, <2>4 DEF Tells, Stream!Follows, StreamInv, last
  <2>6. node' = node /\ Passed(i)' = Passed(i)
    BY <2>1 DEF node, Passed
  <2>7. StreamInv'
    BY <2>1, <2>2, <2>3, <2>4, <2>6, Telling DEF StreamInv
  <2> QED BY <2>5, <2>7
<1>6. CASE Connected
  <2>1. node' = node /\ Passed(i)' = Passed(i) /\ last' = last
    BY <1>6 DEF Connected, node, Passed, last
  <2> QED BY <1>6, <2>1 DEF Connected, StreamInv
<1>7. ASSUME NEW s \in {"succeeded", "failed"}, pc \in Called,
             stream' = Append(stream, Event("step:finish", node, s)), StepEnds(s),
             order' = order
      PROVE  StreamInv' /\ \E e : Tells(e)
  <2> DEFINE e == Event("step:finish", node, s)
  <2>1. node \in Nodes /\ ~failed
    BY <1>7, AtANode DEF FedInv
  <2>2. e \in Stream!Events /\ e.type = "step:finish" /\ e.node = node /\ e.status = s
    BY <1>7, <2>1, EventTypes
  <2> HIDE DEF e
  <2>3. stream' = Append(stream, e)
    BY <1>7 DEF e
  <2>4. Tells(e)
    BY <1>7, <2>2, <2>3 DEF Tells, Stream!Follows, StreamInv, last
  <2>5. Passed(i - 1)' = Passed(i) /\ pc' = "loop" /\ (failed' <=> s = "failed")
    <3>1. i \in Nat /\ i' = i + 1 /\ order' = order
      BY <1>7 DEF StepEnds, FedInv
    <3>2. i' - 1 = i
      BY <3>1
    <3>3. Passed(i - 1)' = Passed(i)
      BY <3>1, <3>2 DEF Passed
    <3>4. pc' = "loop" /\ (failed' <=> s = "failed")
      BY <1>7 DEF StepEnds
    <3> QED BY <3>3, <3>4
  <2>6. StreamInv'
    BY <1>7, <2>1, <2>2, <2>3, <2>5, Telling DEF StreamInv
  <2> QED BY <2>4, <2>6
<1>8. CASE StepFails \/ CallReturns
  <2>1. CASE StepFails
    BY <1>7, <2>1 DEF StepFails, Send, Called
  <2>2. CASE CallReturns
    BY <1>7, <2>2 DEF CallReturns, Send, Called
  <2> QED BY <1>8, <2>1, <2>2
<1>9. CASE Dispose \/ Record
  BY <1>9 DEF Dispose, Record, StreamInv, last
<1>10. CASE Finish
  <2> DEFINE e == Event("run:finish", None, Outcome)
  <2>1. stream' = Append(stream, e) /\ pc = "finish" /\ pc' = "record" /\ failed' = failed
    BY <1>10 DEF Finish, Send
  <2>2. e \in Stream!Events /\ e.type = "run:finish" /\ e.status = Outcome
    BY EventTypes DEF Outcome
  <2> HIDE DEF e
  <2>3. Tells(e)
    BY <2>1, <2>2 DEF Tells, Stream!Follows, StreamInv, last, Outcome
  <2>4. StreamInv'
    BY <2>1, <2>2, Telling DEF StreamInv
  <2> QED BY <2>3, <2>4
<1>11. CASE Error
  <2> DEFINE e == Event("run:error", None, "none")
  <2>1. stream' = Append(stream, e) /\ pc = "error" /\ pc' = "record" /\ failed' = failed
    BY <1>11 DEF Error, Send
  <2>2. e \in Stream!Events /\ e.type = "run:error"
    BY EventTypes
  <2> HIDE DEF e
  <2>3. Tells(e)
    BY <2>1, <2>2 DEF Tells, Stream!Follows, StreamInv, last
  <2>4. StreamInv'
    BY <2>1, <2>2, Telling DEF StreamInv
  <2> QED BY <2>3, <2>4
<1>12. CASE Tick \/ Leave \/ Closed \/ UNCHANGED vars
  <2>1. UNCHANGED <<stream, pc, i, order, failed, thrown>>
    BY <1>12 DEF Tick, Leave, Closed, vars, control
  <2> QED BY <2>1 DEF StreamInv, last, node, Passed
<1> QED BY <1>1, <1>2, <1>3, <1>4, <1>5, <1>6, <1>8, <1>9, <1>10, <1>11, <1>12
        DEF Next, Engine, Nowhere, TimesOut

\* The engine streams every run the way RunStream promises it to its readers.
THEOREM RunsAreToldInOrder == Spec => StreamSpec
<1>1. Init => StreamInv /\ Stream!Init
  <2>1. Init => stream = <<>> /\ pc = "start" /\ ~failed
    BY DEF Init
  <2> QED BY <2>1 DEF StreamInv, Called, Looping, Stream!Init, Stream!HasFailed
<1>2. FedInv /\ StreamInv /\ [Next]_vars => FedInv' /\ StreamInv' /\ [Stream!Next]_stream
  BY StepFed, StepStream DEF Tells, Stream!Next
<1> QED BY InitFed, <1>1, <1>2, PTL DEF Spec, StreamSpec, Stream!Spec

-----------------------------------------------------------------------------
(* The list of results, the last event and the row *)

Results == [node : Nodes, status : {"succeeded", "failed", "skipped"}]
Listed == {results[k].node : k \in 1..Len(results)}
ToolsOf(S) == {n \in S : isTool(n)}

\* The results so far: one for each tool passed, in order, and nothing but
\* skipped steps after a failure.
InOrder ==
  \A j, k \in 1..Len(results) : j < k =>
     /\ results[j].node # results[k].node
     /\ \E x, y \in 1..Len(order) :
           x < y /\ order[x] = results[j].node /\ order[y] = results[k].node
SkippedAfterFailure ==
  /\ \A k \in 1..Len(results) :
        results[k].status = "skipped" <=> k > 1 /\ results[k - 1].status # "succeeded"
  /\ failed <=> \E k \in 1..Len(results) : results[k].status # "succeeded"
  /\ failed => results[Len(results)].status # "succeeded"

Before == Looping \cup {"start"}

ResultsInv ==
  /\ results \in Seq(Results)
  /\ InOrder /\ SkippedAfterFailure
  /\ pc = "start" => results = <<>>
  /\ pc \in Before => ~thrown
  /\ pc \in Looping => i <= Len(order) + 1 /\ Listed = ToolsOf(Passed(i - 1))
  /\ pc \notin Before /\ ~thrown => Listed = ToolsOf(ToSet(graph.nodes))
  /\ (pc = "error" => thrown) /\ (pc = "finish" => ~thrown)

\* One more result, for the node the loop is at.
LEMMA OneMoreResult ==
  ASSUME FedInv, ResultsInv, pc \in Called \/ AtNode, isTool(node), i' = i + 1, pc' = "loop",
         NEW st \in {"succeeded", "failed", "skipped"}, st = "skipped" <=> failed,
         failed' <=> st # "succeeded", UNCHANGED <<graph, order, thrown>>,
         results' = Append(results, [node |-> node, status |-> st])
  PROVE  ResultsInv'
<1> DEFINE r == [node |-> node, status |-> st]
<1>1. /\ i \in 1..Len(order) /\ Orders(order, graph) /\ node \in Nodes
      /\ node \notin Passed(i - 1) /\ Passed(i) = Passed(i - 1) \cup {node}
  BY AtANode
<1>2. r \in Results /\ r.node = node /\ r.status = st
  BY <1>1 DEF Results
<1> HIDE DEF r
<1>3. /\ results' \in Seq(Results) /\ Len(results) \in Nat /\ Len(results') = Len(results) + 1
      /\ results'[Len(results) + 1] = r /\ \A k \in 1..Len(results) : results'[k] = results[k]
  BY <1>2 DEF ResultsInv, r
<1>4. Listed' = Listed \cup {node}
  BY <1>2, <1>3 DEF Listed
<1>5. pc \in Looping /\ Listed = ToolsOf(Passed(i - 1)) /\ ~thrown
  BY DEF ResultsInv, AtNode, Looping, Before
<1>6. Passed(i - 1)' = Passed(i)
  BY <1>1 DEF Passed
<1>7. Listed' = ToolsOf(Passed(i - 1))'
  BY <1>1, <1>4, <1>5, <1>6 DEF ToolsOf, isTool
<1>8. InOrder'
  <2>1. ASSUME NEW j \in 1..Len(results)
        PROVE  /\ results[j].node # node
               /\ \E x, y \in 1..Len(order) : x < y /\ order[x] = results[j].node /\ order[y] = node
    <3>1. results[j].node \in Passed(i - 1)
      BY <1>5 DEF Listed, ToolsOf
    <3>2. PICK x \in 1..(i - 1) : order[x] = results[j].node
      BY <3>1 DEF Passed
    <3>3. x \in 1..Len(order) /\ x < i /\ order[i] = node
      BY <1>1 DEF node
    <3> QED BY <1>1, <3>1, <3>2, <3>3
  <2>2. ASSUME NEW j \in 1..Len(results'), NEW k \in 1..Len(results'), j < k
        PROVE  /\ results'[j].node # results'[k].node
               /\ \E x, y \in 1..Len(order') :
                     x < y /\ order'[x] = results'[j].node /\ order'[y] = results'[k].node
    <3> order' = order
      OBVIOUS
    <3>1. j \in 1..Len(results) /\ results'[j] = results[j]
      BY <1>3, <2>2
    <3>2. CASE k \in 1..Len(results)
      BY <1>3, <2>2, <3>1, <3>2 DEF ResultsInv, InOrder
    <3>3. CASE k = Len(results) + 1
      <4>1. results'[k].node = node
        BY <1>2, <1>3, <3>3
      <4> QED BY <2>1, <3>1, <4>1
    <3>4. k \in 1..Len(results) \/ k = Len(results) + 1
      BY <1>3
    <3> QED BY <3>2, <3>3, <3>4
  <2> QED BY <2>2 DEF InOrder
<1>9. SkippedAfterFailure'
  <2>1. \A k \in 1..Len(results') : k = Len(results) + 1 \/ k \in 1..Len(results)
    BY <1>3
  <2> DEFINE L == Len(results)
  <2>2. failed <=> L + 1 > 1 /\ results[L].status # "succeeded"
    <3>1. ASSUME failed PROVE L + 1 > 1 /\ results[L].status # "succeeded"
      <4>1. PICK k \in 1..L : results[k].status # "succeeded"
        BY <3>1 DEF ResultsInv, SkippedAfterFailure
      <4> QED BY <1>3, <3>1, <4>1 DEF ResultsInv, SkippedAfterFailure
    <3>2. ASSUME L + 1 > 1, results[L].status # "succeeded" PROVE failed
      <4>1. L \in 1..L
        BY <1>3, <3>2
      <4> QED BY <3>2, <4>1 DEF ResultsInv, SkippedAfterFailure
    <3> QED BY <3>1, <3>2
  <2>3. \A k \in 1..Len(results') : k > 1 => results'[k - 1] = results[k - 1]
    BY <1>3
  <2>4. ASSUME NEW k \in 1..Len(results')
        PROVE  results'[k].status = "skipped" <=> k > 1 /\ results'[k - 1].status # "succeeded"
    <3>1. CASE k = L + 1
      <4>1. k - 1 = L /\ results'[k] = r /\ (k > 1 => results'[k - 1] = results[L])
        BY <1>3, <2>3, <3>1
      <4> QED BY <1>2, <2>2, <3>1, <4>1
    <3>2. CASE k \in 1..L
      BY <1>3, <2>3, <3>2 DEF ResultsInv, SkippedAfterFailure
    <3> QED BY <2>1, <3>1, <3>2
  <2>5. failed' <=> \E k \in 1..Len(results') : results'[k].status # "succeeded"
    BY <1>2, <1>3, <2>1 DEF ResultsInv, SkippedAfterFailure
  <2> QED BY <1>2, <1>3, <2>4, <2>5 DEF SkippedAfterFailure
<1> QED BY <1>1, <1>3, <1>5, <1>7, <1>8, <1>9 DEF ResultsInv, Before, Looping, Called

LEMMA StepResults ==
  ASSUME FedInv, ResultsInv, [Next]_vars
  PROVE  ResultsInv'
<1> USE DEF Before, Looping, Called
<1>1. ASSUME UNCHANGED <<graph, order, results, failed>>
      PROVE  /\ InOrder' /\ SkippedAfterFailure' /\ Listed' = Listed /\ results' \in Seq(Results)
             /\ \A n : Passed(n)' = Passed(n)
             /\ \A S : ToolsOf(S)' = ToolsOf(S)
  <2>1. Listed' = Listed /\ results' \in Seq(Results)
    BY <1>1 DEF ResultsInv, Listed
  <2>2. InOrder' /\ SkippedAfterFailure'
    BY <1>1 DEF ResultsInv, InOrder, SkippedAfterFailure
  <2>3. \A n : Passed(n)' = Passed(n)
    BY <1>1 DEF Passed
  <2>4. \A S : ToolsOf(S)' = ToolsOf(S)
    BY <1>1 DEF ToolsOf, isTool
  <2> QED BY <2>1, <2>2, <2>3, <2>4
<1>2. CASE RefuseGraph
  BY <1>1, <1>2 DEF RefuseGraph, ResultsInv
<1>3. CASE Begin
  <2>1. results = <<>> /\ results' = <<>> /\ i' = 1 /\ pc' = "loop" /\ ~failed' /\ ~thrown'
    BY <1>3 DEF Begin, ResultsInv, FedInv
  <2>2. Listed' = {} /\ Passed(i - 1)' = {}
    BY <2>1 DEF Listed, Passed
  <2>3. Orders(order', graph)
    BY <1>3, OrdersAreSound DEF Begin, FedInv
  <2>4. i' <= Len(order') + 1
    BY <2>1, <2>3 DEF Orders
  <2>5. InOrder' /\ SkippedAfterFailure'
    BY <2>1 DEF InOrder, SkippedAfterFailure
  <2> QED BY <2>1, <2>2, <2>4, <2>5 DEF ResultsInv, ToolsOf
<1>4. CASE Boundary
  <2>1. /\ i \in 1..Len(order) /\ Passed(i) = Passed(i - 1) \cup {node}
        /\ i' = i + 1 /\ i' - 1 = i /\ ~isTool(node)
    BY <1>4, AtANode DEF Boundary
  <2>2. UNCHANGED <<graph, order, results, failed, pc, thrown>>
    BY <1>4 DEF Boundary
  <2>3. Listed = ToolsOf(Passed(i - 1)) /\ pc = "loop" /\ ~thrown
    BY <1>4 DEF Boundary, AtNode, ResultsInv
  <2>4. Listed' = ToolsOf(Passed(i - 1))'
    <3>1. ToolsOf(Passed(i)) = ToolsOf(Passed(i - 1))
      BY <2>1 DEF ToolsOf
    <3>2. Passed(i - 1)' = Passed(i)
      BY <2>1, <2>2 DEF Passed
    <3> QED BY <1>1, <2>2, <2>3, <3>1, <3>2 DEF ToolsOf, isTool
  <2>5. i' <= Len(order') + 1
    BY <2>1, <2>2
  <2> QED BY <1>1, <2>2, <2>3, <2>4, <2>5 DEF ResultsInv
<1>5. CASE BoundaryThrows \/ Stop \/ StartUnsafe
  <2>1. pc' = "dispose" /\ thrown' /\ UNCHANGED <<graph, order, results, failed>>
    BY <1>5 DEF BoundaryThrows, Stop, StartUnsafe
  <2> QED BY <1>1, <2>1 DEF ResultsInv
<1>6. CASE LoopEnds
  <2>1. /\ pc = "loop" /\ i > Len(order) /\ pc' = "dispose"
        /\ UNCHANGED <<graph, order, results, failed, thrown>>
    BY <1>6 DEF LoopEnds
  <2>2. order \in Seq(Nodes) /\ ToSet(order) = ToSet(graph.nodes)
    BY <2>1 DEF FedInv, Orders
  <2>3. i \in Nat /\ Len(order) \in Nat /\ i <= Len(order) + 1 /\ Listed = ToolsOf(Passed(i - 1))
    BY <2>1, <2>2 DEF FedInv, ResultsInv
  <2>4. Passed(i - 1) = ToSet(order)
    <3>1. i - 1 = Len(order)
      BY <2>1, <2>3
    <3> QED BY <2>2, <3>1, Members DEF Passed
  <2>5. Listed' = ToolsOf(ToSet(graph.nodes))'
    BY <1>1, <2>1, <2>2, <2>3, <2>4
  <2> QED BY <1>1, <2>1, <2>5 DEF ResultsInv
<1>7. CASE StartNowhere \/ StartStep
  <2>1. /\ pc = "loop" /\ pc' \in Called /\ ~thrown
        /\ UNCHANGED <<graph, order, results, failed, i, thrown>>
    BY <1>7 DEF StartNowhere, StartStep, AtNode, ResultsInv
  <2> QED BY <1>1, <2>1 DEF ResultsInv
<1>8. CASE Skip
  <2>1. failed /\ results' = Append(results, [node |-> node, status |-> "skipped"])
    BY <1>8 DEF Skip, SkipsRest
  <2> QED BY <1>8, <2>1, OneMoreResult DEF Skip, AtNode
<1>9. ASSUME NEW st \in {"succeeded", "failed"}, pc \in Called, StepEnds(st),
             UNCHANGED <<graph, order, thrown>>, isTool(node)
      PROVE  ResultsInv'
  <2>1. ~failed
    BY <1>9 DEF FedInv
  <2> QED BY <1>9, <2>1, OneMoreResult DEF StepEnds
<1>10. CASE StepFails \/ CallReturns
  <2>1. isTool(node)
    BY <1>10 DEF FedInv, StepFails, CallReturns
  <2> QED BY <1>9, <1>10, <2>1 DEF StepFails, CallReturns
<1>11. CASE Connected
  <2>1. /\ pc = "connect" /\ pc' = "call"
        /\ UNCHANGED <<graph, order, results, failed, i, thrown>>
    BY <1>11 DEF Connected
  <2> QED BY <1>1, <2>1 DEF ResultsInv
<1>12. CASE Dispose \/ Finish \/ Error \/ Record
  <2>1. /\ pc \notin Before /\ pc' \notin Before /\ (pc' = "error" => thrown)
        /\ (pc' = "finish" => ~thrown)
        /\ UNCHANGED <<graph, order, results, failed, i, thrown>>
    BY <1>12 DEF Dispose, Finish, Error, Record
  <2> QED BY <1>1, <2>1 DEF ResultsInv
<1>13. CASE Tick \/ Leave \/ Closed \/ UNCHANGED vars
  <2>1. UNCHANGED <<graph, order, results, failed, i, thrown, pc>>
    BY <1>13 DEF Tick, Leave, Closed, vars, control
  <2> QED BY <1>1, <2>1 DEF ResultsInv
<1> QED BY <1>2, <1>3, <1>4, <1>5, <1>6, <1>7, <1>8, <1>10, <1>11, <1>12, <1>13
        DEF Next, Engine, Nowhere, TimesOut

Over == {"record", "ended"}

\* What was told last, and the row that was sent.
EndInv ==
  /\ pc \notin Over => OfType("run:finish") = {}
  /\ pc \in Over /\ ~thrown =>
       OfType("run:finish") = {Len(stream)} /\ stream[Len(stream)].status = Outcome
  /\ pc \in Over /\ thrown =>
       /\ OfType("run:finish") = {} /\ Len(stream) \in OfType("run:error")
       /\ stream[Len(stream)].status = "none"
  /\ record \in {<<>>, Row}
  /\ pc # "ended" => record = <<>>

LEMMA StepEnd ==
  ASSUME ResultsInv, stream \in Seq(Stream!Events), EndInv, [Next]_vars
  PROVE  EndInv'
<1> USE DEF Over
<1>1. IsSeq(stream)
  BY DEF IsSeq
<1>2. ASSUME NEW e, stream' = Append(stream, e), e.type # "run:finish", record' = record,
             pc \notin Over, pc' \notin Over
      PROVE  EndInv'
  <2>1. OfType("run:finish")' = OfType("run:finish")
    BY <1>1, <1>2, OtherEvents
  <2> QED BY <1>2, <2>1 DEF EndInv
<1>3. CASE Begin \/ StartUnsafe \/ StartNowhere \/ StartStep \/ StepFails \/ CallReturns
  <2>1. \E t \in {"run:start", "step:start", "step:finish"} : \E n, st :
          stream' = Append(stream, Event(t, n, st))
    BY <1>3 DEF Begin, StartUnsafe, StartNowhere, StartStep, StepFails, CallReturns, Send
  <2>2. record' = record /\ pc \notin Over /\ pc' \notin Over
    BY <1>3 DEF Begin, StartUnsafe, StartNowhere, StartStep, StepFails, CallReturns, AtNode,
                StepEnds
  <2>3. PICK e : stream' = Append(stream, e) /\ e.type # "run:finish"
    BY <2>1 DEF Event, Stream!Event
  <2> QED BY <1>2, <2>2, <2>3
<1>4. ASSUME UNCHANGED <<stream, record>>, pc \notin Over, pc' \notin Over
      PROVE  EndInv'
  BY <1>4 DEF EndInv, OfType
<1>5. CASE RefuseGraph \/ Boundary \/ BoundaryThrows \/ Skip \/ Stop \/ LoopEnds \/ Connected \/ Dispose
  BY <1>4, <1>5 DEF RefuseGraph, Boundary, BoundaryThrows, Skip, Stop, LoopEnds, Connected,
                    Dispose, AtNode
<1>6. CASE Finish
  <2> DEFINE e == Event("run:finish", None, Outcome)
  <2>1. /\ stream' = Append(stream, e) /\ e.type = "run:finish" /\ e.status = Outcome
        /\ pc = "finish" /\ pc' = "record" /\ UNCHANGED <<record, failed, thrown, results>>
    BY <1>6 DEF Finish, Send, Event, Stream!Event
  <2> HIDE DEF e
  <2>2. /\ Len(stream') = Len(stream) + 1 /\ Len(stream) \in Nat
        /\ stream'[Len(stream) + 1] = e
        /\ \A k \in 1..Len(stream) : stream'[k] = stream[k]
    BY <1>1, <2>1, AppendEvent
  <2>4. OfType("run:finish")' = {Len(stream')}
    BY <2>1, <2>2 DEF EndInv, OfType
  <2>5. record' = <<>> /\ Outcome' = Outcome
    BY <2>1 DEF EndInv, Outcome
  <2>6. ~thrown'
    BY <2>1 DEF ResultsInv
  <2> QED BY <2>1, <2>2, <2>4, <2>5, <2>6 DEF EndInv
<1>7. CASE Error
  <2> DEFINE e == Event("run:error", None, "none")
  <2>1. /\ stream' = Append(stream, e) /\ e.type = "run:error" /\ e.status = "none"
        /\ pc = "error" /\ pc' = "record" /\ UNCHANGED <<record, thrown>>
    BY <1>7 DEF Error, Send, Event, Stream!Event
  <2> HIDE DEF e
  <2>2. /\ Len(stream') = Len(stream) + 1 /\ Len(stream) \in Nat
        /\ stream'[Len(stream) + 1] = e
    BY <1>1, <2>1, AppendEvent
  <2>3. thrown
    BY <2>1 DEF ResultsInv
  <2>4. OfType("run:finish")' = {}
    BY <1>1, <2>1, OtherEvents DEF EndInv
  <2>5. Len(stream') \in OfType("run:error")'
    BY <2>1, <2>2 DEF OfType
  <2> QED BY <2>1, <2>2, <2>3, <2>4, <2>5 DEF EndInv
<1>8. CASE Record
  <2>1. /\ pc = "record" /\ pc' = "ended" /\ record' \in {<<>>, Row}
        /\ UNCHANGED <<stream, thrown, failed, results>>
    BY <1>8 DEF Record
  <2> QED BY <2>1 DEF EndInv, OfType, Outcome, Row
<1>9. CASE Tick \/ Leave \/ Closed \/ UNCHANGED vars
  <2>1. UNCHANGED <<pc, stream, record, thrown, failed, results>>
    BY <1>9 DEF Tick, Leave, Closed, vars, control
  <2> QED BY <2>1 DEF EndInv, OfType, Outcome, Row
<1> QED BY <1>3, <1>5, <1>6, <1>7, <1>8, <1>9 DEF Next, Engine, Nowhere, TimesOut

LEMMA OneStory ==
  ASSUME FedInv, ResultsInv, EndInv
  PROVE  RunIsToldOnce
<1>1. ASSUME OfType("run:finish") # {} PROVE pc \in Over /\ ~thrown
  BY <1>1 DEF EndInv, Over
<1>2. ASSUME pc \in Over PROVE pc \notin Before
  BY <1>2 DEF Over, Before, Looping, Called
<1>3. FinishListsEveryTool
  BY <1>1, <1>2 DEF FinishListsEveryTool, ResultsInv, EndInv, InOrder, SkippedAfterFailure,
                    Listed, ToolsOf, Outcome
<1>4. ASSUME record # <<>> PROVE RecordAgreesWithStream
  <2>1. record = Row /\ pc \in Over
    BY <1>4 DEF EndInv, Over
  <2>2. CASE thrown
    BY <2>1, <2>2 DEF RecordAgreesWithStream, EndInv, Terminal, Row
  <2>3. CASE ~thrown
    BY <2>1, <2>3 DEF RecordAgreesWithStream, EndInv, Terminal, Row, Outcome
  <2> QED BY <2>2, <2>3
<1> QED BY <1>3, <1>4 DEF RunIsToldOnce, RecordAgreesWithStream

\* However a run ends, what it lists, its last event and its row agree.
THEOREM RunsAreToldOnce == Spec => []RunIsToldOnce
<1>1. Init => ResultsInv /\ EndInv
  <2>1. Init => /\ results = <<>> /\ pc = "start" /\ ~failed /\ ~thrown
                /\ stream = <<>> /\ record = <<>>
    BY DEF Init
  <2>2. ASSUME Init PROVE ResultsInv
    BY <2>1, <2>2 DEF ResultsInv, InOrder, SkippedAfterFailure, Before, Looping, Called
  <2>3. ASSUME Init PROVE EndInv
    BY <2>1, <2>3 DEF EndInv, OfType, Over
  <2> QED BY <2>2, <2>3
<1>2. Init => StreamInv
  <2>1. Init => stream = <<>> /\ pc = "start" /\ ~failed
    BY DEF Init
  <2> QED BY <2>1 DEF StreamInv, Called, Looping, Stream!HasFailed
<1>3. FedInv /\ ResultsInv /\ StreamInv /\ EndInv /\ [Next]_vars
        => FedInv' /\ ResultsInv' /\ StreamInv' /\ EndInv'
  BY StepFed, StepResults, StepStream, StepEnd DEF StreamInv
<1>4. FedInv /\ ResultsInv /\ EndInv => RunIsToldOnce
  BY OneStory
<1> QED BY InitFed, <1>1, <1>2, <1>3, <1>4, PTL DEF Spec
=============================================================================
