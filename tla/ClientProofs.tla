----------------------------- MODULE ClientProofs -----------------------------
(***************************************************************************)
(* Proofs about what one client runs.  EventDelivery and ClientDrain: the  *)
(* queue of a subscription, the order its events start in and what a drain *)
(* leaves behind, for every number of keys, events, tasks and requests and *)
(* every limit.  LogicalScheduler and TaskTimers: the timers of the        *)
(* records of ScheduledTasks, for all delays, timers and clocks.           *)
(***************************************************************************)
EXTENDS ClientDrain, TaskTimers, DataLemmas

-----------------------------------------------------------------------------
(* Removing from a sequence *)

\* v is w without the elements at S: h says where each element of v stood, and nothing has moved
\* below the first index removed.
Keeps(h, v, w, S) ==
    /\ h \in [1..Len(v) -> (1..Len(w)) \ S]
    /\ \A m, n \in 1..Len(v) : m < n => h[m] < h[n]
    /\ \A m \in 1..Len(v) : v[m] = w[h[m]]
    /\ \A i \in (1..Len(w)) \ S : \E m \in 1..Len(v) : h[m] = i
    /\ \A i \in 1..Len(w) : (\A s \in S : i < s) => i \in 1..Len(v) /\ h[i] = i
Kept(v, w, S) == \E h : Keeps(h, v, w, S)

LEMMA KeepsAll == ASSUME NEW E, NEW w \in Seq(E) PROVE Kept(w, w, {})
<1>1. Keeps([i \in 1..Len(w) |-> i], w, w, {})
  BY DEF Keeps
<1> QED
  BY <1>1 DEF Kept

LEMMA RemovesOne ==
    ASSUME NEW E, NEW w \in Seq(E), NEW v \in Seq(E), NEW S \in SUBSET (1..Len(w)), Kept(v, w, S),
           NEW i \in 1..Len(w), \A s \in S : i < s
    PROVE  RemoveAt(v, i) \in Seq(E) /\ Kept(RemoveAt(v, i), w, S \cup {i})
<1>1. PICK h : Keeps(h, v, w, S)
  BY DEF Kept
<1>2. i \in 1..Len(v) /\ h[i] = i /\ Len(v) \in Nat /\ Len(w) \in Nat
  BY <1>1 DEF Keeps
<1> DEFINE u == RemoveAt(v, i)
           g == [m \in 1..(Len(v) - 1) |-> IF m < i THEN h[m] ELSE h[m + 1]]
<1>3. /\ u \in Seq(E) /\ Len(u) = Len(v) - 1
      /\ \A j \in 1..(Len(v) - 1) : u[j] = IF j < i THEN v[j] ELSE v[j + 1]
  BY <1>2, RemoveAtIs
<1> HIDE DEF u
<1>4. \A m \in 1..Len(v) : h[m] \in (1..Len(w)) \ S /\ (m < i => h[m] < i) /\ (i < m => i < h[m])
  BY <1>1, <1>2 DEF Keeps
<1>5. ASSUME NEW m \in 1..Len(u)
      PROVE  g[m] \in (1..Len(w)) \ (S \cup {i}) /\ u[m] = w[g[m]]
  <2>1. m \in 1..(Len(v) - 1) /\ m \in 1..Len(v) /\ m + 1 \in 1..Len(v)
    BY <1>2, <1>3
  <2>2. CASE m < i
    BY <2>1, <2>2, <1>1, <1>2, <1>3, <1>4 DEF Keeps
  <2>3. CASE ~(m < i)
    <3>1. i < m + 1 /\ g[m] = h[m + 1] /\ u[m] = v[m + 1]
      BY <2>1, <2>3, <1>2, <1>3
    <3> QED
      BY <2>1, <3>1, <1>1, <1>2, <1>4 DEF Keeps
  <2> QED
    BY <2>2, <2>3
<1>6. \A m, n \in 1..Len(u) : m < n => g[m] < g[n]
  <2> SUFFICES ASSUME NEW m \in 1..Len(u), NEW n \in 1..Len(u), m < n
               PROVE  g[m] < g[n]
    OBVIOUS
  <2>1. {m, n, m + 1, n + 1} \subseteq 1..Len(v) /\ m \in 1..(Len(v) - 1) /\ n \in 1..(Len(v) - 1)
    BY <1>2, <1>3
  <2>2. \A a, b \in 1..Len(v) : a < b => h[a] < h[b]
    BY <1>1 DEF Keeps
  <2>3. g[m] = (IF m < i THEN h[m] ELSE h[m + 1]) /\ g[n] = (IF n < i THEN h[n] ELSE h[n + 1])
    BY <2>1
  <2> HIDE DEF g
  <2> QED
    BY <2>1, <2>2, <2>3
<1>7. ASSUME NEW j \in (1..Len(w)) \ (S \cup {i})
      PROVE  \E m \in 1..Len(u) : g[m] = j
  <2>1. PICK m \in 1..Len(v) : h[m] = j
    BY <1>1 DEF Keeps
  <2>2. m < i \/ i < m
    <3>1. m # i
      BY <2>1, <1>2
    <3> QED
      BY <3>1, <1>2
  <2>3. CASE m < i
    <3>1. m \in 1..(Len(v) - 1)
      BY <2>3, <1>2
    <3> QED
      BY <2>1, <2>3, <3>1, <1>3
  <2>4. CASE i < m
    <3>1. m - 1 \in 1..(Len(v) - 1) /\ ~(m - 1 < i) /\ (m - 1) + 1 = m
      BY <2>4, <1>2
    <3> QED
      BY <2>1, <3>1, <1>3
  <2> QED
    BY <2>2, <2>3, <2>4
<1>8. ASSUME NEW j \in 1..Len(w), \A s \in S \cup {i} : j < s
      PROVE  j \in 1..Len(u) /\ g[j] = j
  <2>1. j < i /\ j \in 1..Len(v) /\ h[j] = j
    BY <1>1, <1>8 DEF Keeps
  <2> QED
    BY <2>1, <1>2, <1>3
<1>9. g \in [1..Len(u) -> (1..Len(w)) \ (S \cup {i})]
  BY <1>3, <1>5
<1> HIDE DEF g
<1>10. Keeps(g, u, w, S \cup {i})
  BY <1>5, <1>6, <1>7, <1>8, <1>9 DEF Keeps
<1> QED
  BY <1>3, <1>10 DEF Kept, u

\* Removing the elements at S from the last to the first
Falling(o, S) ==
    /\ o \in [1..Cardinality(S) -> S]
    /\ \A m, n \in 1..Cardinality(S) : m < n => o[m] > o[n]

LEMMA FallingExists ==
    ASSUME NEW S, IsFiniteSet(S), S \subseteq Nat
    PROVE  \E o : Falling(o, S)
<1> DEFINE F == {s \in SUBSET S : \E o : Falling(o, s)}
<1>1. ASSUME NEW s \in SUBSET S, \A x \in s : s \ {x} \in F
      PROVE  s \in F
  <2>1. CASE s = {}
    <3>1. Cardinality(s) = 0 /\ 1..0 = {}
      BY <2>1, FS_EmptySet
    <3>2. Falling(<<>>, s)
      BY <2>1, <3>1 DEF Falling
    <3> QED
      BY <3>2
  <2>2. CASE s # {}
    <3>1. PICK x \in s : \A y \in s : x <= y
      BY <2>2, LeastNumber
    <3>2. PICK o : Falling(o, s \ {x})
      BY <1>1
    <3>3. IsFiniteSet(s) /\ Cardinality(s) \in Nat /\ Cardinality(s \ {x}) = Cardinality(s) - 1
          /\ Cardinality(s) # 0
      BY FS_Subset, FS_CardinalityType, OneLess, FS_EmptySet
    <3> DEFINE k == Cardinality(s)
               p == [m \in 1..k |-> IF m = k THEN x ELSE o[m]]
    <3>4. \A m \in 1..(k - 1) : o[m] \in s /\ o[m] # x /\ o[m] \in Nat /\ x < o[m]
      <4>1. \A m \in 1..(k - 1) : o[m] \in s \ {x}
        BY <3>2, <3>3 DEF Falling
      <4>2. \A y \in s \ {x} : y \in s /\ y # x /\ y \in Nat /\ x < y
        BY <3>1
      <4> HIDE DEF k
      <4> QED
        BY <4>1, <4>2
    <3>5. p \in [1..k -> s]
      BY <3>3, <3>4
    <3>6. \A m, n \in 1..k : m < n => p[m] > p[n]
      <4> SUFFICES ASSUME NEW m \in 1..k, NEW n \in 1..k, m < n
                   PROVE  p[m] > p[n]
        OBVIOUS
      <4>1. m \in 1..(k - 1) /\ p[m] = o[m] /\ x \in Nat
        BY <3>3
      <4>2. CASE n = k
        BY <4>1, <4>2, <3>4
      <4>3. CASE n # k
        <5>1. n \in 1..(k - 1) /\ p[n] = o[n]
          BY <4>3, <3>3
        <5> QED
          BY <4>1, <5>1, <3>2, <3>3 DEF Falling
      <4> QED
        BY <4>2, <4>3
    <3>7. Falling(p, s)
      BY <3>5, <3>6 DEF Falling
    <3> HIDE DEF p
    <3> QED
      BY <3>7
  <2> QED
    BY <2>1, <2>2
<1> HIDE DEF F
<1>2. S \in F
  BY <1>1, InEverySubset
<1> QED
  BY <1>2 DEF F

\* Such an order names every element.
LEMMA FallingIsOnto ==
    ASSUME NEW S, IsFiniteSet(S), S \subseteq Nat, NEW o, Falling(o, S)
    PROVE  {o[m] : m \in 1..Cardinality(S)} = S
<1>1. Cardinality(S) \in Nat
  BY FS_CardinalityType
<1>2. \A m, n \in 1..Cardinality(S) : m # n => o[m] # o[n]
  <2> SUFFICES ASSUME NEW m \in 1..Cardinality(S), NEW n \in 1..Cardinality(S), m # n
               PROVE  o[m] # o[n]
    OBVIOUS
  <2>1. m < n \/ n < m
    BY <1>1
  <2>2. o[m] \in Nat /\ o[n] \in Nat
    BY DEF Falling
  <2> QED
    BY <2>1, <2>2 DEF Falling
<1>3. o \in Injection(1..Cardinality(S), S)
  BY <1>2 DEF Injection, IsInjective, Falling
<1>4. Cardinality(1..Cardinality(S)) = Cardinality(S)
  BY <1>1, FS_Interval
<1>5. o \in Surjection(1..Cardinality(S), S)
  BY <1>3, <1>4, FS_Injection
<1>6. \A m \in 1..Cardinality(S) : o[m] \in S
  BY DEF Falling
<1> QED
  BY <1>5, <1>6 DEF Surjection

LEMMA LastFirstIs ==
    ASSUME NEW S, IsFiniteSet(S), S \subseteq Nat
    PROVE  Falling(LastFirst(S), S)
<1>1. PICK o : Falling(o, S)
  BY FallingExists
<1>2. /\ o \in [1..Cardinality(S) -> S]
      /\ \A m, n \in DOMAIN o : m < n => o[m] > o[n]
  BY <1>1 DEF Falling
<1>3. /\ LastFirst(S) \in [1..Cardinality(S) -> S]
      /\ \A m, n \in DOMAIN LastFirst(S) : m < n => LastFirst(S)[m] > LastFirst(S)[n]
  BY <1>2 DEF LastFirst
<1> QED
  BY <1>3 DEF Falling

-----------------------------------------------------------------------------
(* Folding RemoveAt over a sequence of indices *)

Removes(g, w, o, D) == g = [s \in D |-> IF s = {} THEN w ELSE RemoveAt(g[s \ {Max(s)}], o[Max(s)])]

LEMMA FoldIs ==
    ASSUME NEW w, NEW o
    PROVE  FoldLeft(RemoveAt, w, o) = (CHOOSE g : Removes(g, w, o, SUBSET DOMAIN o))[DOMAIN o]
BY Zenon DEF FoldLeft, MapThenFoldSet, Removes

LEMMA MaxIn ==
    ASSUME NEW n \in Nat, NEW s \in SUBSET (1..n), s # {}
    PROVE  Max(s) \in s /\ \A y \in s : Max(s) >= y
<1> DEFINE T == {m \in Nat : n - m \in s}
<1>1. T \subseteq Nat /\ T # {}
  <2>1. PICK y \in s : TRUE
    OBVIOUS
  <2>2. n - y \in Nat /\ n - (n - y) = y
    BY <2>1
  <2> QED
    BY <2>1, <2>2
<1>2. PICK m \in T : \A l \in T : m <= l
  BY <1>1, LeastNumber
<1>3. \A y \in s : n - y \in T /\ y \in Nat
  <2> SUFFICES ASSUME NEW y \in s PROVE n - y \in T /\ y \in Nat
    OBVIOUS
  <2>1. y \in 1..n
    OBVIOUS
  <2>2. n - y \in Nat /\ n - (n - y) = y /\ y \in Nat
    BY <2>1
  <2> QED
    BY <2>2
<1>4. n - m \in s /\ m \in Nat
  BY <1>2
<1> HIDE DEF T
<1>5. \A y \in s : n - m >= y
  <2> SUFFICES ASSUME NEW y \in s PROVE n - m >= y
    OBVIOUS
  <2>1. m <= n - y /\ y \in Nat
    BY <1>2, <1>3
  <2> QED
    BY <2>1, <1>4
<1> QED
  BY <1>4, <1>5 DEF Max

LEMMA RemovesExist ==
    ASSUME NEW n \in Nat, NEW w, NEW o
    PROVE  \E g : Removes(g, w, o, SUBSET (1..n))
<1> DEFINE S == 1..n
<1>0. IsFiniteSet(S)
  BY FS_Interval
<1>1. \A s \in SUBSET S : IsFiniteSet(s) /\ Cardinality(s) \in Nat
  BY <1>0, FS_Subset, FS_CardinalityType
<1>2. \A s \in SUBSET S : s # {} => Max(s) \in s
  BY MaxIn
<1> HIDE DEF S
<1> DEFINE T == {m \in Nat : \E g : Removes(g, w, o, Upto(S, m))}
<1>3. 0 \in T
  <2> DEFINE g == [s \in Upto(S, 0) |-> w]
  <2>1. \A s \in Upto(S, 0) : s = {}
    BY <1>1, FS_EmptySet DEF Upto
  <2>2. Removes(g, w, o, Upto(S, 0))
    BY <2>1 DEF Removes
  <2> QED
    BY <2>2
<1>4. ASSUME NEW m \in Nat, m \in T
      PROVE  m + 1 \in T
  <2>1. PICK g : Removes(g, w, o, Upto(S, m))
    BY <1>4
  <2> DEFINE more(h, s) == IF s = {} THEN w ELSE RemoveAt(h[s \ {Max(s)}], o[Max(s)])
             h == [s \in Upto(S, m + 1) |-> more(g, s)]
  <2>2. ASSUME NEW s \in Upto(S, m)
        PROVE  h[s] = g[s]
    <3>1. s \in Upto(S, m + 1)
      BY <1>1 DEF Upto
    <3>2. g = [t \in Upto(S, m) |-> more(g, t)]
      BY <2>1 DEF Removes
    <3>3. g[s] = more(g, s)
      BY <3>2
    <3> QED
      BY <3>1, <3>3
  <2>3. ASSUME NEW s \in Upto(S, m + 1), s # {}
        PROVE  s \ {Max(s)} \in Upto(S, m)
    <3>1. Max(s) \in s /\ s \in SUBSET S /\ Cardinality(s) <= m + 1 /\ IsFiniteSet(s)
          /\ Cardinality(s) \in Nat
      BY <2>3, <1>1, <1>2 DEF Upto
    <3>2. Cardinality(s \ {Max(s)}) = Cardinality(s) - 1
      BY <3>1, OneLess
    <3> QED
      BY <3>1, <3>2 DEF Upto
  <2>4. \A s \in Upto(S, m + 1) : more(g, s) = more(h, s)
    BY <2>2, <2>3
  <2> HIDE DEF more
  <2>5. h = [s \in Upto(S, m + 1) |-> more(h, s)]
    BY <2>4
  <2>6. Removes(h, w, o, Upto(S, m + 1))
    BY <2>5 DEF Removes, more
  <2> HIDE DEF h
  <2> QED
    BY <2>6
<1> HIDE DEF T
<1>5. Cardinality(S) \in T
  BY <1>0, <1>1, <1>3, <1>4, InEveryNumber
<1>6. SUBSET S = Upto(S, Cardinality(S))
  <2>1. \A s \in SUBSET S : Cardinality(s) <= Cardinality(S)
    BY <1>0, FS_Subset
  <2> QED
    BY <2>1 DEF Upto
<1> QED
  BY <1>5, <1>6 DEF T, S

\* What is left after the indices in S were removed last first: everything else, in its order.
LEMMA FoldRemoves ==
    ASSUME NEW E, NEW w \in Seq(E), NEW S \in SUBSET (1..Len(w)), NEW o, Falling(o, S)
    PROVE  FoldLeft(RemoveAt, w, o) \in Seq(E) /\ Kept(FoldLeft(RemoveAt, w, o), w, S)
<1>0. Len(w) \in Nat /\ IsFiniteSet(S)
  <2>1. Len(w) \in Nat /\ IsFiniteSet(1..Len(w))
    BY FS_Interval
  <2> QED
    BY <2>1, FS_Subset
<1> DEFINE n == Cardinality(S)
           g == CHOOSE g : Removes(g, w, o, SUBSET (1..n))
           chosen(k) == {o[m] : m \in 1..k}
<1>1. n \in Nat
  BY <1>0, FS_CardinalityType
<1>2. Removes(g, w, o, SUBSET (1..n))
  BY <1>1, RemovesExist
<1>3. DOMAIN o = 1..n /\ FoldLeft(RemoveAt, w, o) = g[1..n]
  BY FoldIs DEF Falling
<1>4. \A s \in SUBSET (1..n) : g[s] = IF s = {} THEN w ELSE RemoveAt(g[s \ {Max(s)}], o[Max(s)])
  BY <1>2 DEF Removes
<1> HIDE DEF g
<1> DEFINE T == {k \in Nat : k <= n => g[1..k] \in Seq(E) /\ Kept(g[1..k], w, chosen(k))}
<1>5. 0 \in T
  <2>1. 1..0 = {} /\ g[{}] = w
    <3>1. {} \in SUBSET (1..n) /\ 1..0 = {}
      OBVIOUS
    <3>2. g[{}] = w
      BY <1>4, <3>1 
    <3> QED
      BY <3>1, <3>2
  <2>2. chosen(0) = {}
    OBVIOUS
  <2> QED
    BY <2>1, <2>2, KeepsAll
<1>6. ASSUME NEW k \in Nat, k \in T
      PROVE  k + 1 \in T
  <2> SUFFICES ASSUME k + 1 <= n
               PROVE  g[1..(k + 1)] \in Seq(E) /\ Kept(g[1..(k + 1)], w, chosen(k + 1))
    OBVIOUS
  <2>1. g[1..k] \in Seq(E) /\ Kept(g[1..k], w, chosen(k))
    BY <1>1, <1>6
  <2>2. 1..(k + 1) \in SUBSET (1..n) /\ 1..(k + 1) # {} /\ k + 1 \in 1..(k + 1)
    <3>1. \A m \in 1..(k + 1) : m \in 1..n
      BY <1>1
    <3> QED
      BY <3>1
  <2>3. Max(1..(k + 1)) = k + 1
    <3>1. Max(1..(k + 1)) \in 1..(k + 1) /\ \A y \in 1..(k + 1) : Max(1..(k + 1)) >= y
      BY <1>1, <2>2, MaxIn
    <3> QED
      BY <3>1, <2>2
  <2>4. (1..(k + 1)) \ {k + 1} = 1..k
    OBVIOUS
  <2>5. g[1..(k + 1)] = RemoveAt(g[1..k], o[k + 1])
    BY <1>4, <2>2, <2>3, <2>4
  <2>6. \A m \in 1..(k + 1) : o[m] \in 1..Len(w)
    <3> SUFFICES ASSUME NEW m \in 1..(k + 1) PROVE o[m] \in 1..Len(w)
      OBVIOUS
    <3>1. m \in 1..n
      BY <1>1
    <3>2. o[m] \in S
      BY <3>1 DEF Falling
    <3> QED
      BY <3>2
  <2>7. \A s \in chosen(k) : o[k + 1] < s
    <3> SUFFICES ASSUME NEW m \in 1..k PROVE o[k + 1] < o[m]
      OBVIOUS
    <3>1. m \in 1..n /\ k + 1 \in 1..n /\ m < k + 1
      BY <1>1
    <3>2. o[m] > o[k + 1]
      BY <3>1 DEF Falling
    <3> QED
      BY <3>2
  <2>8. chosen(k + 1) = chosen(k) \cup {o[k + 1]}
    OBVIOUS
  <2>9. chosen(k) \in SUBSET (1..Len(w)) /\ o[k + 1] \in 1..Len(w)
    BY <2>6
  <2> HIDE DEF chosen
  <2>10. RemoveAt(g[1..k], o[k + 1]) \in Seq(E)
         /\ Kept(RemoveAt(g[1..k], o[k + 1]), w, chosen(k) \cup {o[k + 1]})
    BY <2>1, <2>7, <2>9, RemovesOne
  <2> QED
    BY <2>5, <2>8, <2>10
<1> HIDE DEF T
<1>7. n \in T
  BY <1>1, <1>5, <1>6, InEveryNumber
<1>8. chosen(n) = S
  <2>1. S \subseteq Nat
    OBVIOUS
  <2> QED
    BY <1>0, <2>1, FallingIsOnto
<1> HIDE DEF chosen
<1> QED
  BY <1>1, <1>3, <1>7, <1>8 DEF T

LEMMA WithoutIs ==
    ASSUME NEW E, pending \in Seq(E), NEW S \in SUBSET DOMAIN pending
    PROVE  Without(S) \in Seq(E) /\ Kept(Without(S), pending, S)
<1>1. IsFiniteSet(S) /\ S \subseteq Nat /\ S \in SUBSET (1..Len(pending))
  <2>1. DOMAIN pending = 1..Len(pending) /\ Len(pending) \in Nat
    OBVIOUS
  <2>2. IsFiniteSet(1..Len(pending))
    BY <2>1, FS_Interval
  <2> QED
    BY <2>1, <2>2, FS_Subset
<1>2. Falling(LastFirst(S), S)
  BY <1>1, LastFirstIs
<1> QED
  BY <1>1, <1>2, FoldRemoves DEF Without

-----------------------------------------------------------------------------
(* The queue as the set of its events *)

AnyEvent == [receipt : 1..MaxEvents, group : Groups \cup {Unkeyed}, bytes : Sizes]
Weight == [e \in AnyEvent |-> e.bytes]
OfGroup(g, events) == {e \in events : e.group = g}
ByReceipt(v) == \A i, j \in DOMAIN v : i < j => v[i].receipt < v[j].receipt

LEMMA AnyEventIs ==
    ASSUME NEW e \in AnyEvent
    PROVE  /\ e.receipt \in Nat /\ e.receipt >= 1 /\ e.receipt <= MaxEvents /\ e.group \in Groups \cup {Unkeyed}
           /\ e.bytes \in Sizes /\ e.bytes \in Nat /\ e.bytes > 0 /\ Weight[e] = e.bytes
<1>1. e.receipt \in 1..MaxEvents /\ e.group \in Groups \cup {Unkeyed} /\ e.bytes \in Sizes
  BY DEF AnyEvent
<1>2. MaxEvents \in Nat /\ Sizes \subseteq Nat \ {0}
  BY DeliveryAssumption
<1>3. e.bytes \in Nat /\ e.bytes # 0
  BY <1>1, <1>2
<1> QED
  BY <1>1, <1>2, <1>3 DEF Weight

LEMMA BytesIs ==
    ASSUME NEW S, IsFiniteSet(S), S \subseteq AnyEvent
    PROVE  Bytes(S) = Total(Weight, S) /\ Bytes(S) \in Nat
<1> DEFINE f == [e \in S |-> e.bytes]
<1>1. Bytes(S) = Total(f, S)
  <2>1. Bytes(S) = SumFunction(f)
    BY DEF Bytes
  <2>2. DOMAIN f = S
    OBVIOUS
  <2> HIDE DEF f
  <2>3. SumFunction(f) = FoldFunctionOnSet(+, 0, f, S)
    BY <2>2, Zenon DEF SumFunction, SumFunctionOnSet
  <2>4. FoldFunctionOnSet(+, 0, f, S) = Total(f, S)
    BY Zenon DEF FoldFunctionOnSet, Total, MapThenSumSet
  <2> QED
    BY <2>1, <2>3, <2>4
<1>2. \A e \in S : Weight[e] \in Nat /\ f[e] = Weight[e]
  BY AnyEventIs
<1> HIDE DEF f
<1>3. Total(f, S) = Total(Weight, S)
  BY <1>2, TotalSame
<1>4. Total(Weight, S) \in Nat
  BY <1>2, TotalNat
<1> QED
  BY <1>1, <1>3, <1>4

\* Bytes of nothing, of one event more and of the events that are left
LEMMA BytesEmpty == Bytes({}) = 0
<1>1. IsFiniteSet({}) /\ {} \subseteq AnyEvent
  BY FS_EmptySet
<1> QED
  BY <1>1, BytesIs, TotalEmpty

LEMMA BytesMore ==
    ASSUME NEW S, IsFiniteSet(S), S \subseteq AnyEvent, NEW e \in AnyEvent, e \notin S
    PROVE  Bytes(S \cup {e}) = Bytes(S) + e.bytes
<1>1. IsFiniteSet(S \cup {e}) /\ S \cup {e} \subseteq AnyEvent
  BY FS_AddElement
<1>2. \A x \in S \cup {e} : Weight[x] \in Nat
  BY <1>1, AnyEventIs
<1>3. Total(Weight, S \cup {e}) = Weight[e] + Total(Weight, S)
  BY <1>2, TotalMore
<1>4. Weight[e] = e.bytes /\ e.bytes \in Nat
  BY AnyEventIs
<1> QED
  BY <1>1, <1>3, <1>4, BytesIs

LEMMA BytesWithout ==
    ASSUME NEW S, IsFiniteSet(S), S \subseteq AnyEvent, NEW P \in SUBSET S
    PROVE  Bytes(S \ P) = Bytes(S) - Bytes(P) /\ Bytes(S \ P) \in Nat /\ Bytes(P) <= Bytes(S)
<1>1. IsFiniteSet(S \ P) /\ IsFiniteSet(P) /\ S \ P \subseteq AnyEvent /\ P \subseteq AnyEvent
  BY FS_Subset, FS_Difference
<1>2. \A x \in S : Weight[x] \in Nat
  BY AnyEventIs
<1>3. Total(Weight, S) = Total(Weight, P) + Total(Weight, S \ P)
  BY <1>2, TotalWithout
<1>4. /\ Bytes(S) = Total(Weight, S) /\ Bytes(S) \in Nat
      /\ Bytes(P) = Total(Weight, P) /\ Bytes(P) \in Nat
      /\ Bytes(S \ P) = Total(Weight, S \ P) /\ Bytes(S \ P) \in Nat
  BY <1>1, BytesIs
<1> QED
  BY <1>3, <1>4

\* Counting a part of a finite set, and what is left of it
LEMMA CountWithout ==
    ASSUME NEW S, IsFiniteSet(S), NEW P \in SUBSET S, NEW g
    PROVE  /\ Cardinality(OfGroup(g, S \ P)) = Cardinality(OfGroup(g, S)) - Cardinality(OfGroup(g, P))
           /\ Cardinality(OfGroup(g, S \ P)) \in Nat /\ Cardinality(OfGroup(g, S)) \in Nat
           /\ Cardinality(OfGroup(g, P)) \in Nat /\ Cardinality(OfGroup(g, P)) <= Cardinality(OfGroup(g, S))
<1>1. IsFiniteSet(OfGroup(g, S)) /\ OfGroup(g, P) \in SUBSET OfGroup(g, S)
  BY FS_Subset DEF OfGroup
<1>2. OfGroup(g, S \ P) = OfGroup(g, S) \ OfGroup(g, P)
  BY DEF OfGroup
<1> HIDE DEF OfGroup
<1> QED
  BY <1>1, <1>2, PartOf

LEMMA CountMore ==
    ASSUME NEW S, IsFiniteSet(S), NEW e, e \notin S, NEW g
    PROVE  Cardinality(OfGroup(g, S \cup {e})) =
               IF e.group = g THEN Cardinality(OfGroup(g, S)) + 1 ELSE Cardinality(OfGroup(g, S))
<1>1. IsFiniteSet(OfGroup(g, S)) /\ e \notin OfGroup(g, S)
  BY FS_Subset DEF OfGroup
<1>2. CASE e.group = g
  <2>1. OfGroup(g, S \cup {e}) = OfGroup(g, S) \cup {e}
    BY <1>2 DEF OfGroup
  <2> QED
    BY <1>1, <1>2, <2>1, OneMore
<1>3. CASE e.group # g
  <2>1. OfGroup(g, S \cup {e}) = OfGroup(g, S)
    BY <1>3 DEF OfGroup
  <2> QED
    BY <1>3, <2>1
<1> QED
  BY <1>2, <1>3

\* A sequence in receive order holds each event once.
LEMMA OrderedIs ==
    ASSUME NEW v \in Seq(AnyEvent), ByReceipt(v)
    PROVE  /\ ToSet(v) \subseteq AnyEvent /\ IsFiniteSet(ToSet(v)) /\ Cardinality(ToSet(v)) = Len(v)
           /\ IsInjective(v) /\ Len(v) \in Nat /\ DOMAIN v = 1..Len(v) /\ IsFiniteSet(DOMAIN v)
           /\ \A i \in DOMAIN v : v[i] \in AnyEvent
<1>1. /\ Len(v) \in Nat /\ DOMAIN v = 1..Len(v) /\ \A i \in DOMAIN v : v[i] \in AnyEvent
  OBVIOUS
<1>2. ASSUME NEW i \in DOMAIN v, NEW j \in DOMAIN v, v[i] = v[j]
      PROVE  i = j
  <2>1. v[i].receipt \in Nat
    BY <1>1, AnyEventIs
  <2>2. ~(i < j) /\ ~(j < i)
    BY <1>2, <2>1 DEF ByReceipt
  <2> QED
    BY <1>1, <2>2
<1>3. IsInjective(v)
  BY <1>2 DEF IsInjective
<1>4. v \in Bijection(1..Len(v), ToSet(v))
  <2>1. v \in [1..Len(v) -> ToSet(v)]
    BY <1>1 DEF ToSet
  <2>2. \A e \in ToSet(v) : \E i \in 1..Len(v) : v[i] = e
    BY <1>1 DEF ToSet
  <2> QED
    BY <1>3, <2>1, <2>2 DEF Bijection, Injection, Surjection
<1>5. IsFiniteSet(1..Len(v)) /\ Cardinality(1..Len(v)) = Len(v)
  BY <1>1, FS_Interval
<1>6. IsFiniteSet(ToSet(v)) /\ Cardinality(ToSet(v)) = Len(v)
  BY <1>4, <1>5, FS_Bijection DEF ExistsBijection
<1> QED
  BY <1>1, <1>3, <1>5, <1>6 DEF ToSet

\* The events at a set of indices, and how many of them there are
At(v, S) == {v[i] : i \in S}

LEMMA AtIs ==
    ASSUME NEW v \in Seq(AnyEvent), ByReceipt(v), NEW S \in SUBSET DOMAIN v
    PROVE  /\ At(v, S) \in SUBSET ToSet(v) /\ IsFiniteSet(S) /\ IsFiniteSet(At(v, S))
           /\ Cardinality(At(v, S)) = Cardinality(S) /\ Cardinality(S) \in Nat
<1>1. IsFiniteSet(S) /\ At(v, S) \in SUBSET ToSet(v)
  BY OrderedIs, FS_Subset DEF At, ToSet
<1> DEFINE f == [i \in S |-> v[i]]
<1>2. f \in Bijection(S, At(v, S))
  <2>1. f \in [S -> At(v, S)] /\ \A e \in At(v, S) : \E i \in S : f[i] = e
    BY DEF At
  <2>2. IsInjective(f)
    BY OrderedIs DEF IsInjective
  <2> QED
    BY <2>1, <2>2 DEF Bijection, Injection, Surjection
<1> HIDE DEF f
<1>3. IsFiniteSet(At(v, S)) /\ Cardinality(At(v, S)) = Cardinality(S)
  BY <1>1, <1>2, FS_Bijection DEF ExistsBijection
<1> QED
  BY <1>1, <1>3, FS_CardinalityType

LEMMA CountOfIs ==
    ASSUME NEW v \in Seq(AnyEvent), ByReceipt(v), NEW g
    PROVE  CountOf(g, v) = Cardinality(OfGroup(g, ToSet(v)))
<1> DEFINE S == {i \in DOMAIN v : v[i].group = g}
<1>1. Cardinality(At(v, S)) = Cardinality(S)
  BY AtIs
<1>2. At(v, S) = OfGroup(g, ToSet(v))
  BY DEF At, OfGroup, ToSet
<1> QED
  BY <1>1, <1>2 DEF CountOf

\* What is left of a queue keeps its order, and is the queue without the events removed.
LEMMA KeptIs ==
    ASSUME NEW w \in Seq(AnyEvent), ByReceipt(w), NEW v \in Seq(AnyEvent), NEW S \in SUBSET DOMAIN w, Kept(v, w, S)
    PROVE  /\ ByReceipt(v) /\ ToSet(v) = ToSet(w) \ At(w, S)
           /\ Len(v) = Len(w) - Cardinality(S)
<1>1. PICK h : Keeps(h, v, w, S)
  BY DEF Kept
<1>2. Len(w) \in Nat /\ DOMAIN w = 1..Len(w) /\ IsInjective(w) /\ DOMAIN v = 1..Len(v) /\ IsFiniteSet(ToSet(w))
  BY OrderedIs
<1>3. /\ \A m \in 1..Len(v) : h[m] \in DOMAIN w /\ h[m] \notin S /\ v[m] = w[h[m]]
      /\ \A m, n \in 1..Len(v) : m < n => h[m] < h[n]
      /\ \A i \in (1..Len(w)) \ S : \E m \in 1..Len(v) : h[m] = i
  BY <1>1, <1>2 DEF Keeps
<1>4. ByReceipt(v)
  BY <1>2, <1>3 DEF ByReceipt
<1>5. ToSet(v) \subseteq ToSet(w) \ At(w, S)
  <2> SUFFICES ASSUME NEW m \in 1..Len(v) PROVE v[m] \in ToSet(w) \ At(w, S)
    BY <1>2 DEF ToSet
  <2>1. v[m] \in ToSet(w)
    BY <1>3 DEF ToSet
  <2>2. ASSUME NEW i \in S, v[m] = w[i] PROVE FALSE
    BY <1>2, <1>3, <2>2 DEF IsInjective
  <2> QED
    BY <2>1, <2>2 DEF At
<1>6. ToSet(w) \ At(w, S) \subseteq ToSet(v)
  <2> SUFFICES ASSUME NEW i \in 1..Len(w), i \notin S PROVE w[i] \in ToSet(v)
    BY <1>2 DEF ToSet, At
  <2>1. PICK m \in 1..Len(v) : h[m] = i
    BY <1>3
  <2> QED
    BY <1>2, <1>3, <2>1 DEF ToSet
<1>7. ToSet(v) = ToSet(w) \ At(w, S)
  BY <1>5, <1>6
<1>8. Cardinality(ToSet(w) \ At(w, S)) = Cardinality(ToSet(w)) - Cardinality(S)
  <2>1. At(w, S) \in SUBSET ToSet(w) /\ Cardinality(At(w, S)) = Cardinality(S)
    BY AtIs
  <2>2. Cardinality(ToSet(w) \ At(w, S)) = Cardinality(ToSet(w)) - Cardinality(At(w, S))
    BY <1>2, <2>1, PartOf
  <2> QED
    BY <2>1, <2>2
<1> QED
  BY <1>4, <1>7, <1>8, OrderedIs

-----------------------------------------------------------------------------
(* What the plan of an eviction takes *)

GroupsOf(S, g) == {i \in S : pending[i].group = g}
CountAt(g, S) == Cardinality(GroupsOf(S, g))

\* The queue as its operations leave it: its events, their bytes and their number per group
Sound(v, bytes, counts) ==
    /\ v \in Seq(AnyEvent) /\ ByReceipt(v)
    /\ \A i \in DOMAIN v : v[i].group \in Arriving
    /\ Len(v) <= MaxPending /\ bytes = Bytes(ToSet(v)) /\ bytes <= MaxBytes
    /\ counts \in [Groups -> Nat]
    /\ Partitioned => \A g \in Groups : counts[g] = Cardinality(OfGroup(g, ToSet(v)))
QueueSound == Sound(pending, used, waiting)

LEMMA GroupsIs == \A i \in DOMAIN pending : QueueSound /\ Partitioned => pending[i].group \in Groups
BY DEF QueueSound, Sound, Arriving

\* What waits of a group besides the events taken
LEMMA LeftOf ==
    ASSUME QueueSound, Partitioned, NEW g \in Groups, NEW taken \in SUBSET DOMAIN pending
    PROVE  /\ waiting[g] - CountAt(g, taken) = CountAt(g, DOMAIN pending \ taken)
           /\ CountAt(g, taken) \in Nat /\ CountAt(g, DOMAIN pending \ taken) \in Nat
<1>1. waiting[g] = CountAt(g, DOMAIN pending)
  <2>1. CountOf(g, pending) = waiting[g]
    BY CountOfIs DEF QueueSound, Sound
  <2> QED
    BY <2>1 DEF CountOf, CountAt, GroupsOf
<1>2. IsFiniteSet(DOMAIN pending)
  BY OrderedIs DEF QueueSound, Sound
<1>3. IsFiniteSet(GroupsOf(DOMAIN pending, g))
  BY <1>2, FS_Subset DEF GroupsOf
<1>4. /\ GroupsOf(taken, g) \in SUBSET GroupsOf(DOMAIN pending, g)
      /\ GroupsOf(DOMAIN pending \ taken, g) = GroupsOf(DOMAIN pending, g) \ GroupsOf(taken, g)
  BY DEF GroupsOf
<1> QED
  BY <1>1, <1>3, <1>4, PartOf DEF CountAt

LEMMA OldestIs ==
    ASSUME QueueSound, NEW S \in SUBSET DOMAIN pending, S # {}
    PROVE  Oldest(S) \in S /\ \A j \in S : Oldest(S) <= j
<1>1. S \subseteq Nat
  BY OrderedIs DEF QueueSound, Sound
<1>2. \E i \in S : \A j \in S : i <= j
  BY <1>1, LeastNumber
<1> QED
  BY <1>2 DEF Oldest

\* A victim is an event that is not taken yet. One of another group than the arrival's is the oldest
\* of its group, which has at least two events more than the arrival's.
Chooses(v, group, taken) ==
    LET left == DOMAIN pending \ taken
        other == pending[v].group
    IN /\ v \in left
       /\ Partitioned /\ other # group =>
             /\ CountAt(other, left) > CountAt(group, left) + 1
             /\ \A i \in left : pending[i].group = other => v <= i

LEMMA VictimIs ==
    ASSUME QueueSound, NEW group \in Arriving, NEW taken \in SUBSET DOMAIN pending, taken # DOMAIN pending
    PROVE  Victim(group, taken) = {} \/ \E v : Victim(group, taken) = {v} /\ Chooses(v, group, taken)
<1> DEFINE left == DOMAIN pending \ taken
           own == {i \in left : pending[i].group = group}
           count(g) == waiting[g] - Cardinality({i \in taken : pending[i].group = g})
           longest == {i \in left \ own : \A j \in left \ own :
                           count(pending[j].group) <= count(pending[i].group)}
           v == Oldest(longest)
<1>1. CASE ~Partitioned
  <2>1. Victim(group, taken) = {Oldest(left)}
    BY <1>1 DEF Victim
  <2>2. left \in SUBSET DOMAIN pending /\ left # {}
    OBVIOUS
  <2>3. Oldest(left) \in left
    BY <2>2, OldestIs
  <2> QED
    BY <1>1, <2>1, <2>3 DEF Chooses
<1>2. CASE Partitioned
  <2>0. group \in Groups
    BY <1>2 DEF Arriving
  <2>1. \A g \in Groups : count(g) = CountAt(g, left) /\ CountAt(g, left) \in Nat
    <3> SUFFICES ASSUME NEW g \in Groups
                 PROVE  count(g) = CountAt(g, left) /\ CountAt(g, left) \in Nat
      OBVIOUS
    <3>1. count(g) = waiting[g] - CountAt(g, taken)
      BY DEF CountAt, GroupsOf
    <3> QED
      BY <1>2, <3>1, LeftOf
  <2>2. CASE longest # {} /\ count(pending[Oldest(longest)].group) > count(group) + 1
    <3>1. Victim(group, taken) = {v}
      BY <1>2, <2>2 DEF Victim
    <3>2. longest \in SUBSET DOMAIN pending
      OBVIOUS
    <3>3. v \in longest /\ \A j \in longest : v <= j
      BY <2>2, <3>2, OldestIs
    <3>4. pending[v].group \in Groups
      BY <1>2, <3>2, <3>3, GroupsIs
    <3>5. CountAt(pending[v].group, left) > CountAt(group, left) + 1
      BY <2>0, <2>1, <2>2, <3>4
    <3>6. \A i \in left : pending[i].group = pending[v].group => i \in longest
      BY <3>3
    <3>7. v \in left
      BY <3>3
    <3>8. Chooses(v, group, taken)
      BY <3>3, <3>5, <3>6, <3>7 DEF Chooses
    <3> QED
      BY <3>1, <3>8
  <2>3. CASE ~(longest # {} /\ count(pending[Oldest(longest)].group) > count(group) + 1)
    <3>1. Victim(group, taken) = IF own = {} THEN {} ELSE {Oldest(own)}
      BY <1>2, <2>3 DEF Victim
    <3>2. CASE own = {}
      BY <3>1, <3>2
    <3>3. CASE own # {}
      <4>1. own \in SUBSET DOMAIN pending
        OBVIOUS
      <4>2. Oldest(own) \in own
        BY <3>3, <4>1, OldestIs
      <4>3. Chooses(Oldest(own), group, taken)
        BY <4>2 DEF Chooses
      <4> QED
        BY <3>1, <3>3, <4>3
    <3> QED
      BY <3>2, <3>3
  <2> QED
    BY <2>2, <2>3
<1> QED
  BY <1>1, <1>2

\* The plan as the function it is defined by, over the sets of indices taken so far
Enough(taken, bytes) ==
    LET left == Len(pending) - Cardinality(taken)
        usedBytes == used - Bytes({pending[i] : i \in taken})
    IN (left < MaxPending /\ bytes <= MaxBytes - usedBytes) \/ left = 0
Proceeds(g, group, taken) ==
    LET victim == Victim(group, taken)
    IN IF victim = {} THEN NoPlan ELSE g[taken \cup victim]
Plans(g, group, bytes, D) ==
    g = [taken \in D |-> IF Enough(taken, bytes) THEN taken ELSE Proceeds(g, group, taken)]

LEMMA PlanDefined ==
    ASSUME NEW group, NEW bytes
    PROVE  Plan(group, bytes) = (CHOOSE g : Plans(g, group, bytes, SUBSET DOMAIN pending))[{}]
BY Zenon DEF Plan, Plans, Enough, Proceeds

\* The sets that leave at most n elements of D
Leaving(D, n) == {t \in SUBSET D : Cardinality(D \ t) <= n}

LEMMA NotEnough ==
    ASSUME QueueSound, NEW taken \in SUBSET DOMAIN pending, NEW bytes, ~Enough(taken, bytes)
    PROVE  taken # DOMAIN pending
<1>1. Len(pending) \in Nat /\ DOMAIN pending = 1..Len(pending)
  BY OrderedIs DEF QueueSound, Sound
<1>2. Cardinality(DOMAIN pending) = Len(pending)
  BY <1>1, FS_Interval
<1> QED
  BY <1>1, <1>2 DEF Enough

LEMMA PlansExist ==
    ASSUME QueueSound, NEW group \in Arriving, NEW bytes
    PROVE  \E g : Plans(g, group, bytes, SUBSET DOMAIN pending)
<1> DEFINE D == DOMAIN pending
<1>1. IsFiniteSet(D)
  BY OrderedIs DEF QueueSound, Sound
<1>2. \A t \in SUBSET D : IsFiniteSet(D \ t) /\ Cardinality(D \ t) \in Nat /\ Cardinality(D \ t) <= Cardinality(D)
                          /\ Cardinality(D) \in Nat
  BY <1>1, PartOf
<1>3. ASSUME NEW t \in SUBSET D, ~Enough(t, bytes), Victim(group, t) # {}
      PROVE  t \cup Victim(group, t) \in SUBSET D
             /\ Cardinality(D \ (t \cup Victim(group, t))) = Cardinality(D \ t) - 1
  <2>1. t # DOMAIN pending
    BY <1>3, NotEnough
  <2>2. PICK v : Victim(group, t) = {v} /\ v \in D \ t
    BY <1>3, <2>1, VictimIs DEF Chooses
  <2>3. D \ (t \cup {v}) = (D \ t) \ {v} /\ t \cup {v} \in SUBSET D
    BY <2>2
  <2> QED
    BY <1>2, <2>2, <2>3, OneLess
<1> HIDE DEF D
<1> DEFINE T == {m \in Nat : \E g : Plans(g, group, bytes, Leaving(D, m))}
           body(h, t) == IF Enough(t, bytes) THEN t ELSE Proceeds(h, group, t)
<1>4. ASSUME NEW h1, NEW h2, NEW t \in SUBSET D,
             \A u \in SUBSET D : Cardinality(D \ u) = Cardinality(D \ t) - 1 => h1[u] = h2[u]
      PROVE  body(h1, t) = body(h2, t)
  BY <1>3, <1>4 DEF Proceeds
<1> HIDE DEF body
<1>5. 0 \in T
  <2> DEFINE g == [t \in Leaving(D, 0) |-> body(<<>>, t)]
  <2>1. \A t \in Leaving(D, 0) : t \in SUBSET D /\ Cardinality(D \ t) = 0
    BY <1>2 DEF Leaving
  <2>2. \A u \in SUBSET D : Cardinality(D \ u) # 0 - 1
    BY <1>2
  <2>3. \A t \in Leaving(D, 0) : body(<<>>, t) = body(g, t)
    BY <1>4, <2>1, <2>2
  <2>4. g = [t \in Leaving(D, 0) |-> body(g, t)]
    BY <2>3
  <2>5. Plans(g, group, bytes, Leaving(D, 0))
    BY <2>4 DEF Plans, body
  <2> HIDE DEF g
  <2> QED
    BY <2>5
<1>6. ASSUME NEW m \in Nat, m \in T
      PROVE  m + 1 \in T
  <2>1. PICK g : Plans(g, group, bytes, Leaving(D, m))
    BY <1>6
  <2> DEFINE h == [t \in Leaving(D, m + 1) |-> body(g, t)]
  <2>2. ASSUME NEW t \in Leaving(D, m)
        PROVE  h[t] = g[t]
    <3>1. t \in Leaving(D, m + 1)
      BY <1>2 DEF Leaving
    <3>2. g = [u \in Leaving(D, m) |-> body(g, u)]
      BY <2>1 DEF Plans, body
    <3>3. g[t] = body(g, t)
      BY <3>2
    <3> QED
      BY <3>1, <3>3
  <2>3. ASSUME NEW t \in Leaving(D, m + 1)
        PROVE  body(g, t) = body(h, t)
    <3>1. t \in SUBSET D /\ Cardinality(D \ t) <= m + 1 /\ Cardinality(D \ t) \in Nat
      BY <1>2 DEF Leaving
    <3>2. \A u \in SUBSET D : Cardinality(D \ u) = Cardinality(D \ t) - 1 => u \in Leaving(D, m)
      BY <3>1 DEF Leaving
    <3> HIDE DEF h
    <3> QED
      BY <1>4, <2>2, <3>1, <3>2
  <2>4. h = [t \in Leaving(D, m + 1) |-> body(h, t)]
    BY <2>3
  <2>5. Plans(h, group, bytes, Leaving(D, m + 1))
    BY <2>4 DEF Plans, body
  <2> HIDE DEF h
  <2> QED
    BY <2>5
<1> HIDE DEF T
<1>7. Cardinality(D) \in T
  BY <1>2, <1>5, <1>6, InEveryNumber
<1>8. SUBSET D = Leaving(D, Cardinality(D))
  BY <1>2 DEF Leaving
<1> QED
  BY <1>7, <1>8 DEF T, D

\* A plan takes the oldest events of a group, and from another group than the arrival's only as
\* long as more are left of it than of the arrival's.
FairlyTaken(group, taken) ==
    Partitioned =>
        \A g \in Groups \ {group} :
            LET left == DOMAIN pending \ taken
            IN /\ GroupsOf(taken, g) = {} \/ CountAt(g, left) >= CountAt(group, left) + 1
               /\ \A i \in GroupsOf(taken, g), j \in GroupsOf(left, g) : i < j

LEMMA VictimIsFair ==
    ASSUME QueueSound, NEW group \in Arriving, NEW taken \in SUBSET DOMAIN pending, FairlyTaken(group, taken),
           NEW v, Chooses(v, group, taken)
    PROVE  FairlyTaken(group, taken \cup {v})
<1> SUFFICES ASSUME Partitioned, NEW g \in Groups, g # group
             PROVE  LET left == DOMAIN pending \ (taken \cup {v})
                    IN /\ GroupsOf(taken \cup {v}, g) = {} \/ CountAt(g, left) >= CountAt(group, left) + 1
                       /\ \A i \in GroupsOf(taken \cup {v}, g), j \in GroupsOf(left, g) : i < j
  BY DEF FairlyTaken
<1> DEFINE left == DOMAIN pending \ taken
           after == DOMAIN pending \ (taken \cup {v})
<1>1. v \in left /\ after = left \ {v} /\ DOMAIN pending \subseteq Nat /\ IsFiniteSet(left)
      /\ taken \subseteq DOMAIN pending
  <2>1. IsFiniteSet(DOMAIN pending) /\ DOMAIN pending \subseteq Nat
    BY OrderedIs DEF QueueSound, Sound
  <2> QED
    BY <2>1, FS_Subset DEF Chooses
<1>2. /\ GroupsOf(taken, g) = {} \/ CountAt(g, left) >= CountAt(group, left) + 1
      /\ \A i \in GroupsOf(taken, g), j \in GroupsOf(left, g) : i < j
  BY DEF FairlyTaken
<1>3. pending[v].group # group =>
         /\ CountAt(pending[v].group, left) > CountAt(group, left) + 1
         /\ \A i \in left : pending[i].group = pending[v].group => v <= i
  BY DEF Chooses
<1>4. group \in Groups
  BY DEF Arriving
<1> HIDE DEF left, after
<1>5. ASSUME NEW k \in Groups
      PROVE  /\ CountAt(k, left) \in Nat
             /\ pending[v].group = k => CountAt(k, after) = CountAt(k, left) - 1
             /\ pending[v].group # k => CountAt(k, after) = CountAt(k, left)
  <2>1. IsFiniteSet(GroupsOf(left, k))
    BY <1>1, FS_Subset DEF GroupsOf
  <2>2. CASE pending[v].group = k
    <3>1. v \in GroupsOf(left, k) /\ GroupsOf(after, k) = GroupsOf(left, k) \ {v}
      BY <1>1, <2>2 DEF GroupsOf
    <3> QED
      BY <2>1, <2>2, <3>1, OneLess, FS_CardinalityType DEF CountAt
  <2>3. CASE pending[v].group # k
    <3>1. GroupsOf(after, k) = GroupsOf(left, k)
      BY <1>1, <2>3 DEF GroupsOf
    <3> QED
      BY <2>1, <2>3, <3>1, FS_CardinalityType DEF CountAt
  <2> QED
    BY <2>2, <2>3
<1>6. /\ CountAt(g, left) \in Nat
      /\ pending[v].group = g => CountAt(g, after) = CountAt(g, left) - 1
      /\ pending[v].group # g => CountAt(g, after) = CountAt(g, left)
  BY <1>5
<1>7. /\ CountAt(group, left) \in Nat
      /\ pending[v].group = group => CountAt(group, after) = CountAt(group, left) - 1
      /\ pending[v].group # group => CountAt(group, after) = CountAt(group, left)
  BY <1>4, <1>5
<1>8. CASE pending[v].group = g
  <2>1. CountAt(g, after) >= CountAt(group, after) + 1
    BY <1>3, <1>6, <1>7, <1>8
  <2>2. GroupsOf(taken \cup {v}, g) = GroupsOf(taken, g) \cup {v} /\ GroupsOf(after, g) \subseteq GroupsOf(left, g) \ {v}
    BY <1>1, <1>8 DEF GroupsOf
  <2>3. \A j \in GroupsOf(left, g) \ {v} : v < j
    <3>1. \A j \in GroupsOf(left, g) : j \in left /\ j \in Nat /\ v \in Nat /\ v <= j
      BY <1>1, <1>3, <1>8 DEF GroupsOf, left
    <3> QED
      BY <3>1
  <2> QED
    BY <1>2, <2>1, <2>2, <2>3 DEF after
<1>9. CASE pending[v].group # g
  <2>1. GroupsOf(taken \cup {v}, g) = GroupsOf(taken, g) /\ GroupsOf(after, g) = GroupsOf(left, g)
    BY <1>1, <1>9 DEF GroupsOf
  <2>2. CountAt(group, after) <= CountAt(group, left)
    BY <1>7
  <2>3. CountAt(g, left) >= CountAt(group, left) + 1 => CountAt(g, after) >= CountAt(group, after) + 1
    BY <1>6, <1>7, <1>9, <2>2
  <2> QED
    BY <1>2, <2>1, <2>3 DEF after
<1> QED
  BY <1>8, <1>9

LEMMA PlanIs ==
    ASSUME QueueSound, NEW group \in Arriving, NEW bytes, Plan(group, bytes) # NoPlan
    PROVE  /\ Plan(group, bytes) \in SUBSET DOMAIN pending
           /\ Enough(Plan(group, bytes), bytes)
           /\ FairlyTaken(group, Plan(group, bytes))
<1> DEFINE D == DOMAIN pending
           g == CHOOSE g : Plans(g, group, bytes, SUBSET D)
           Good(t) == t = NoPlan \/ (t \in SUBSET D /\ Enough(t, bytes) /\ FairlyTaken(group, t))
           F == {s \in SUBSET D : FairlyTaken(group, D \ s) => Good(g[D \ s])}
<1>1. Plans(g, group, bytes, SUBSET D)
  BY PlansExist
<1>2. Plan(group, bytes) = g[{}]
  BY PlanDefined
<1>3. IsFiniteSet(D)
  BY OrderedIs DEF QueueSound, Sound
<1> HIDE DEF g
<1>4. \A t \in SUBSET D : g[t] = IF Enough(t, bytes) THEN t ELSE Proceeds(g, group, t)
  BY <1>1 DEF Plans
<1>5. ASSUME NEW s \in SUBSET D, \A x \in s : s \ {x} \in F
      PROVE  s \in F
  <2> SUFFICES ASSUME FairlyTaken(group, D \ s)
               PROVE  Good(g[D \ s])
    OBVIOUS
  <2> DEFINE t == D \ s
  <2>1. t \in SUBSET D
    OBVIOUS
  <2>2. CASE Enough(t, bytes)
    <3>1. g[t] = t
      BY <1>4, <2>1, <2>2
    <3> QED
      BY <2>1, <2>2, <3>1
  <2>3. CASE ~Enough(t, bytes)
    <3>1. g[t] = Proceeds(g, group, t)
      BY <1>4, <2>1, <2>3
    <3>2. CASE Victim(group, t) = {}
      BY <3>1, <3>2 DEF Proceeds
    <3>3. CASE Victim(group, t) # {}
      <4>1. t # DOMAIN pending
        BY <2>1, <2>3, NotEnough
      <4>2. PICK v : Victim(group, t) = {v} /\ Chooses(v, group, t)
        BY <2>1, <3>3, <4>1, VictimIs
      <4>3. FairlyTaken(group, t \cup {v})
        BY <2>1, <4>2, VictimIsFair
      <4>4. v \in s /\ t \cup {v} = D \ (s \ {v})
        BY <4>2 DEF Chooses
      <4>5. g[t] = g[t \cup {v}]
        BY <3>1, <3>3, <4>2 DEF Proceeds
      <4>6. s \ {v} \in F
        BY <1>5, <4>4
      <4>7. FairlyTaken(group, D \ (s \ {v})) => Good(g[D \ (s \ {v})])
        BY <4>6
      <4> HIDE DEF t, Good
      <4> QED
        BY <4>3, <4>4, <4>5, <4>7 DEF t
    <3> QED
      BY <3>2, <3>3
  <2> QED
    BY <2>2, <2>3
<1> HIDE DEF F
<1>6. D \in F
  <2>1. \A s \in SUBSET D : s \in F
    BY <1>3, <1>5, InEverySubset
  <2> QED
    BY <2>1
<1>7. FairlyTaken(group, D \ D)
  BY DEF FairlyTaken, GroupsOf
<1>8. Good(g[{}])
  <2>1. D \ D = {}
    OBVIOUS
  <2>2. FairlyTaken(group, D \ D) => Good(g[D \ D])
    BY <1>6 DEF F
  <2> HIDE DEF Good
  <2> QED
    BY <1>7, <2>1, <2>2
<1> QED
  BY <1>2, <1>8

-----------------------------------------------------------------------------
(* The operations of the queue *)

LEMMA KeptSound ==
    ASSUME QueueSound, NEW S \in SUBSET DOMAIN pending, NEW v \in Seq(AnyEvent), Kept(v, pending, S),
           NEW P, P = At(pending, S)
    PROVE  /\ Sound(v, used - Bytes(P), Forget(P))
           /\ ToSet(v) = ToSet(pending) \ P /\ Len(v) = Len(pending) - Cardinality(S)
<1>1. ByReceipt(v) /\ ToSet(v) = ToSet(pending) \ P /\ Len(v) = Len(pending) - Cardinality(S)
  BY KeptIs DEF QueueSound, Sound
<1>2. ToSet(pending) \subseteq AnyEvent /\ IsFiniteSet(ToSet(pending)) /\ P \in SUBSET ToSet(pending)
      /\ IsFiniteSet(P) /\ Cardinality(S) \in Nat /\ Len(pending) \in Nat
  BY OrderedIs, AtIs DEF QueueSound, Sound
<1>3. used - Bytes(P) = Bytes(ToSet(v)) /\ used - Bytes(P) <= MaxBytes
  <2>1. Bytes(ToSet(pending) \ P) = Bytes(ToSet(pending)) - Bytes(P)
    BY <1>2, BytesWithout
  <2>2. Bytes(ToSet(pending)) \in Nat /\ Bytes(P) \in Nat
    BY <1>2, BytesIs
  <2>3. used = Bytes(ToSet(pending)) /\ used <= MaxBytes /\ MaxBytes \in Nat
    BY DeliveryAssumption DEF QueueSound, Sound
  <2> QED
    BY <1>1, <2>1, <2>2, <2>3
<1>4. \A i \in DOMAIN v : v[i].group \in Arriving
  <2>1. \A e \in ToSet(pending) : e.group \in Arriving
    BY DEF ToSet, QueueSound, Sound
  <2>2. \A i \in DOMAIN v : v[i] \in ToSet(v)
    BY DEF ToSet
  <2> QED
    BY <1>1, <2>1, <2>2
<1>5. Len(v) <= MaxPending
  <2>1. Len(pending) <= MaxPending /\ MaxPending \in Nat
    BY DeliveryAssumption DEF QueueSound, Sound
  <2> QED
    BY <1>1, <1>2, <2>1
<1>6. /\ Forget(P) \in [Groups -> Nat]
      /\ Partitioned => \A g \in Groups : Forget(P)[g] = Cardinality(OfGroup(g, ToSet(v)))
  <2>1. CASE ~Partitioned
    BY <2>1 DEF Forget, QueueSound, Sound
  <2>2. CASE Partitioned
    <3>1. Forget(P) = [g \in Groups |-> waiting[g] - Cardinality(OfGroup(g, P))]
      BY <2>2 DEF Forget, OfGroup
    <3>2. \A g \in Groups : /\ waiting[g] - Cardinality(OfGroup(g, P)) = Cardinality(OfGroup(g, ToSet(v)))
                            /\ Cardinality(OfGroup(g, ToSet(v))) \in Nat
      <4>1. \A g : /\ Cardinality(OfGroup(g, ToSet(pending) \ P)) =
                          Cardinality(OfGroup(g, ToSet(pending))) - Cardinality(OfGroup(g, P))
                   /\ Cardinality(OfGroup(g, ToSet(pending) \ P)) \in Nat
        BY <1>2, CountWithout
      <4>2. \A g \in Groups : waiting[g] = Cardinality(OfGroup(g, ToSet(pending)))
        BY <2>2 DEF QueueSound, Sound
      <4> QED
        BY <1>1, <4>1, <4>2
    <3> QED
      BY <3>1, <3>2
  <2> QED
    BY <2>1, <2>2
<1> QED
  BY <1>1, <1>3, <1>4, <1>5, <1>6 DEF Sound

\* One event leaves the queue.
LEMMA TakeSound ==
    ASSUME QueueSound, NEW i \in DOMAIN pending
    PROVE  /\ Sound(RemoveAt(pending, i), used - pending[i].bytes, Forget({pending[i]}))
           /\ ToSet(RemoveAt(pending, i)) = ToSet(pending) \ {pending[i]}
<1>1. pending \in Seq(AnyEvent) /\ i \in 1..Len(pending) /\ pending[i] \in AnyEvent /\ pending[i] \in ToSet(pending)
  BY DEF QueueSound, Sound, ToSet
<1>2. RemoveAt(pending, i) \in Seq(AnyEvent) /\ Kept(RemoveAt(pending, i), pending, {i})
  <2>1. Kept(pending, pending, {}) /\ {} \cup {i} = {i} /\ {} \in SUBSET (1..Len(pending))
    BY <1>1, KeepsAll
  <2>2. RemoveAt(pending, i) \in Seq(AnyEvent) /\ Kept(RemoveAt(pending, i), pending, {} \cup {i})
    BY <1>1, <2>1, RemovesOne
  <2> QED
    BY <2>1, <2>2
<1>3. At(pending, {i}) = {pending[i]} /\ {i} \in SUBSET DOMAIN pending
  BY DEF At
<1>4. Bytes({pending[i]}) = pending[i].bytes
  <2>1. IsFiniteSet({}) /\ {} \subseteq AnyEvent /\ {} \cup {pending[i]} = {pending[i]}
    BY FS_EmptySet
  <2>2. Bytes({} \cup {pending[i]}) = Bytes({}) + pending[i].bytes
    BY <1>1, <2>1, BytesMore
  <2>3. pending[i].bytes \in Nat
    BY <1>1, AnyEventIs
  <2> QED
    BY <2>1, <2>2, <2>3, BytesEmpty
<1> QED
  BY <1>2, <1>3, <1>4, KeptSound

\* One event enters it.
LEMMA PushSound ==
    ASSUME NEW v, NEW bytes, NEW counts, Sound(v, bytes, counts),
           NEW e \in AnyEvent, e.group \in Arriving, \A f \in ToSet(v) : f.receipt < e.receipt,
           Len(v) < MaxPending, bytes + e.bytes <= MaxBytes
    PROVE  /\ Sound(Append(v, e), bytes + e.bytes, Recount(counts, e.group))
           /\ ToSet(Append(v, e)) = ToSet(v) \cup {e} /\ Len(Append(v, e)) = Len(v) + 1
           /\ Append(v, e)[Len(v) + 1] = e
<1> DEFINE u == Append(v, e)
<1>1. /\ v \in Seq(AnyEvent) /\ Len(v) \in Nat /\ DOMAIN v = 1..Len(v) /\ IsFiniteSet(ToSet(v)) /\ ToSet(v) \subseteq AnyEvent
      /\ ByReceipt(v)
  BY OrderedIs DEF Sound
<1>2. /\ u \in Seq(AnyEvent) /\ Len(u) = Len(v) + 1 /\ DOMAIN u = 1..(Len(v) + 1)
      /\ \A i \in 1..Len(v) : u[i] = v[i]
      /\ u[Len(v) + 1] = e
  BY <1>1
<1> HIDE DEF u
<1>3. ToSet(u) = ToSet(v) \cup {e}
  BY <1>1, <1>2 DEF ToSet
<1>4. ByReceipt(u)
  <2> SUFFICES ASSUME NEW i \in 1..(Len(v) + 1), NEW j \in 1..(Len(v) + 1), i < j
               PROVE  u[i].receipt < u[j].receipt
    BY <1>2 DEF ByReceipt
  <2>1. i \in 1..Len(v) /\ u[i] = v[i] /\ v[i] \in ToSet(v)
    BY <1>1, <1>2 DEF ToSet
  <2>2. CASE j = Len(v) + 1
    BY <1>2, <2>1, <2>2
  <2>3. CASE j # Len(v) + 1
    <3>1. j \in 1..Len(v) /\ u[j] = v[j]
      BY <1>1, <1>2, <2>3
    <3> QED
      BY <1>1, <2>1, <3>1 DEF ByReceipt
  <2> QED
    BY <2>2, <2>3
<1>5. \A i \in DOMAIN u : u[i].group \in Arriving
  BY <1>1, <1>2 DEF Sound
<1>6. Len(u) <= MaxPending
  <2>1. MaxPending \in Nat
    BY DeliveryAssumption
  <2> QED
    BY <1>1, <1>2, <2>1
<1>7. e \notin ToSet(v)
  <2>1. e.receipt \in Nat
    BY AnyEventIs
  <2> QED
    BY <2>1
<1>8. bytes + e.bytes = Bytes(ToSet(u))
  <2>1. Bytes(ToSet(v) \cup {e}) = Bytes(ToSet(v)) + e.bytes
    BY <1>1, <1>7, BytesMore
  <2> QED
    BY <1>3, <2>1 DEF Sound
<1>9. /\ Recount(counts, e.group) \in [Groups -> Nat]
      /\ Partitioned => \A g \in Groups : Recount(counts, e.group)[g] = Cardinality(OfGroup(g, ToSet(u)))
  <2>1. CASE ~Partitioned
    BY <2>1 DEF Recount, Sound
  <2>2. CASE Partitioned
    <3>1. e.group \in Groups /\ counts \in [Groups -> Nat]
      BY <2>2 DEF Arriving, Sound
    <3>2. Recount(counts, e.group) = [counts EXCEPT ![e.group] = @ + 1]
      BY <2>2 DEF Recount
    <3>3. \A g \in Groups : counts[g] = Cardinality(OfGroup(g, ToSet(v)))
      BY <2>2 DEF Sound
    <3>4. \A g : Cardinality(OfGroup(g, ToSet(u))) =
                     IF e.group = g THEN Cardinality(OfGroup(g, ToSet(v))) + 1 ELSE Cardinality(OfGroup(g, ToSet(v)))
      BY <1>1, <1>3, <1>7, CountMore
    <3> QED
      BY <3>1, <3>2, <3>3, <3>4
  <2> QED
    BY <2>1, <2>2
<1>10. Sound(u, bytes + e.bytes, Recount(counts, e.group))
  BY <1>2, <1>4, <1>5, <1>6, <1>8, <1>9 DEF Sound
<1> QED
  BY <1>2, <1>3, <1>10 DEF u

-----------------------------------------------------------------------------
(* The queue and its history, in every step *)

QueueInv ==
    /\ setup \in Setups /\ QueueSound
    /\ receipts \in Nat /\ receipts <= MaxEvents /\ gone \subseteq 1..receipts
    /\ Receipts(ToSet(pending)) = 1..receipts \ gone

LEMMA SoundNext == UNCHANGED setup /\ Sound(pending', used', waiting') => QueueSound'
BY DEF QueueSound, Sound, Arriving, Partitioned

\* What waits: events of the queue's type with receipts of their own, numbered up to receipts
LEMMA WaitingIs ==
    ASSUME QueueInv
    PROVE  /\ ToSet(pending) \subseteq AnyEvent /\ pending \in Seq(AnyEvent) /\ DOMAIN pending = 1..Len(pending)
           /\ Len(pending) \in Nat /\ \A i \in DOMAIN pending : pending[i] \in ToSet(pending)
           /\ \A e \in ToSet(pending) : e.receipt \in Nat /\ e.receipt <= receipts /\ e.receipt \notin gone
                                        /\ e.group \in Arriving
           /\ \A e, f \in ToSet(pending) : e.receipt = f.receipt => e = f
<1>1. /\ ToSet(pending) \subseteq AnyEvent /\ pending \in Seq(AnyEvent) /\ DOMAIN pending = 1..Len(pending)
      /\ Len(pending) \in Nat /\ \A i \in DOMAIN pending : pending[i] \in ToSet(pending)
  BY OrderedIs DEF QueueInv, QueueSound, Sound, ToSet
<1>2. ASSUME NEW e \in ToSet(pending)
      PROVE  e.receipt \in Nat /\ e.receipt <= receipts /\ e.receipt \notin gone /\ e.group \in Arriving
  <2>1. e.receipt \in 1..receipts \ gone
    BY DEF QueueInv, Receipts
  <2>2. receipts \in Nat /\ e.group \in Arriving
    BY DEF QueueInv, QueueSound, Sound, ToSet
  <2> QED
    BY <2>1, <2>2
<1>3. ASSUME NEW i \in DOMAIN pending, NEW j \in DOMAIN pending, pending[i].receipt = pending[j].receipt
      PROVE  i = j
  <2>1. pending[i].receipt \in Nat
    BY <1>1, <1>2
  <2>2. ~(i < j) /\ ~(j < i)
    BY <1>3, <2>1 DEF QueueInv, QueueSound, Sound, ByReceipt
  <2> QED
    BY <1>1, <2>2
<1>4. \A e, f \in ToSet(pending) : e.receipt = f.receipt => e = f
  BY <1>3 DEF ToSet
<1> QED
  BY <1>1, <1>2, <1>4

LEMMA QueueSame ==
    ASSUME QueueInv, UNCHANGED <<setup, queue, history>>
    PROVE  QueueInv'
<1>1. QueueSound'
  BY SoundNext DEF QueueInv, QueueSound, queue
<1> QED
  BY <1>1 DEF QueueInv, queue, history

LEMMA QueuePasses ==
    ASSUME QueueInv, UNCHANGED <<setup, queue>>, receipts < MaxEvents, receipts' = receipts + 1, Passes
    PROVE  QueueInv'
<1>1. QueueSound'
  BY SoundNext DEF QueueInv, QueueSound, queue
<1>2. receipts' \in Nat /\ receipts' <= MaxEvents /\ 1..receipts' = 1..receipts \cup {receipts + 1}
      /\ receipts + 1 \notin 1..receipts
  BY DeliveryAssumption DEF QueueInv
<1>3. gone' \subseteq 1..receipts' /\ 1..receipts' \ gone' = 1..receipts \ gone
  BY <1>2 DEF QueueInv, Passes
<1> QED
  BY <1>1, <1>2, <1>3 DEF QueueInv, queue

LEMMA QueueLoses ==
    ASSUME QueueInv, UNCHANGED <<setup, receipts>>, NEW P \in SUBSET ToSet(pending),
           Sound(pending', used', waiting'), ToSet(pending') = ToSet(pending) \ P, gone' = gone \cup Receipts(P)
    PROVE  QueueInv'
<1>1. QueueSound'
  BY SoundNext
<1>2. Receipts(P) \subseteq 1..receipts
  BY DEF QueueInv, Receipts
<1>3. Receipts(ToSet(pending) \ P) = Receipts(ToSet(pending)) \ Receipts(P)
  BY WaitingIs DEF Receipts
<1>4. Receipts(ToSet(pending')) = 1..receipts' \ gone'
  <2>1. Receipts(ToSet(pending')) = Receipts(ToSet(pending)) \ Receipts(P)
    BY <1>3
  <2>2. Receipts(ToSet(pending)) = 1..receipts \ gone
    BY DEF QueueInv
  <2> HIDE DEF Receipts
  <2> QED
    BY <2>1, <2>2
<1> QED
  BY <1>1, <1>2, <1>4 DEF QueueInv

LEMMA ArrivalIs ==
    ASSUME QueueInv, NEW g \in Arriving, NEW b \in Sizes, receipts < MaxEvents
    PROVE  /\ Arrival(g, b) \in AnyEvent /\ Arrival(g, b).receipt = receipts + 1 /\ Arrival(g, b).group = g
           /\ Arrival(g, b).bytes = b /\ \A e \in ToSet(pending) : e.receipt < receipts + 1
<1>1. receipts + 1 \in 1..MaxEvents
  BY DeliveryAssumption DEF QueueInv
<1>2. g \in Groups \cup {Unkeyed}
  BY DEF Arriving
<1>3. \A e \in ToSet(pending) : e.receipt < receipts + 1
  BY WaitingIs DEF QueueInv
<1> QED
  BY <1>1, <1>2, <1>3 DEF Arrival, AnyEvent

\* The events at P leave, the rest is the queue v, and an arrival of group g with b bytes joins it.
Receives(P, v, bytes, counts, g, b) ==
    /\ P \in SUBSET ToSet(pending) /\ Sound(v, bytes, counts)
    /\ ToSet(v) = ToSet(pending) \ P /\ Len(v) < MaxPending
    /\ g \in Arriving /\ b \in Sizes /\ bytes + b <= MaxBytes
    /\ receipts < MaxEvents /\ receipts' = receipts + 1 /\ gone' = gone \cup Receipts(P)
    /\ pending' = Append(v, Arrival(g, b)) /\ used' = bytes + b /\ waiting' = Recount(counts, g)

LEMMA QueueReceives ==
    ASSUME QueueInv, UNCHANGED setup, NEW P, NEW v, NEW bytes, NEW counts, NEW g, NEW b,
           Receives(P, v, bytes, counts, g, b)
    PROVE  QueueInv' /\ ToSet(pending') = (ToSet(pending) \ P) \cup {Arrival(g, b)}
           /\ Len(pending') = Len(v) + 1 /\ pending'[Len(v) + 1] = Arrival(g, b)
<1> USE DEF Receives
<1> DEFINE e == Arrival(g, b)
<1>1. e \in AnyEvent /\ e.receipt = receipts + 1 /\ e.group = g /\ e.bytes = b /\ \A f \in ToSet(v) : f.receipt < receipts + 1
  BY ArrivalIs
<1> HIDE DEF e
<1>2. /\ Sound(Append(v, e), bytes + e.bytes, Recount(counts, e.group))
      /\ ToSet(Append(v, e)) = ToSet(v) \cup {e} /\ Len(Append(v, e)) = Len(v) + 1
      /\ Append(v, e)[Len(v) + 1] = e
  BY <1>1, PushSound
<1>3. Sound(pending', used', waiting') /\ pending' = Append(v, e)
  BY <1>1, <1>2 DEF e
<1>4. QueueSound'
  BY <1>3, SoundNext
<1>5. receipts \in Nat /\ receipts' \in Nat /\ receipts' <= MaxEvents
      /\ 1..receipts' = 1..receipts \cup {receipts + 1} /\ receipts + 1 \notin 1..receipts
  BY DeliveryAssumption DEF QueueInv
<1>6. Receipts(P) \subseteq 1..receipts /\ Receipts(ToSet(pending) \ P) = Receipts(ToSet(pending)) \ Receipts(P)
  BY WaitingIs DEF QueueInv, Receipts
<1>7. ToSet(pending') = (ToSet(pending) \ P) \cup {e}
  BY <1>2, <1>3
<1>8. Receipts(ToSet(pending')) = Receipts(ToSet(pending) \ P) \cup {receipts + 1}
  BY <1>1, <1>7 DEF Receipts
<1>9. Receipts(ToSet(pending)) = 1..receipts \ gone /\ gone \subseteq 1..receipts /\ setup \in Setups
  BY DEF QueueInv
<1>10. Receipts(ToSet(pending')) = 1..receipts' \ gone' /\ gone' \subseteq 1..receipts'
  BY <1>5, <1>6, <1>8, <1>9
<1>11. QueueInv'
  BY <1>4, <1>5, <1>9, <1>10 DEF QueueInv
<1> QED
  BY <1>2, <1>3, <1>7, <1>11 DEF e

LEMMA QueueEmpties ==
    ASSUME QueueInv, UNCHANGED setup, Empty, receipts' \in {receipts, receipts + 1}, receipts' <= MaxEvents,
           gone' = 1..receipts'
    PROVE  QueueInv'
<1>1. Sound(<<>>, 0, [g \in Groups |-> 0])
  <2>1. ToSet(<<>>) = {} /\ \A g : OfGroup(g, {}) = {}
    BY DEF ToSet, OfGroup
  <2>2. Cardinality({}) = 0
    BY FS_EmptySet
  <2>3. <<>> \in Seq(AnyEvent) /\ Len(<<>>) = 0 /\ DOMAIN <<>> = {} /\ ByReceipt(<<>>)
    BY DEF ByReceipt
  <2>4. 0 <= MaxPending /\ 0 <= MaxBytes
    BY DeliveryAssumption
  <2> QED
    BY <2>1, <2>2, <2>3, <2>4, BytesEmpty DEF Sound
<1>2. QueueSound'
  BY <1>1, SoundNext DEF Empty
<1>3. Receipts(ToSet(pending')) = {}
  BY DEF Empty, ToSet, Receipts
<1> QED
  BY <1>2, <1>3 DEF QueueInv

LEMMA NotFull ==
    ASSUME QueueInv, NEW b \in Sizes, ~Full(b)
    PROVE  Len(pending) < MaxPending /\ used + b <= MaxBytes
<1>1. used \in Nat /\ Len(pending) \in Nat
  <2>1. used = Bytes(ToSet(pending)) /\ ToSet(pending) \subseteq AnyEvent /\ IsFiniteSet(ToSet(pending))
        /\ Len(pending) \in Nat
    BY OrderedIs DEF QueueInv, QueueSound, Sound
  <2> QED
    BY <2>1, BytesIs
<1>2. b \in Nat /\ MaxBytes \in Nat /\ MaxPending \in Nat
  BY DeliveryAssumption
<1> QED
  BY <1>1, <1>2 DEF Full

\* An arrival that fits
LEMMA QueuedIs ==
    ASSUME QueueInv, UNCHANGED setup, NEW g, NEW b, OfferQueued(g, b)
    PROVE  QueueInv' /\ ToSet(pending') = ToSet(pending) \cup {Arrival(g, b)} /\ UNCHANGED gone
           /\ (Partitioned => waiting' = [waiting EXCEPT ![g] = @ + 1])
<1>1. /\ g \in Arriving /\ b \in Sizes /\ receipts < MaxEvents /\ receipts' = receipts + 1 /\ ~Full(b)
      /\ gone' = gone /\ pending' = Append(pending, Arrival(g, b)) /\ used' = used + b /\ waiting' = Recount(waiting, g)
  BY DEF OfferQueued, Arrives, Push, Arrival
<1>2. Len(pending) < MaxPending /\ used + b <= MaxBytes
  BY <1>1, NotFull
<1>3. /\ Sound(pending, used, waiting) /\ {} \in SUBSET ToSet(pending) /\ ToSet(pending) = ToSet(pending) \ {}
      /\ gone' = gone \cup Receipts({})
  BY <1>1 DEF QueueInv, QueueSound, Receipts
<1>4. QueueInv' /\ ToSet(pending') = (ToSet(pending) \ {}) \cup {Arrival(g, b)}
  <2>1. Receives({}, pending, used, waiting, g, b)
    BY <1>1, <1>2, <1>3 DEF Receives
  <2> QED
    BY <2>1, QueueReceives
<1> QED
  BY <1>1, <1>3, <1>4 DEF Recount

\* An arrival for which others go
LEMMA EvictingIs ==
    ASSUME QueueInv, UNCHANGED setup, NEW g, NEW b, OfferEvicting(g, b), Plan(g, b) # NoPlan
    PROVE  LET plan == Plan(g, b)
               victims == At(pending, plan)
           IN /\ QueueInv' /\ ToSet(pending') = (ToSet(pending) \ victims) \cup {Arrival(g, b)}
              /\ Len(pending') > 0 /\ pending'[Len(pending')] = Arrival(g, b)
              /\ gone' = gone \cup Receipts(victims)
              /\ plan \in SUBSET DOMAIN pending /\ FairlyTaken(g, plan)
<1> DEFINE plan == Plan(g, b)
           victims == At(pending, plan)
           v == Without(plan)
<1>1. /\ g \in Arriving /\ b \in Sizes /\ receipts < MaxEvents /\ receipts' = receipts + 1 /\ b <= MaxBytes
  BY DEF OfferEvicting, Arrives
<1>2. plan \in SUBSET DOMAIN pending /\ Enough(plan, b) /\ FairlyTaken(g, plan)
  BY <1>1, PlanIs DEF QueueInv
<1>3. plan \ NoPlan = plan
  <2>1. DOMAIN pending = 1..Len(pending)
    BY WaitingIs
  <2> QED
    BY <1>2, <2>1 DEF NoPlan
<1> HIDE DEF plan
<1>4. /\ gone' = gone \cup Receipts(victims)
      /\ pending' = Append(v, Arrival(g, b)) /\ used' = (used - Bytes(victims)) + b
      /\ waiting' = Recount(Forget(victims), g)
  <2>1. /\ Push(Without(plan), used - Bytes({pending[i] : i \in plan \ NoPlan}),
                Forget({pending[i] : i \in plan \ NoPlan}), Arrival(g, b))
        /\ gone' = gone \cup Receipts({pending[i] : i \in plan \ NoPlan})
    BY DEF OfferEvicting, plan
  <2>2. {pending[i] : i \in plan \ NoPlan} = victims
    BY <1>3 DEF At
  <2> QED
    BY <2>1, <2>2 DEF Push, Arrival
<1>5. v \in Seq(AnyEvent) /\ Kept(v, pending, plan)
  <2>1. pending \in Seq(AnyEvent)
    BY WaitingIs
  <2> QED
    BY <1>2, <2>1, WithoutIs
<1> HIDE DEF v
<1>6. /\ Sound(v, used - Bytes(victims), Forget(victims))
      /\ ToSet(v) = ToSet(pending) \ victims /\ Len(v) = Len(pending) - Cardinality(plan)
  BY <1>2, <1>5, KeptSound DEF QueueInv
<1>7. victims \in SUBSET ToSet(pending) /\ Cardinality(plan) \in Nat /\ Len(pending) \in Nat /\ Len(v) \in Nat
      /\ IsFiniteSet(ToSet(pending))
  BY <1>2, <1>5, AtIs, OrderedIs DEF QueueInv, QueueSound, Sound
<1>8. Len(v) < MaxPending /\ (used - Bytes(victims)) + b <= MaxBytes
  <2>1. MaxPending \in Nat /\ MaxPending > 0 /\ MaxBytes \in Nat /\ b \in Nat
    BY <1>1, DeliveryAssumption
  <2>2. used - Bytes(victims) = Bytes(ToSet(v)) /\ Bytes(ToSet(v)) \in Nat
    <3>1. IsFiniteSet(ToSet(v)) /\ ToSet(v) \subseteq AnyEvent
      BY <1>6, OrderedIs DEF Sound
    <3> QED
      BY <1>6, <3>1, BytesIs DEF Sound
  <2>3. CASE Len(v) = 0
    <3>1. ToSet(v) = {}
      <4>1. DOMAIN v = {}
        BY <1>5, <2>3
      <4> QED
        BY <4>1 DEF ToSet
    <3>2. used - Bytes(victims) = 0
      BY <2>2, <3>1, BytesEmpty
    <3> QED
      BY <1>1, <2>1, <2>3, <3>2
  <2>4. CASE Len(v) # 0
    <3>1. Len(v) < MaxPending /\ b <= MaxBytes - (used - Bytes({pending[i] : i \in plan}))
      BY <1>2, <1>6, <2>4 DEF Enough
    <3>2. b <= MaxBytes - (used - Bytes(victims))
      BY <3>1 DEF At
    <3> HIDE DEF victims
    <3> QED
      BY <2>1, <2>2, <3>1, <3>2
  <2> QED
    BY <2>3, <2>4
<1> HIDE DEF victims
<1>9. QueueInv' /\ ToSet(pending') = (ToSet(pending) \ victims) \cup {Arrival(g, b)}
      /\ Len(pending') = Len(v) + 1 /\ pending'[Len(v) + 1] = Arrival(g, b)
  <2>1. Receives(victims, v, used - Bytes(victims), Forget(victims), g, b)
    BY <1>1, <1>4, <1>6, <1>7, <1>8 DEF Receives
  <2> QED
    BY <2>1, QueueReceives
<1> QED
  BY <1>2, <1>4, <1>7, <1>9 DEF plan, victims

\* The event that starts, or is reported
LEMMA DeliverIs ==
    ASSUME QueueInv, UNCHANGED setup, Deliver
    PROVE  LET i == Oldest(Selected)
           IN /\ QueueInv' /\ ToSet(pending') = ToSet(pending) \ {pending[i]} /\ gone' = gone \cup {pending[i].receipt}
              /\ i \in Selected /\ i \in DOMAIN pending /\ \A j \in Selected : i <= j
<1> DEFINE i == Oldest(Selected)
<1>1. Selected \in SUBSET DOMAIN pending /\ Selected # {}
  BY DEF Deliver, Selected
<1>2. i \in Selected /\ i \in DOMAIN pending /\ \A j \in Selected : i <= j
  BY <1>1, OldestIs DEF QueueInv
<1>3. Take(i) /\ gone' = gone \cup {pending[i].receipt} /\ receipts' = receipts
  BY DEF Deliver
<1> HIDE DEF i
<1>4. /\ Sound(pending', used', waiting') /\ ToSet(pending') = ToSet(pending) \ {pending[i]}
  BY <1>2, <1>3, TakeSound DEF Take, QueueInv
<1>5. {pending[i]} \in SUBSET ToSet(pending) /\ gone' = gone \cup Receipts({pending[i]})
  BY <1>2, <1>3 DEF ToSet, Receipts
<1>6. QueueInv'
  BY <1>3, <1>4, <1>5, QueueLoses
<1> QED
  BY <1>2, <1>3, <1>4, <1>6 DEF i

\* The events of a key whose hook failed
LEMMA HookFailsIs ==
    ASSUME QueueInv, UNCHANGED setup, NEW a, HookFails(a)
    PROVE  LET held == OfGroup(a.key, ToSet(pending))
           IN QueueInv' /\ ToSet(pending') = ToSet(pending) \ held /\ gone' = gone \cup Receipts(held)
<1> DEFINE of == {i \in DOMAIN pending : pending[i].group = a.key}
           held == At(pending, of)
<1>1. pending' = Without(of) /\ used' = used - Bytes(held) /\ waiting' = Forget(held) /\ gone' = gone \cup Receipts(held)
      /\ receipts' = receipts
  BY DEF HookFails, At
<1>2. held = OfGroup(a.key, ToSet(pending)) /\ of \in SUBSET DOMAIN pending /\ held \in SUBSET ToSet(pending)
  BY DEF At, OfGroup, ToSet
<1> HIDE DEF of, held
<1>3. Without(of) \in Seq(AnyEvent) /\ Kept(Without(of), pending, of)
  BY <1>2, WithoutIs, WaitingIs
<1>4. Sound(pending', used', waiting') /\ ToSet(pending') = ToSet(pending) \ held
  BY <1>1, <1>2, <1>3, KeptSound DEF QueueInv, held
<1>5. QueueInv'
  BY <1>1, <1>2, <1>4, QueueLoses
<1> QED
  BY <1>1, <1>2, <1>4, <1>5

LEMMA StopIs ==
    ASSUME QueueInv, UNCHANGED setup, Stop, receipts' \in {receipts, receipts + 1}, receipts' <= MaxEvents
    PROVE  QueueInv' /\ ToSet(pending') = {}
<1>1. QueueInv'
  BY QueueEmpties DEF Stop
<1> QED
  BY <1>1 DEF Stop, Empty, ToSet

LEMMA QueueStep ==
    ASSUME QueueInv, DeliveryNext
    PROVE  QueueInv'
<1>0. UNCHANGED setup
  BY DEF DeliveryNext
<1>1. ASSUME NEW g \in Arriving, NEW b \in Sizes, OfferTaken(g, b)
      PROVE  QueueInv'
  BY <1>0, <1>1, QueuePasses DEF OfferTaken, Arrives, queue
<1>2. ASSUME NEW g \in Arriving, NEW b \in Sizes, OfferQueued(g, b)
      PROVE  QueueInv'
  BY <1>0, <1>2, QueuedIs
<1>3. ASSUME NEW g \in Arriving, NEW b \in Sizes, OfferEvicting(g, b)
      PROVE  QueueInv'
  <2>1. CASE Plan(g, b) # NoPlan
    BY <1>0, <1>3, <2>1, EvictingIs
  <2>2. CASE Plan(g, b) = NoPlan
    <3>1. Passes /\ UNCHANGED queue /\ receipts < MaxEvents /\ receipts' = receipts + 1
      BY <1>3, <2>2 DEF OfferEvicting, Arrives
    <3> QED
      BY <1>0, <3>1, QueuePasses DEF queue
  <2> QED
    BY <2>1, <2>2
<1>4. ASSUME NEW g \in Arriving, NEW b \in Sizes, OfferDropped(g, b)
      PROVE  QueueInv'
  BY <1>0, <1>4, QueuePasses DEF OfferDropped, Arrives, queue
<1>5. ASSUME NEW g \in Arriving, NEW b \in Sizes, OfferOverflows(g, b)
      PROVE  QueueInv'
  <2>1. receipts' = receipts + 1 /\ receipts' <= MaxEvents /\ Stop
    BY <1>5, DeliveryAssumption DEF OfferOverflows, Arrives, QueueInv
  <2> QED
    BY <1>0, <2>1, StopIs
<1>6. ASSUME Offer
      PROVE  QueueInv'
  BY <1>1, <1>2, <1>3, <1>4, <1>5, <1>6 DEF Offer
<1>7. ASSUME Work
      PROVE  QueueInv'
  <2>1. CASE Deliver
    BY <1>0, <2>1, DeliverIs
  <2>2. CASE Begin \/ StartReadiness \/ Rescan \/ Wait
    BY <1>0, <2>2, QueueSame DEF Begin, StartReadiness, Rescan, Wait, queue, history
  <2> QED
    BY <1>7, <2>1, <2>2 DEF Work
<1>8. ASSUME HandlersEnd
      PROVE  QueueInv'
  <2>1. UNCHANGED <<queue, history>>
    BY <1>8 DEF HandlersEnd, HandlerEnds
  <2> QED
    BY <1>0, <2>1, QueueSame DEF queue, history
<1>9. ASSUME NEW a \in attempts, HookSucceeds(a) \/ HookIgnored(a)
      PROVE  QueueInv'
  <2>1. UNCHANGED <<queue, history>>
    BY <1>9 DEF HookSucceeds, HookIgnored
  <2> QED
    BY <1>0, <2>1, QueueSame DEF queue, history
<1>10. ASSUME NEW a \in attempts, HookFails(a)
       PROVE  QueueInv'
  BY <1>0, <1>10, HookFailsIs
<1>11. ASSUME HooksSettle
       PROVE  QueueInv'
  BY <1>9, <1>10, <1>11 DEF HooksSettle
<1>12. ASSUME StopSource
       PROVE  QueueInv'
  <2>1. Stop /\ receipts' = receipts /\ receipts <= MaxEvents
    BY <1>12 DEF StopSource, QueueInv
  <2> QED
    BY <1>0, <2>1, StopIs
<1>13. ASSUME Finish
       PROVE  QueueInv'
  BY <1>0, <1>13, QueueSame DEF Finish, queue, history
<1> QED
  BY <1>6, <1>7, <1>8, <1>11, <1>12, <1>13 DEF DeliveryNext

LEMMA QueueInit == DrainInit => QueueInv
<1> SUFFICES ASSUME DrainInit
             PROVE  QueueInv
  OBVIOUS
<1> USE DEF DrainInit, DeliveryInit
<1>1. ToSet(pending) = {} /\ \A g : OfGroup(g, ToSet(pending)) = {}
  BY DEF ToSet, OfGroup
<1>2. Cardinality({}) = 0
  BY FS_EmptySet
<1>3. pending \in Seq(AnyEvent) /\ Len(pending) = 0 /\ DOMAIN pending = {} /\ ByReceipt(pending)
  BY DEF ByReceipt
<1>4. 0 <= MaxPending /\ 0 <= MaxBytes /\ 0 <= MaxEvents
  BY DeliveryAssumption
<1>5. QueueSound
  BY <1>1, <1>2, <1>3, <1>4, BytesEmpty DEF QueueSound, Sound
<1>6. Receipts(ToSet(pending)) = {}
  BY <1>1 DEF Receipts
<1> QED
  BY <1>4, <1>5, <1>6 DEF QueueInv

\* What else happens leaves the subscription as it is, but for the seal and who waits.
Aside == UNCHANGED <<setup, queue, source, loop, busyKeys, running, ready, history>>

LEMMA DrainMoves == ASSUME [DrainNext]_drainVars PROVE DeliveryNext \/ Aside
<1> USE DEF Aside, deliveryVars, workVars, drainVars
<1>1. CASE Delivers
  BY <1>1 DEF Delivers
<1>2. CASE \E t \in Tasks : TaskMoves(t)
  BY <1>2 DEF TaskMoves
<1>3. CASE RunReturns \/ RequestEnds \/ \E r \in Requests : RequestStarts(r)
  BY <1>3 DEF RunReturns, RequestEnds, RequestStarts
<1>4. CASE DrainBegins \/ DrainLooks \/ DrainExpires
  BY <1>4 DEF DrainBegins, DrainLooks, DrainExpires
<1>5. CASE Close
  BY <1>5 DEF Close, DeliveryNext
<1> QED
  BY <1>1, <1>2, <1>3, <1>4, <1>5 DEF DrainNext

LEMMA QueueAlways == DrainSpec => []QueueInv
<1>1. QueueInv /\ [DrainNext]_drainVars => QueueInv'
  <2> SUFFICES ASSUME QueueInv, [DrainNext]_drainVars
               PROVE  QueueInv'
    OBVIOUS
  <2>1. CASE DeliveryNext
    BY <2>1, QueueStep
  <2>2. CASE Aside
    BY <2>2, QueueSame DEF Aside
  <2> QED
    BY <2>1, <2>2, DrainMoves
<1> QED
  BY <1>1, QueueInit, PTL DEF DrainSpec

-----------------------------------------------------------------------------
(* The order in which events start *)

\* Besides StartsInOrder: what runs was received, a key is busy while an event of it runs, and the
\* worker waits for the next event only when none waits and another may run.
StartInv ==
    /\ running \subseteq AnyEvent /\ IsFiniteSet(running) /\ Cardinality(running) <= Concurrency
    /\ \A e \in running : e.receipt <= receipts /\ e.group \in Arriving \ {Failed}
    /\ Partitioned => /\ busyKeys = {e.group : e \in running}
                      /\ \A e, f \in running : e.group = f.group => e = f
    /\ ~Partitioned => busyKeys = {}
    /\ \A e \in running, f \in ToSet(pending) : Same(e, f) => e.receipt < f.receipt
    /\ loop = "taking" => ~Partitioned /\ ToSet(pending) = {} /\ Cardinality(running) < Concurrency

LEMMA StartKept ==
    ASSUME QueueInv, StartInv, UNCHANGED <<setup, busyKeys, running>>, receipts' \in {receipts, receipts + 1},
           \A f \in ToSet(pending') : f \in ToSet(pending) \/ f.receipt = receipts + 1,
           loop' = "taking" => ~Partitioned /\ ToSet(pending') = {} /\ Cardinality(running) < Concurrency
    PROVE  StartInv'
<1>0. receipts \in Nat /\ \A e \in running : e.receipt \in Nat
  BY AnyEventIs DEF QueueInv, StartInv
<1>1. \A e \in running : e.receipt <= receipts'
  BY <1>0 DEF StartInv
<1>2. \A e \in running, f \in ToSet(pending') : Same(e, f) => e.receipt < f.receipt
  BY <1>0 DEF StartInv
<1> QED
  BY <1>1, <1>2 DEF StartInv, Partitioned, Arriving, Same

\* One more event runs.
LEMMA StartOne ==
    ASSUME QueueInv, StartInv, UNCHANGED setup, NEW e \in AnyEvent, e.group \in Arriving \ {Failed},
           e.receipt <= receipts', receipts' \in {receipts, receipts + 1}, Cardinality(running) < Concurrency,
           Start(e), Partitioned => e.group \notin busyKeys,
           ToSet(pending') \subseteq ToSet(pending), \A f \in ToSet(pending') : Same(e, f) => e.receipt < f.receipt
    PROVE  StartInv'
<1>0. receipts \in Nat /\ \A f \in running : f.receipt \in Nat
  BY AnyEventIs DEF QueueInv, StartInv
<1>1. running' = running \cup {e} /\ busyKeys' = busyKeys \cup (IF e.group \in Keys THEN {e.group} ELSE {})
      /\ loop' = "start"
  BY DEF Start
<1>2. IsFiniteSet(running') /\ Cardinality(running') <= Concurrency
  <2>1. IsFiniteSet(running) /\ Cardinality(running) \in Nat /\ Concurrency \in Nat
    BY DeliveryAssumption, FS_CardinalityType DEF StartInv
  <2>2. IsFiniteSet(running \cup {e}) /\ (Cardinality(running \cup {e}) = Cardinality(running)
                                         \/ Cardinality(running \cup {e}) = Cardinality(running) + 1)
    BY <2>1, FS_AddElement
  <2> QED
    BY <1>1, <2>1, <2>2
<1>3. running' \subseteq AnyEvent /\ \A f \in running' : f.receipt <= receipts' /\ f.group \in Arriving \ {Failed}
  BY <1>0, <1>1 DEF StartInv
<1>4. Partitioned => /\ busyKeys' = {f.group : f \in running'}
                     /\ \A f, h \in running' : f.group = h.group => f = h
  <2> SUFFICES ASSUME Partitioned
               PROVE  /\ busyKeys' = {f.group : f \in running'}
                      /\ \A f, h \in running' : f.group = h.group => f = h
    OBVIOUS
  <2>1. e.group \in Keys /\ e.group \notin busyKeys
    BY DEF Arriving, Groups
  <2>2. \A f \in running : f.group # e.group
    BY <2>1 DEF StartInv
  <2> QED
    BY <1>1, <2>1, <2>2 DEF StartInv
<1>5. ~Partitioned => busyKeys' = {}
  <2> SUFFICES ASSUME ~Partitioned PROVE busyKeys' = {}
    OBVIOUS
  <2>1. e.group \notin Keys
    BY DeliveryAssumption DEF Arriving, Groups
  <2> QED
    BY <1>1, <2>1 DEF StartInv
<1>6. \A h \in running', f \in ToSet(pending') : Same(h, f) => h.receipt < f.receipt
  BY <1>1 DEF StartInv
<1> QED
  BY <1>1, <1>2, <1>3, <1>4, <1>5, <1>6 DEF StartInv, Partitioned, Arriving, Same

\* One event ends.
LEMMA EndOne ==
    ASSUME QueueInv, StartInv, UNCHANGED <<setup, queue, history>>, NEW e \in running, HandlerEnds(e)
    PROVE  StartInv'
<1>1. running' = running \ {e} /\ busyKeys' = busyKeys \ {e.group} /\ (loop' = "taking" => loop = "taking")
  BY DEF HandlerEnds, Woken
<1>2. IsFiniteSet(running') /\ Cardinality(running') <= Concurrency /\ Cardinality(running') < Concurrency
  <2>1. IsFiniteSet(running) /\ Cardinality(running) \in Nat /\ Concurrency \in Nat /\ Cardinality(running) <= Concurrency
    BY DeliveryAssumption, FS_CardinalityType DEF StartInv
  <2>2. Cardinality(running') = Cardinality(running) - 1 /\ IsFiniteSet(running')
    BY <1>1, <2>1, OneLess
  <2> QED
    BY <2>1, <2>2
<1>3. Partitioned => busyKeys' = {f.group : f \in running'}
  BY <1>1 DEF StartInv
<1> QED
  BY <1>1, <1>2, <1>3 DEF StartInv, queue, history, Partitioned, Arriving, Same

LEMMA StartStep ==
    ASSUME QueueInv, StartInv, DeliveryNext
    PROVE  StartInv'
<1>0. UNCHANGED setup /\ receipts \in Nat
  BY DEF DeliveryNext, QueueInv
<1>1. ASSUME NEW g \in Arriving, NEW b \in Sizes, OfferTaken(g, b)
      PROVE  StartInv'
  <2>1. receipts < MaxEvents /\ receipts' = receipts + 1 /\ loop = "taking" /\ Start(Arrival(g, b)) /\ pending' = pending
    BY <1>1 DEF OfferTaken, Arrives, queue
  <2>2. ~Partitioned /\ ToSet(pending') = {} /\ Cardinality(running) < Concurrency /\ ToSet(pending) = {}
    BY <2>1 DEF StartInv
  <2>3. g \in Arriving \ {Failed}
    BY <2>2, DeliveryAssumption DEF Arriving, Groups
  <2>4. Arrival(g, b) \in AnyEvent /\ Arrival(g, b).receipt = receipts + 1 /\ Arrival(g, b).group = g
    BY <2>1, ArrivalIs
  <2>5. Arrival(g, b).receipt <= receipts'
    BY <1>0, <2>1, <2>4
  <2> QED
    BY <1>0, <2>1, <2>2, <2>3, <2>4, <2>5, StartOne
<1>2. ASSUME NEW g \in Arriving, NEW b \in Sizes, OfferQueued(g, b)
      PROVE  StartInv'
  <2>1. receipts < MaxEvents /\ receipts' = receipts + 1 /\ UNCHANGED <<busyKeys, running>> /\ loop' # "taking"
    BY <1>2 DEF OfferQueued, Arrives, Push, Woken
  <2>2. ToSet(pending') = ToSet(pending) \cup {Arrival(g, b)}
    BY <1>0, <1>2, QueuedIs
  <2>3. Arrival(g, b).receipt = receipts + 1
    BY <2>1, ArrivalIs
  <2> QED
    BY <1>0, <2>1, <2>2, <2>3, StartKept
<1>3. ASSUME NEW g \in Arriving, NEW b \in Sizes, OfferEvicting(g, b)
      PROVE  StartInv'
  <2>1. receipts < MaxEvents /\ receipts' = receipts + 1 /\ UNCHANGED <<busyKeys, running>> /\ loop' # "taking"
    BY <1>3 DEF OfferEvicting, Arrives, Push, Woken
  <2>2. CASE Plan(g, b) # NoPlan
    <3>1. ToSet(pending') = (ToSet(pending) \ At(pending, Plan(g, b))) \cup {Arrival(g, b)}
      BY <1>0, <1>3, <2>2, EvictingIs
    <3>2. Arrival(g, b).receipt = receipts + 1
      BY <2>1, ArrivalIs
    <3> QED
      BY <1>0, <2>1, <3>1, <3>2, StartKept
  <2>3. CASE Plan(g, b) = NoPlan
    <3>1. pending' = pending
      BY <1>3, <2>3 DEF OfferEvicting, queue
    <3> QED
      BY <1>0, <2>1, <3>1, StartKept
  <2> QED
    BY <2>2, <2>3
<1>4. ASSUME NEW g \in Arriving, NEW b \in Sizes, OfferDropped(g, b)
      PROVE  StartInv'
  <2>1. receipts' = receipts + 1 /\ UNCHANGED <<busyKeys, running>> /\ loop' # "taking" /\ pending' = pending
    BY <1>4 DEF OfferDropped, Arrives, queue
  <2> QED
    BY <1>0, <2>1, StartKept
<1>5. ASSUME Stop, receipts' \in {receipts, receipts + 1}
      PROVE  StartInv'
  <2>1. UNCHANGED <<busyKeys, running>> /\ loop' # "taking" /\ ToSet(pending') = {}
    BY <1>5 DEF Stop, Empty, ToSet
  <2> QED
    BY <1>0, <1>5, <2>1, StartKept
<1>6. ASSUME Offer
      PROVE  StartInv'
  <2>1. \A g, b : OfferOverflows(g, b) => Stop /\ receipts' \in {receipts, receipts + 1}
    BY DEF OfferOverflows, Arrives
  <2> QED
    BY <1>1, <1>2, <1>3, <1>4, <1>5, <1>6, <2>1 DEF Offer
<1>7. ASSUME Deliver
      PROVE  StartInv'
  <2> DEFINE i == Oldest(Selected)
             e == pending[i]
  <2>1. /\ ToSet(pending') = ToSet(pending) \ {e} /\ i \in Selected /\ i \in DOMAIN pending
        /\ \A j \in Selected : i <= j
    BY <1>0, <1>7, DeliverIs
  <2>2. /\ receipts' = receipts /\ Cardinality(running) < Concurrency
        /\ e.group = Failed => loop' = "start" /\ UNCHANGED <<busyKeys, running>>
        /\ e.group # Failed => Start(e)
    <3>1. IsFiniteSet(running) /\ Concurrency \in Nat
      BY DeliveryAssumption DEF StartInv
    <3>2. Cardinality(running) \in Nat
      BY <3>1, FS_CardinalityType
    <3> QED
      BY <1>7, <3>1, <3>2 DEF Deliver, AtCapacity
  <2> HIDE DEF i
  <2>3. e \in AnyEvent /\ e.receipt <= receipts /\ e.group \in Arriving /\ e \in ToSet(pending) /\ e.receipt \in Nat
    BY <2>1, WaitingIs
  <2>4. CASE e.group = Failed
    BY <1>0, <2>1, <2>2, <2>4, StartKept
  <2>5. CASE e.group # Failed
    <3>1. Partitioned => e.group \notin busyKeys
      <4> SUFFICES ASSUME Partitioned PROVE e.group \notin busyKeys
        OBVIOUS
      <4>1. e.group \in Keys
        BY <2>3, <2>5 DEF Arriving, Groups
      <4> QED
        BY <2>1, <4>1 DEF Selected, Eligible
    <3>2. ASSUME NEW j \in DOMAIN pending, Same(e, pending[j]), pending[j] # e
          PROVE  e.receipt < pending[j].receipt
      <4>1. j \in Selected
        BY <2>1, <3>2 DEF Same, Selected, Eligible
      <4>2. i < j
        <5>1. i \in Nat /\ j \in Nat
          BY <2>1, WaitingIs
        <5> QED
          BY <2>1, <3>2, <4>1, <5>1
      <4> QED
        BY <2>1, <4>2 DEF QueueInv, QueueSound, Sound, ByReceipt
    <3>3. \A f \in ToSet(pending') : Same(e, f) => e.receipt < f.receipt
      BY <2>1, <3>2 DEF ToSet
    <3> HIDE DEF e
    <3> QED
      BY <1>0, <2>1, <2>2, <2>3, <2>5, <3>1, <3>3, StartOne
  <2> QED
    BY <2>4, <2>5
<1>8. ASSUME Wait
      PROVE  StartInv'
  <2>1. UNCHANGED <<queue, history, busyKeys, running>> /\ (AtCapacity \/ Selected = {})
        /\ (loop' = "taking" => ~AtCapacity /\ ~Partitioned)
    BY <1>8 DEF Wait
  <2>2. loop' = "taking" => ~Partitioned /\ ToSet(pending') = {} /\ Cardinality(running) < Concurrency
    <3> SUFFICES ASSUME loop' = "taking"
                 PROVE  ~Partitioned /\ ToSet(pending') = {} /\ Cardinality(running) < Concurrency
      OBVIOUS
    <3>1. Selected = DOMAIN pending /\ Selected = {}
      BY <2>1 DEF Selected
    <3>2. IsFiniteSet(running) /\ Concurrency \in Nat
      BY DeliveryAssumption DEF StartInv
    <3>3. Cardinality(running) \in Nat
      BY <3>2, FS_CardinalityType
    <3>4. ToSet(pending') = {}
      BY <2>1, <3>1 DEF ToSet, queue
    <3> QED
      BY <2>1, <3>2, <3>3, <3>4 DEF AtCapacity
  <2> QED
    BY <1>0, <2>1, <2>2, StartKept DEF queue, history
<1>9. ASSUME Begin \/ StartReadiness \/ Rescan \/ Finish
      PROVE  StartInv'
  <2>1. UNCHANGED <<queue, history, busyKeys, running>> /\ (loop' = "taking" => loop = "taking")
    BY <1>9 DEF Begin, StartReadiness, Rescan, Finish
  <2>2. loop = "taking" => ~Partitioned /\ ToSet(pending) = {} /\ Cardinality(running) < Concurrency
    BY DEF StartInv
  <2> QED
    BY <1>0, <2>1, <2>2, StartKept DEF queue, history
<1>10. ASSUME HandlersEnd
       PROVE  StartInv'
  <2>1. PICK e \in running : HandlerEnds(e)
    BY <1>10 DEF HandlersEnd
  <2>2. UNCHANGED <<queue, history>>
    BY <2>1 DEF HandlerEnds
  <2> QED
    BY <1>0, <2>1, <2>2, EndOne DEF queue, history
<1>11. ASSUME HooksSettle
       PROVE  StartInv'
  <2>1. PICK a \in attempts : HookSucceeds(a) \/ HookFails(a) \/ HookIgnored(a)
    BY <1>11 DEF HooksSettle
  <2>2. UNCHANGED <<receipts, busyKeys, running>> /\ (loop' = "taking" => loop = "taking")
    BY <2>1 DEF HookSucceeds, HookFails, HookIgnored, Woken, history
  <2>3. ToSet(pending') \subseteq ToSet(pending)
    <3>1. CASE HookFails(a)
      BY <1>0, <3>1, HookFailsIs
    <3>2. CASE HookSucceeds(a) \/ HookIgnored(a)
      BY <3>2 DEF HookSucceeds, HookIgnored, queue
    <3> QED
      BY <2>1, <3>1, <3>2
  <2>4. loop = "taking" => ~Partitioned /\ ToSet(pending) = {} /\ Cardinality(running) < Concurrency
    BY DEF StartInv
  <2> QED
    BY <1>0, <2>2, <2>3, <2>4, StartKept
<1>12. ASSUME StopSource
       PROVE  StartInv'
  BY <1>5, <1>12 DEF StopSource
<1> QED
  BY <1>6, <1>7, <1>8, <1>9, <1>10, <1>11, <1>12 DEF DeliveryNext, Work

LEMMA StartAlways == DrainSpec => [](QueueInv /\ StartInv)
<1>1. DrainInit => StartInv
  <2> SUFFICES ASSUME DrainInit
               PROVE  StartInv
    OBVIOUS
  <2>1. running = {} /\ busyKeys = {} /\ loop # "taking"
    BY DEF DrainInit, DeliveryInit
  <2>2. IsFiniteSet({}) /\ Cardinality({}) = 0 /\ 0 <= Concurrency
    BY FS_EmptySet, DeliveryAssumption
  <2> QED
    BY <2>1, <2>2 DEF StartInv
<1>2. QueueInv /\ StartInv /\ [DrainNext]_drainVars => StartInv'
  <2> SUFFICES ASSUME QueueInv, StartInv, [DrainNext]_drainVars
               PROVE  StartInv'
    OBVIOUS
  <2>1. CASE DeliveryNext
    BY <2>1, StartStep
  <2>2. CASE Aside
    BY <2>2 DEF Aside, queue, history, StartInv, Partitioned, Arriving, Same
  <2> QED
    BY <2>1, <2>2, DrainMoves
<1> QED
  BY <1>1, <1>2, QueueAlways, PTL DEF DrainSpec

\* Events of one key start in receive order and one at a time, and without a partition all events do:
\* none that waits is older than one that runs, whatever was evicted, reported or stopped meanwhile.
THEOREM EventsStartInOrder == DrainSpec => []StartsInOrder
<1>1. QueueInv /\ StartInv => StartsInOrder
  <2> SUFFICES ASSUME QueueInv, StartInv
               PROVE  StartsInOrder
    OBVIOUS
  <2>1. \A i \in DOMAIN pending : pending[i] \in ToSet(pending)
    BY DEF ToSet
  <2>2. \A i, j \in DOMAIN pending : i < j => pending[i].receipt < pending[j].receipt
    BY DEF QueueInv, QueueSound, Sound, ByReceipt
  <2> QED
    BY <2>1, <2>2 DEF StartInv, StartsInOrder
<1> QED
  BY <1>1, StartAlways, PTL

-----------------------------------------------------------------------------
(* What an arrival may take *)

LEMMA FairStep ==
    ASSUME QueueInv, StartInv, [DrainNext]_drainVars, Partitioned, source' = "open", receipts' > receipts,
           NEW g \in Groups
    PROVE  LET goneOf(k) == {i \in DOMAIN pending : pending[i].group = k /\ pending[i].receipt \in gone'}
               arrival == IF Len(pending') = 0 THEN Failed ELSE pending'[Len(pending')].group
           IN g # arrival /\ goneOf(g) # {} =>
               /\ CountOf(g, pending') >= CountOf(arrival, pending')
               /\ \A i \in goneOf(g) : \A j \in DOMAIN pending' :
                      pending'[j].group = g => pending[i].receipt < pending'[j].receipt
<1> DEFINE goneOf(k) == {i \in DOMAIN pending : pending[i].group = k /\ pending[i].receipt \in gone'}
           arrival == IF Len(pending') = 0 THEN Failed ELSE pending'[Len(pending')].group
<1> SUFFICES ASSUME g # arrival, goneOf(g) # {}
             PROVE  /\ CountOf(g, pending') >= CountOf(arrival, pending')
                    /\ \A i \in goneOf(g) : \A j \in DOMAIN pending' :
                           pending'[j].group = g => pending[i].receipt < pending'[j].receipt
  OBVIOUS
<1>0. receipts \in Nat
  BY DEF QueueInv
<1>1. \A i \in DOMAIN pending : pending[i].receipt \in Nat /\ pending[i].receipt <= receipts
                                /\ pending[i].receipt \notin gone /\ pending[i] \in ToSet(pending)
  BY WaitingIs
<1>2. PICK x \in goneOf(g) : TRUE
  OBVIOUS
<1>3. ~(gone' \subseteq gone \cup {receipts + 1})
  <2>1. pending[x].receipt \in gone' /\ x \in DOMAIN pending
    OBVIOUS
  <2>2. pending[x].receipt \notin gone /\ pending[x].receipt # receipts + 1
    BY <1>0, <1>1, <2>1
  <2> QED
    BY <2>1, <2>2
<1> HIDE DEF goneOf
<1>4. PICK h \in Arriving, b \in Sizes : OfferEvicting(h, b) /\ Plan(h, b) # NoPlan
  <2>1. receipts' # receipts
    BY <1>0
  <2>2. DeliveryNext
    BY <2>1, DrainMoves DEF Aside, history
  <2>3. ~(Work \/ HandlersEnd \/ HooksSettle \/ StopSource \/ Finish)
    BY <2>1 DEF Work, Begin, StartReadiness, Rescan, Wait, Deliver, HandlersEnd, HandlerEnds, HooksSettle,
                HookSucceeds, HookFails, HookIgnored, StopSource, Finish, history
  <2>4. PICK h \in Arriving, b \in Sizes :
            OfferTaken(h, b) \/ OfferQueued(h, b) \/ OfferEvicting(h, b) \/ OfferDropped(h, b) \/ OfferOverflows(h, b)
    BY <2>2, <2>3 DEF DeliveryNext, Offer
  <2>5. ~OfferTaken(h, b) /\ ~OfferQueued(h, b) /\ ~OfferDropped(h, b)
    BY <1>3 DEF OfferTaken, OfferQueued, OfferDropped, Passes
  <2>6. ~OfferOverflows(h, b)
    BY DEF OfferOverflows, Stop
  <2>7. OfferEvicting(h, b)
    BY <2>4, <2>5, <2>6
  <2>8. Plan(h, b) # NoPlan
    BY <1>3, <2>7 DEF OfferEvicting, Passes
  <2> QED
    BY <2>7, <2>8
<1> DEFINE plan == Plan(h, b)
           victims == At(pending, plan)
           e == Arrival(h, b)
<1>5. UNCHANGED setup
  <2>1. receipts' # receipts
    BY <1>0
  <2> QED
    BY <2>1, DrainMoves DEF Aside, DeliveryNext, history
<1>6. /\ QueueInv' /\ ToSet(pending') = (ToSet(pending) \ victims) \cup {e}
      /\ Len(pending') > 0 /\ pending'[Len(pending')] = e
      /\ gone' = gone \cup Receipts(victims)
      /\ plan \in SUBSET DOMAIN pending /\ FairlyTaken(h, plan)
  BY <1>4, <1>5, EvictingIs
<1>7. e.receipt = receipts + 1 /\ e.group = h /\ h \in Groups
  BY DEF Arrival, Arriving
<1>8. arrival = h /\ g # h
  BY <1>6, <1>7
<1> HIDE DEF plan, e, arrival
<1> DEFINE left == DOMAIN pending \ plan
<1>9. /\ GroupsOf(plan, g) = {} \/ CountAt(g, left) >= CountAt(h, left) + 1
      /\ \A i \in GroupsOf(plan, g), j \in GroupsOf(left, g) : i < j
  BY <1>6, <1>8 DEF FairlyTaken
<1>10. goneOf(g) = GroupsOf(plan, g)
  <2>1. ASSUME NEW i \in DOMAIN pending
        PROVE  pending[i].receipt \in gone' <=> i \in plan
    <3>1. pending[i].receipt \in Receipts(victims) <=> pending[i] \in victims
      BY <1>1, <1>6, WaitingIs DEF Receipts, At
    <3>2. pending[i] \in victims <=> i \in plan
      <4>1. IsInjective(pending)
        BY OrderedIs DEF QueueInv, QueueSound, Sound
      <4> QED
        BY <1>6, <4>1 DEF At, IsInjective
    <3> QED
      BY <1>1, <1>6, <3>1, <3>2
  <2> QED
    BY <1>6, <2>1 DEF goneOf, GroupsOf
<1>11. ASSUME NEW k \in Groups
       PROVE  CountAt(k, left) \in Nat /\ CountOf(k, pending') = IF k = h THEN CountAt(k, left) + 1 ELSE CountAt(k, left)
  <2> DEFINE rest == ToSet(pending) \ victims
  <2>1. IsFiniteSet(rest) /\ e \notin rest
    <3>1. IsFiniteSet(ToSet(pending))
      BY OrderedIs DEF QueueInv, QueueSound, Sound
    <3>2. e \notin ToSet(pending)
      BY <1>0, <1>7, WaitingIs
    <3> QED
      BY <3>1, <3>2, FS_Difference
  <2>2. CountOf(k, pending') = Cardinality(OfGroup(k, ToSet(pending')))
    <3>1. pending' \in Seq(AnyEvent) /\ ByReceipt(pending')
      BY <1>6 DEF QueueInv, QueueSound, Sound, ByReceipt
    <3> QED
      BY <3>1, CountOfIs
  <2>3. Cardinality(OfGroup(k, rest)) = CountAt(k, left)
    <3>1. GroupsOf(left, k) \in SUBSET DOMAIN pending
      BY DEF GroupsOf
    <3>2. Cardinality(At(pending, GroupsOf(left, k))) = CountAt(k, left)
      BY <3>1, AtIs DEF CountAt, QueueInv, QueueSound, Sound
    <3>3. At(pending, GroupsOf(left, k)) = OfGroup(k, rest)
      <4>1. IsInjective(pending)
        BY OrderedIs DEF QueueInv, QueueSound, Sound
      <4>2. \A i \in DOMAIN pending : i \in plan <=> pending[i] \in victims
        BY <1>6, <4>1 DEF At, IsInjective
      <4> HIDE DEF victims
      <4> QED
        BY <4>2 DEF At, GroupsOf, OfGroup, ToSet
    <3> QED
      BY <3>2, <3>3
  <2>4. CountAt(k, left) \in Nat
    BY <1>6, LeftOf DEF QueueInv
  <2>5. Cardinality(OfGroup(k, rest \cup {e})) = IF e.group = k THEN Cardinality(OfGroup(k, rest)) + 1
                                                 ELSE Cardinality(OfGroup(k, rest))
    BY <2>1, CountMore
  <2> QED
    BY <1>6, <1>7, <2>2, <2>3, <2>4, <2>5
<1>12. CountOf(g, pending') >= CountOf(h, pending')
  <2>1. CountAt(g, left) >= CountAt(h, left) + 1
    BY <1>9, <1>10
  <2> QED
    BY <1>7, <1>8, <1>11, <2>1
<1>13. ASSUME NEW i \in goneOf(g), NEW j \in DOMAIN pending', pending'[j].group = g
       PROVE  pending[i].receipt < pending'[j].receipt
  <2>1. pending'[j] \in ToSet(pending')
    BY DEF ToSet
  <2>2. pending'[j] # e
    BY <1>7, <1>8, <1>13
  <2>3. PICK l \in DOMAIN pending : pending[l] = pending'[j] /\ l \notin plan
    BY <1>6, <2>1, <2>2 DEF ToSet, At
  <2>4. i \in GroupsOf(plan, g) /\ l \in GroupsOf(left, g) /\ i \in DOMAIN pending
    BY <1>6, <1>10, <1>13, <2>3 DEF GroupsOf
  <2>5. i < l
    BY <1>9, <2>4
  <2> QED
    BY <2>3, <2>4, <2>5 DEF QueueInv, QueueSound, Sound, ByReceipt
<1> QED
  BY <1>8, <1>12, <1>13

\* An arrival takes the oldest events of another key only, and only while that key's backlog stays as
\* long as the arrival's own, however many events it displaces.
THEOREM EvictionIsFair == DrainSpec => FairEviction
<1>1. QueueInv /\ StartInv /\ [DrainNext]_drainVars =>
          [\A g \in Groups : Partitioned /\ source' = "open" /\ receipts' > receipts =>
              LET goneOf(k) == {i \in DOMAIN pending : pending[i].group = k /\ pending[i].receipt \in gone'}
                  arrival == IF Len(pending') = 0 THEN Failed ELSE pending'[Len(pending')].group
              IN g # arrival /\ goneOf(g) # {} =>
                  /\ CountOf(g, pending') >= CountOf(arrival, pending')
                  /\ \A i \in goneOf(g) : \A j \in DOMAIN pending' :
                         pending'[j].group = g => pending[i].receipt < pending'[j].receipt]_deliveryVars
  BY FairStep
<1> QED
  BY <1>1, StartAlways, PTL DEF DrainSpec, FairEviction


-----------------------------------------------------------------------------
(* Types *)

LEMMA TasksTypeStep ==
    ASSUME TasksTypeOK,
           UNCHANGED taskVars \/ (\E t \in Tasks : StartTask(t) \/ TaskDue(t) \/ CloseTask(t) \/ RunEnds(t)) \/ StopTasks
    PROVE  TasksTypeOK'
<1>1. CASE UNCHANGED taskVars
  BY <1>1 DEF taskVars, TasksTypeOK
<1>2. ASSUME NEW t \in Tasks, StartTask(t)
      PROVE  TasksTypeOK'
  BY <1>2 DEF TasksTypeOK, StartTask
<1>3. ASSUME NEW t \in Tasks, TaskDue(t)
      PROVE  TasksTypeOK'
  <2>1. CASE closing
    BY <1>3, <2>1 DEF TasksTypeOK, TaskDue, EndsEarly
  <2>2. CASE ~closing
    BY <1>3, <2>2 DEF TasksTypeOK, TaskDue
  <2> QED
    BY <2>1, <2>2
<1>4. ASSUME NEW t \in Tasks, CloseTask(t)
      PROVE  TasksTypeOK'
  BY <1>4 DEF TasksTypeOK, CloseTask
<1>5. ASSUME NEW t \in Tasks, RunEnds(t)
      PROVE  TasksTypeOK'
  <2>1. CASE Repeats(t) /\ closing
    <3>1. /\ task' = [task EXCEPT ![t] = "over"] /\ endedTasks' = endedTasks + 1 /\ cut' = cut \cup {t}
          /\ tasksAwaited' = FALSE /\ UNCHANGED <<closedTasks, closing, stopped, recorded>>
      BY <1>5, <2>1 DEF RunEnds, EndsEarly
    <3>2. /\ tasksAwaited' \in BOOLEAN /\ closing' \in BOOLEAN /\ stopped' \in BOOLEAN
      BY <3>1 DEF TasksTypeOK
    <3>3. /\ task' \in [Tasks -> {"new", "waiting", "running", "stopping", "over"}]
          /\ closedTasks' \subseteq Tasks /\ cut' \subseteq Tasks /\ endedTasks' \in Nat /\ recorded' \in Nat
      BY <3>1 DEF TasksTypeOK
    <3> QED
      BY <3>2, <3>3 DEF TasksTypeOK
  <2>2. CASE ~(Repeats(t) /\ closing)
    BY <1>5, <2>2 DEF TasksTypeOK, RunEnds
  <2> QED
    BY <2>1, <2>2
<1>6. CASE StopTasks
  <2> DEFINE alive == {t \in Tasks : task[t] = "waiting"} \cup TasksRunning
             cancelled == {t \in alive : t \in TasksRunning \/ t \notin closedTasks}
  <2>1. alive \subseteq Tasks /\ cancelled \subseteq Tasks
    BY DEF TasksRunning
  <2>2. recorded' = endedTasks + Cardinality(cancelled) /\ cut' = cut \cup alive
    BY <1>6 DEF StopTasks
  <2> HIDE DEF alive, cancelled
  <2>3. Cardinality(cancelled) \in Nat
    BY <2>1, TasksAssumption, FS_Subset, FS_CardinalityType
  <2>4. recorded' \in Nat /\ cut' \subseteq Tasks
    BY <2>1, <2>2, <2>3 DEF TasksTypeOK
  <2>5. /\ task' = [t \in Tasks |-> CASE task[t] = "waiting" -> "over"
                                      [] task[t] = "running" -> "stopping"
                                      [] OTHER -> task[t]]
        /\ stopped' = TRUE /\ closing' = TRUE /\ UNCHANGED <<closedTasks, endedTasks, tasksAwaited>>
    BY <1>6 DEF StopTasks
  <2>6. task' \in [Tasks -> {"new", "waiting", "running", "stopping", "over"}]
    BY <2>5 DEF TasksTypeOK
  <2> QED
    BY <2>4, <2>5, <2>6 DEF TasksTypeOK
<1> QED
  BY <1>1, <1>2, <1>3, <1>4, <1>5, <1>6

LEMMA TasksMove ==
    ASSUME [DrainNext]_drainVars
    PROVE  \/ UNCHANGED taskVars \/ (\E t \in Tasks : StartTask(t) \/ TaskDue(t) \/ CloseTask(t) \/ RunEnds(t)) \/ StopTasks
           \/ UNCHANGED <<task, closedTasks, stopped, endedTasks, recorded, cut>>
              /\ closing' \in {closing, TRUE} /\ tasksAwaited' \in {tasksAwaited, tasksAwaited \/ drain' = "tasks"}
<1>1. CASE Delivers
  BY <1>1 DEF Delivers
<1>2. CASE \E t \in Tasks : TaskMoves(t)
  BY <1>2 DEF TaskMoves
<1>3. CASE RunReturns \/ RequestEnds \/ \E r \in Requests : RequestStarts(r)
  BY <1>3 DEF RunReturns, RequestEnds, RequestStarts
<1>4. CASE DrainBegins
  BY <1>4 DEF DrainBegins, SealTasks
<1>5. CASE DrainLooks
  BY <1>5 DEF DrainLooks
<1>6. CASE DrainExpires \/ UNCHANGED drainVars
  BY <1>6 DEF DrainExpires, workVars, drainVars
<1>7. CASE Close
  BY <1>7 DEF Close
<1> QED
  BY <1>1, <1>2, <1>3, <1>4, <1>5, <1>6, <1>7 DEF DrainNext

LEMMA TasksTypeAlways == DrainSpec => []TasksTypeOK
<1>1. DrainInit => TasksTypeOK
  <2> SUFFICES ASSUME TasksInit
               PROVE  TasksTypeOK
    BY DEF DrainInit
  <2>1. task \in [Tasks -> {"new", "waiting", "running", "stopping", "over"}]
    BY DEF TasksInit
  <2>2. closing \in BOOLEAN /\ stopped \in BOOLEAN /\ tasksAwaited \in BOOLEAN /\ closedTasks \subseteq Tasks /\ cut \subseteq Tasks
        /\ endedTasks = 0 /\ recorded = 0
    BY DEF TasksInit
  <2> QED
    BY <2>1, <2>2 DEF TasksTypeOK
<1>2. TasksTypeOK /\ [DrainNext]_drainVars => TasksTypeOK'
  <2> SUFFICES ASSUME TasksTypeOK, [DrainNext]_drainVars
               PROVE  TasksTypeOK'
    OBVIOUS
  <2>1. CASE UNCHANGED taskVars \/ (\E t \in Tasks : StartTask(t) \/ TaskDue(t) \/ CloseTask(t) \/ RunEnds(t)) \/ StopTasks
    BY <2>1, TasksTypeStep
  <2>2. CASE UNCHANGED <<task, closedTasks, stopped, endedTasks, recorded, cut>>
             /\ closing' \in {closing, TRUE} /\ tasksAwaited' \in {tasksAwaited, tasksAwaited \/ drain' = "tasks"}
    <3>1. closing' \in BOOLEAN
      BY <2>2 DEF TasksTypeOK
    <3>2. tasksAwaited' \in BOOLEAN
      BY <2>2, Zenon DEF TasksTypeOK
    <3> QED
      BY <2>2, <3>1, <3>2 DEF TasksTypeOK
  <2> QED
    BY <2>1, <2>2, TasksMove
<1> QED
  BY <1>1, <1>2, PTL DEF DrainSpec

DrainTypes ==
    /\ made \subseteq Requests /\ inFlight \subseteq made /\ heldFor \subseteq made
    /\ drain \in {"off", "looking", "events", "tasks", "requests", "done", "expired"}
    /\ closed \in BOOLEAN

LEMMA DrainTypesAlways == DrainSpec => []DrainTypes
<1>1. DrainInit => DrainTypes
  BY DEF DrainInit, DrainTypes
<1>2. DrainTypes /\ [DrainNext]_drainVars => DrainTypes'
  <2> SUFFICES ASSUME DrainTypes, [DrainNext]_drainVars
               PROVE  DrainTypes'
    OBVIOUS
  <2> USE DEF DrainTypes
  <2>1. CASE Delivers
    BY <2>1 DEF Delivers
  <2>2. CASE \E t \in Tasks : TaskMoves(t)
    BY <2>2 DEF TaskMoves
  <2>3. CASE RunReturns
    BY <2>3 DEF RunReturns
  <2>4. ASSUME NEW r \in Requests, RequestStarts(r)
        PROVE  DrainTypes'
    BY <2>4 DEF RequestStarts
  <2>5. CASE RequestEnds
    BY <2>5 DEF RequestEnds
  <2>6. CASE DrainBegins
    BY <2>6 DEF DrainBegins
  <2>7. CASE DrainLooks
    <3>1. drain' \in {"events", "tasks", "requests", "done"}
      BY <2>7 DEF DrainLooks
    <3> QED
      BY <2>7, <3>1 DEF DrainLooks
  <2>8. CASE DrainExpires
    BY <2>8 DEF DrainExpires, workVars
  <2>9. CASE Close
    BY <2>9 DEF Close
  <2>10. CASE UNCHANGED drainVars
    BY <2>10 DEF drainVars, workVars
  <2> QED
    BY <2>1, <2>2, <2>3, <2>4, <2>5, <2>6, <2>7, <2>8, <2>9, <2>10 DEF DrainNext
<1> QED
  BY <1>1, <1>2, PTL DEF DrainSpec

\* The types of the subscription besides its queue's
Entries == [token : Tokens, phase : Phases]
SourceTypes ==
    /\ source \in {"open", "stopped", "finished"} /\ sealed \in BOOLEAN
    /\ loop \in {"forked", "start", "scan", "latched", "taking", "ended"}
    /\ busyKeys \subseteq Keys /\ unstarted \subseteq Keys /\ awaited \in BOOLEAN
KeyTypes == readiness \in [Keys -> Entries] /\ attempts \subseteq [key : Keys, token : Tokens]

LEMMA SourceTypesStep ==
    ASSUME SourceTypes, [DrainNext]_drainVars
    PROVE  SourceTypes'
<1> USE DEF SourceTypes
<1>1. ASSUME NEW g, NEW e, NEW keep, NEW bytes, NEW counts, Push(keep, bytes, counts, e), g = e.group
      PROVE  unstarted' \subseteq Keys /\ loop' \in {"forked", "start", "scan", "latched", "taking", "ended"}
  BY <1>1 DEF Push, Track, Woken, ready
<1>2. ASSUME NEW e, Start(e)
      PROVE  busyKeys' \subseteq Keys /\ loop' = "start"
  BY <1>2 DEF Start
<1>3. ASSUME Stop
      PROVE  SourceTypes'
  BY <1>3 DEF Stop, ready
<1>4. ASSUME NEW g \in Arriving, NEW b \in Sizes,
             OfferTaken(g, b) \/ OfferQueued(g, b) \/ OfferEvicting(g, b) \/ OfferDropped(g, b)
      PROVE  SourceTypes'
  <2>1. CASE OfferTaken(g, b)
    BY <1>2, <2>1 DEF OfferTaken, ready
  <2>2. CASE OfferQueued(g, b)
    BY <1>1, <2>2 DEF OfferQueued
  <2>3. CASE OfferEvicting(g, b)
    <3>1. UNCHANGED <<source, sealed, busyKeys, awaited>>
      BY <2>3 DEF OfferEvicting
    <3>2. (\E keep, bytes, counts, e : Push(keep, bytes, counts, e)) \/ UNCHANGED <<unstarted, loop>>
      BY <2>3 DEF OfferEvicting, ready
    <3> QED
      BY <1>1, <3>1, <3>2
  <2>4. CASE OfferDropped(g, b)
    BY <2>4 DEF OfferDropped, ready
  <2> QED
    BY <1>4, <2>1, <2>2, <2>3, <2>4
<1>5. CASE Offer
  BY <1>3, <1>4, <1>5 DEF Offer, OfferOverflows
<1>6. CASE Work
  <2>1. CASE Begin
    BY <2>1 DEF Begin
  <2>2. CASE StartReadiness \/ Rescan
    BY <2>2 DEF StartReadiness, Rescan, ready
  <2>3. CASE Wait
    BY <2>3 DEF Wait, ready
  <2>4. CASE Deliver
    <3>1. /\ UNCHANGED <<source, sealed, unstarted>>
          /\ \/ loop' = "start" /\ awaited' = FALSE /\ busyKeys' = busyKeys
             \/ (\E e : Start(e)) /\ UNCHANGED awaited
      BY <2>4 DEF Deliver, SignalProgress, ready
    <3> QED
      BY <1>2, <3>1
  <2> QED
    BY <1>6, <2>1, <2>2, <2>3, <2>4 DEF Work
<1>7. CASE HandlersEnd
  BY <1>7 DEF HandlersEnd, HandlerEnds, SignalProgress, Woken
<1>8. CASE HooksSettle
  BY <1>8 DEF HooksSettle, HookSucceeds, HookFails, HookIgnored, SignalProgress, Woken
<1>9. CASE StopSource \/ Finish
  BY <1>3, <1>9 DEF StopSource, Finish, SignalProgress, ready
<1>10. CASE DeliveryNext
  BY <1>5, <1>6, <1>7, <1>8, <1>9, <1>10 DEF DeliveryNext
<1>11. CASE Aside
  <2>1. sealed' \in BOOLEAN /\ awaited' \in BOOLEAN
    <3>1. CASE DrainBegins \/ DrainExpires \/ UNCHANGED drainVars
      BY <3>1 DEF DrainBegins, DrainExpires, Seal, drainVars, workVars, deliveryVars
    <3>2. CASE DrainLooks
      BY <3>2, Zenon DEF DrainLooks
    <3>3. CASE ~(DrainBegins \/ DrainExpires \/ DrainLooks \/ UNCHANGED drainVars)
      <4>1. DeliveryNext \/ UNCHANGED <<sealed, awaited>>
        BY <3>3 DEF DrainNext, Delivers, TaskMoves, RunReturns, RequestEnds, RequestStarts, Close, DeliveryNext, deliveryVars
      <4> QED
        BY <1>10, <4>1
    <3> QED
      BY <3>1, <3>2, <3>3
  <2> QED
    BY <1>11, <2>1 DEF Aside, ready
<1> QED
  BY <1>10, <1>11, DrainMoves

LEMMA EntryNext ==
    ASSUME NEW e \in Entries
    PROVE  /\ [e EXCEPT !.phase = "asked"] \in Entries /\ [e EXCEPT !.phase = "ready"] \in Entries
           /\ Absent \in Entries /\ e.token \in Tokens
  BY DeliveryAssumption DEF Entries, Phases, Absent, Tokens

LEMMA KeyTypesStep ==
    ASSUME QueueInv, SourceTypes, KeyTypes, DeliveryNext
    PROVE  KeyTypes'
<1> USE DEF KeyTypes
<1>0. \A k \in Keys : readiness[k] \in Entries
  OBVIOUS
<1>1. ASSUME UNCHANGED ready
      PROVE  KeyTypes'
  BY <1>1 DEF ready
<1>2. ASSUME NEW g, NEW r \in Tokens, Track(g, r)
      PROVE  KeyTypes'
  <2>1. CASE UNCHANGED ready
    BY <1>1, <2>1
  <2>2. CASE ~UNCHANGED ready
    <3>1. readiness' = [readiness EXCEPT ![g] = [token |-> r, phase |-> "tracked"]] /\ attempts' = attempts
      BY <1>2, <2>2 DEF Track
    <3>2. [token |-> r, phase |-> "tracked"] \in Entries
      BY DEF Entries, Phases
    <3> QED
      BY <3>1, <3>2
  <2> QED
    BY <2>1, <2>2
<1>3. ASSUME NEW g \in Arriving, NEW b \in Sizes, OfferQueued(g, b) \/ OfferEvicting(g, b)
      PROVE  KeyTypes'
  <2>1. receipts + 1 \in Tokens
    BY <1>3, DeliveryAssumption DEF OfferQueued, OfferEvicting, Arrives, Tokens, QueueInv
  <2>2. UNCHANGED ready \/ Track(Arrival(g, b).group, Arrival(g, b).receipt)
    BY <1>3 DEF OfferQueued, OfferEvicting, Push
  <2>3. Arrival(g, b).receipt = receipts + 1
    BY DEF Arrival
  <2> QED
    BY <1>1, <1>2, <2>1, <2>2, <2>3
<1>4. CASE Offer
  <2>1. \A g, b : OfferTaken(g, b) \/ OfferDropped(g, b) \/ OfferOverflows(g, b) => UNCHANGED ready
    BY DEF OfferTaken, OfferDropped, OfferOverflows, Stop
  <2> QED
    BY <1>1, <1>3, <1>4, <2>1 DEF Offer
<1>5. CASE Begin
  <2> DEFINE of(k) == {i \in DOMAIN pending : pending[i].group = k}
             first(k) == pending[Oldest(of(k))].receipt
             waitingKeys == {k \in Keys : Hooked /\ waiting[k] > 0}
  <2>1. /\ readiness' = [k \in Keys |-> IF k \in waitingKeys THEN [token |-> first(k), phase |-> "tracked"] ELSE readiness[k]]
        /\ attempts' = attempts
    BY <1>5 DEF Begin
  <2>2. ASSUME NEW k \in waitingKeys
        PROVE  [token |-> first(k), phase |-> "tracked"] \in Entries
    <3>1. Hooked /\ k \in Keys /\ waiting[k] > 0 /\ Partitioned /\ k \in Groups
      BY DeliveryAssumption DEF Hooked, Partitioned, QueueInv, Groups
    <3>2. of(k) # {}
      <4>1. waiting[k] = Cardinality(of(k))
        BY <3>1, CountOfIs DEF CountOf, QueueInv, QueueSound, Sound
      <4>2. Cardinality({}) = 0
        BY FS_EmptySet
      <4> HIDE DEF of
      <4> QED
        BY <3>1, <4>1, <4>2
    <3>3. Oldest(of(k)) \in DOMAIN pending
      BY <3>2, OldestIs DEF QueueInv
    <3>4. first(k) \in Nat /\ first(k) <= receipts /\ receipts <= MaxEvents
      BY <3>3, WaitingIs DEF QueueInv
    <3>5. first(k) \in Tokens
      BY <3>4, DeliveryAssumption DEF Tokens, QueueInv
    <3> QED
      BY <3>5 DEF Entries, Phases
  <2> HIDE DEF waitingKeys, first
  <2> QED
    BY <1>0, <2>1, <2>2
<1>6. CASE StartReadiness
  <2> DEFINE hooked == {k \in unstarted : readiness[k].phase = "tracked"}
  <2>1. /\ readiness' = [k \in Keys |-> IF k \in hooked THEN [readiness[k] EXCEPT !.phase = "asked"] ELSE readiness[k]]
        /\ attempts' = attempts \cup {[key |-> k, token |-> readiness[k].token] : k \in hooked}
    BY <1>6 DEF StartReadiness
  <2>2. hooked \subseteq Keys
    BY DEF SourceTypes
  <2> HIDE DEF hooked
  <2>3. readiness' \in [Keys -> Entries]
    BY <1>0, <2>1, EntryNext
  <2>4. attempts' \subseteq [key : Keys, token : Tokens]
    <3>1. \A k \in hooked : k \in Keys /\ readiness[k].token \in Tokens
      BY <1>0, <2>2, EntryNext
    <3> QED
      BY <2>1, <3>1
  <2> QED
    BY <2>3, <2>4
<1>7. CASE Rescan \/ Wait \/ Deliver
  BY <1>1, <1>7 DEF Rescan, Wait, Deliver
<1>8. ASSUME NEW table \in [Keys -> Entries], NEW k, NEW busy, NEW count
      PROVE  ForgetIdle(table, k, busy, count) \in [Keys -> Entries]
  <2>1. Absent \in Entries
    BY DeliveryAssumption DEF Entries, Phases, Absent, Tokens
  <2> QED
    BY <2>1 DEF ForgetIdle
<1>9. CASE HandlersEnd
  BY <1>8, <1>9 DEF HandlersEnd, HandlerEnds
<1>10. ASSUME NEW a \in attempts, HookSucceeds(a) \/ HookFails(a) \/ HookIgnored(a)
       PROVE  KeyTypes'
  <2>0. a.key \in Keys /\ readiness[a.key] \in Entries
    BY <1>0
  <2>1. CASE HookSucceeds(a)
    <3>1. [readiness EXCEPT ![a.key].phase = "ready"] \in [Keys -> Entries]
      BY <2>0, EntryNext
    <3> QED
      BY <1>8, <2>1, <3>1 DEF HookSucceeds, Settles
  <2>2. CASE HookFails(a)
    <3>1. readiness' = [readiness EXCEPT ![a.key] = Absent] /\ attempts' = attempts \ {a}
      BY <2>2 DEF HookFails, Settles
    <3>2. Absent \in Entries
      BY <2>0, EntryNext
    <3> QED
      BY <2>0, <3>1, <3>2
  <2>3. CASE HookIgnored(a)
    BY <2>3 DEF HookIgnored, Settles
  <2> QED
    BY <1>10, <2>1, <2>2, <2>3
<1>11. CASE StopSource \/ Finish
  BY <1>1, <1>11 DEF StopSource, Stop, Finish
<1> QED
  BY <1>4, <1>5, <1>6, <1>7, <1>9, <1>10, <1>11 DEF DeliveryNext, Work, HooksSettle

\* What a drain reads is of its type and exact, while it drains and after: the queue's bytes and counts
\* per group, which events still wait, the readiness of keys and the tasks.
THEOREM WorkIsExact == DrainSpec => []WorkExact
<1>1. DrainInit => SourceTypes /\ KeyTypes
  <2> SUFFICES ASSUME DeliveryInit
               PROVE  SourceTypes /\ KeyTypes
    BY DEF DrainInit
  <2>1. Absent \in Entries
    BY DeliveryAssumption DEF Entries, Phases, Absent, Tokens
  <2>2. KeyTypes
    BY <2>1 DEF DeliveryInit, KeyTypes
  <2>3. SourceTypes
    BY DEF DeliveryInit, SourceTypes
  <2> QED
    BY <2>2, <2>3
<1>2. QueueInv /\ SourceTypes /\ KeyTypes /\ [DrainNext]_drainVars => (SourceTypes /\ KeyTypes)'
  <2> SUFFICES ASSUME QueueInv, SourceTypes, KeyTypes, [DrainNext]_drainVars
               PROVE  SourceTypes' /\ KeyTypes'
    OBVIOUS
  <2>1. SourceTypes'
    BY SourceTypesStep
  <2>2. CASE DeliveryNext
    BY <2>1, <2>2, KeyTypesStep
  <2>3. CASE Aside
    BY <2>1, <2>3 DEF Aside, ready, KeyTypes
  <2> QED
    BY <2>2, <2>3, DrainMoves
<1>3. QueueInv /\ StartInv /\ SourceTypes /\ KeyTypes /\ TasksTypeOK /\ DrainTypes => WorkExact
  <2> SUFFICES ASSUME QueueInv, StartInv, SourceTypes, KeyTypes, TasksTypeOK, DrainTypes
               PROVE  WorkExact
    OBVIOUS
  <2>1. ASSUME NEW e \in AnyEvent, e.group \in Arriving
        PROVE  e \in Events
    BY <2>1 DEF AnyEvent, Events
  <2>2. pending \in Seq(Events)
    <3>1. \A i \in 1..Len(pending) : pending[i] \in Events
      BY <2>1, WaitingIs
    <3>2. pending = [i \in 1..Len(pending) |-> pending[i]] /\ Len(pending) \in Nat
      BY WaitingIs
    <3> QED
      BY <3>1, <3>2, IsASeq
  <2>3. running \subseteq Events
    BY <2>1 DEF StartInv
  <2>4. used \in Nat
    <3>1. IsFiniteSet(ToSet(pending)) /\ ToSet(pending) \subseteq AnyEvent
      BY OrderedIs DEF QueueInv, QueueSound, Sound
    <3> QED
      BY <3>1, BytesIs DEF QueueInv, QueueSound, Sound
  <2>5. DeliveryTypeOK
    BY <2>2, <2>3, <2>4 DEF DeliveryTypeOK, QueueInv, QueueSound, Sound, SourceTypes, KeyTypes, Entries
  <2>6. QueueExact
    <3>1. \A g : CountOf(g, pending) = Cardinality(OfGroup(g, ToSet(pending)))
      BY CountOfIs DEF QueueInv, QueueSound, Sound
    <3> QED
      BY <3>1 DEF QueueExact, QueueInv, QueueSound, Sound
  <2> QED
    BY <2>5, <2>6 DEF WorkExact, DrainTypeOK, DrainTypes
<1> QED
  BY <1>1, <1>2, <1>3, StartAlways, TasksTypeAlways, DrainTypesAlways, PTL DEF DrainSpec

-----------------------------------------------------------------------------
(* What a drain leaves *)

IdleInv ==
    /\ drain # "off" => sealed /\ closing
    /\ drain = "done" => running = {} /\ pending = <<>> /\ TasksRunning = {}

\* While intake is sealed, a subscription without work gets none.
LEMMA NoNewEvents ==
    ASSUME DeliveryNext, sealed, running = {}, pending = <<>>
    PROVE  running' = {} /\ pending' = <<>> /\ sealed'
<1>1. ~Offer
  BY DEF Offer, OfferTaken, OfferQueued, OfferEvicting, OfferDropped, OfferOverflows, Arrives
<1>2. Selected = {}
  BY DEF Selected
<1>3. CASE Work
  BY <1>2, <1>3 DEF Work, Begin, StartReadiness, Rescan, Wait, Deliver, queue
<1>4. CASE HandlersEnd
  BY <1>4 DEF HandlersEnd, HandlerEnds, queue
<1>5. CASE HooksSettle
  <2>1. PICK a \in attempts : HookSucceeds(a) \/ HookFails(a) \/ HookIgnored(a)
    BY <1>5 DEF HooksSettle
  <2>2. CASE HookFails(a)
    <3>1. DOMAIN pending = {} /\ pending \in Seq({})
      OBVIOUS
    <3>2. {i \in DOMAIN pending : pending[i].group = a.key} = {}
      BY <3>1
    <3>3. Without({}) \in Seq({})
      BY <3>1, WithoutIs
    <3>4. \A v \in Seq({}) : v = <<>>
      <4> SUFFICES ASSUME NEW v \in Seq({}) PROVE v = <<>>
        OBVIOUS
      <4>1. Len(v) = 0
        <5>1. Len(v) \in Nat /\ \A i \in 1..Len(v) : v[i] \in {}
          OBVIOUS
        <5>2. 1 \notin 1..Len(v)
          BY <5>1
        <5> QED
          BY <5>1, <5>2
      <4> QED
        BY <4>1
    <3>5. pending' = Without({})
      BY <2>2, <3>2 DEF HookFails
    <3> QED
      BY <2>2, <3>3, <3>4, <3>5 DEF HookFails
  <2>3. CASE HookSucceeds(a) \/ HookIgnored(a)
    BY <2>3 DEF HookSucceeds, HookIgnored, queue
  <2> QED
    BY <2>1, <2>2, <2>3
<1>6. CASE StopSource
  BY <1>6 DEF StopSource, Stop, Empty
<1>7. CASE Finish
  BY <1>7 DEF Finish, queue
<1> QED
  BY <1>1, <1>3, <1>4, <1>5, <1>6, <1>7 DEF DeliveryNext

\* No task begins a run once they are closing.
LEMMA NoNewRuns ==
    ASSUME TasksTypeOK, TasksRunning = {}, closing,
           UNCHANGED taskVars \/ (\E t \in Tasks : StartTask(t) \/ TaskDue(t) \/ CloseTask(t) \/ RunEnds(t)) \/ StopTasks
    PROVE  TasksRunning' = {} /\ closing'
<1>0. DOMAIN task = Tasks /\ \A t \in Tasks : task[t] \notin {"running", "stopping"}
  BY DEF TasksRunning, TasksTypeOK
<1>1. CASE UNCHANGED taskVars
  BY <1>1 DEF taskVars, TasksRunning
<1>2. ASSUME NEW t \in Tasks, StartTask(t) \/ TaskDue(t) \/ CloseTask(t) \/ RunEnds(t)
      PROVE  TasksRunning' = {} /\ closing'
  <2>1. ~StartTask(t) /\ ~RunEnds(t)
    BY DEF StartTask, RunEnds
  <2>2. closing' /\ \A s \in Tasks : task'[s] = task[s] \/ task'[s] = "over"
    BY <1>0, <1>2, <2>1 DEF TaskDue, CloseTask, EndsEarly, TasksTypeOK
  <2> QED
    BY <1>0, <2>2 DEF TasksRunning
<1>3. CASE StopTasks
  <2>1. closing' /\ \A s \in Tasks : task'[s] = task[s] \/ task'[s] = "over"
    BY <1>0, <1>3 DEF StopTasks
  <2> QED
    BY <1>0, <2>1 DEF TasksRunning
<1> QED
  BY <1>1, <1>2, <1>3

LEMMA SealStays ==
    ASSUME [DrainNext]_drainVars
    PROVE  (sealed => sealed') /\ (closing => closing')
<1>1. DeliveryNext => (sealed => sealed')
  BY DEF DeliveryNext, Offer, OfferTaken, OfferQueued, OfferEvicting, OfferDropped, OfferOverflows, Stop, Work, Begin,
         StartReadiness, Rescan, Wait, Deliver, HandlersEnd, HandlerEnds, HooksSettle, HookSucceeds, HookFails,
         HookIgnored, StopSource, Finish
<1> USE DEF deliveryVars, taskVars, workVars, drainVars
<1>2. CASE Delivers
  BY <1>1, <1>2 DEF Delivers
<1>3. CASE \E t \in Tasks : TaskMoves(t)
  BY <1>3 DEF TaskMoves, StartTask, TaskDue, CloseTask, EndsEarly
<1>4. CASE RunReturns \/ RequestEnds \/ \E r \in Requests : RequestStarts(r)
  BY <1>4 DEF RunReturns, RunEnds, RequestEnds, RequestStarts
<1>5. CASE DrainBegins \/ DrainLooks \/ DrainExpires
  BY <1>5 DEF DrainBegins, DrainLooks, DrainExpires, Seal, SealTasks
<1>6. CASE Close
  BY <1>6 DEF Close, StopSource, Stop, StopTasks
<1> QED
  BY <1>2, <1>3, <1>4, <1>5, <1>6 DEF DrainNext

\* A drain that finished found nothing running, and nothing starts after it.
THEOREM DrainLeavesNothing == DrainSpec => []DrainedStaysIdle
<1>1. DrainInit => IdleInv
  BY DEF DrainInit, IdleInv
<1>2. TasksTypeOK /\ IdleInv /\ [DrainNext]_drainVars => IdleInv'
  <2> SUFFICES ASSUME TasksTypeOK, IdleInv, [DrainNext]_drainVars
               PROVE  IdleInv'
    OBVIOUS
  <2>1. drain' # "off" => sealed' /\ closing'
    <3> SUFFICES ASSUME drain' # "off" PROVE sealed' /\ closing'
      OBVIOUS
    <3>1. CASE drain # "off"
      BY <3>1, SealStays DEF IdleInv
    <3>2. CASE drain = "off"
      <4>1. DrainBegins
        BY <3>2 DEF DrainNext, Delivers, TaskMoves, RunReturns, RequestEnds, RequestStarts, DrainLooks, DrainExpires,
                    Close, Signalled, Draining, drainVars
      <4> QED
        BY <4>1 DEF DrainBegins, Seal, SealTasks
    <3> QED
      BY <3>1, <3>2
  <2>2. drain' = "done" => running' = {} /\ pending' = <<>> /\ TasksRunning' = {}
    <3> SUFFICES ASSUME drain' = "done" PROVE running' = {} /\ pending' = <<>> /\ TasksRunning' = {}
      OBVIOUS
    <3>1. CASE drain # "done"
      <4>1. DrainBegins \/ DrainLooks
        BY <3>1 DEF DrainNext, Delivers, TaskMoves, RunReturns, RequestEnds, RequestStarts, DrainExpires, Close, drainVars
      <4>2. ~HandlerWork /\ TasksRunning = {}
        BY <4>1 DEF DrainBegins, DrainLooks, Idle
      <4>3. UNCHANGED <<running, pending, task>>
        BY <4>1 DEF DrainBegins, DrainLooks, queue
      <4> QED
        BY <4>2, <4>3 DEF HandlerWork, TasksRunning
    <3>2. CASE drain = "done"
      <4>1. sealed /\ closing /\ running = {} /\ pending = <<>> /\ TasksRunning = {}
        BY <3>2 DEF IdleInv
      <4>2. running' = {} /\ pending' = <<>>
        <5>1. CASE DeliveryNext
          BY <4>1, <5>1, NoNewEvents
        <5>2. CASE Aside
          BY <4>1, <5>2 DEF Aside, queue
        <5> QED
          BY <5>1, <5>2, DrainMoves
      <4>3. UNCHANGED taskVars \/ (\E t \in Tasks : StartTask(t) \/ TaskDue(t) \/ CloseTask(t) \/ RunEnds(t)) \/ StopTasks
        <5>1. ~DrainBegins /\ ~DrainLooks /\ ~DrainExpires
          BY <3>2 DEF DrainBegins, DrainLooks, DrainExpires, Signalled, Draining
        <5> QED
          BY <5>1 DEF DrainNext, Delivers, TaskMoves, RunReturns, RequestEnds, RequestStarts, Close, drainVars, workVars
      <4>4. TasksRunning' = {}
        BY <4>1, <4>3, NoNewRuns
      <4> QED
        BY <4>2, <4>4
    <3> QED
      BY <3>1, <3>2
  <2> QED
    BY <2>1, <2>2 DEF IdleInv
<1>3. IdleInv => DrainedStaysIdle
  BY DEF IdleInv, DrainedStaysIdle, HandlerWork
<1> QED
  BY <1>1, <1>2, <1>3, TasksTypeAlways, PTL DEF DrainSpec

-----------------------------------------------------------------------------
(* Keys and wakeups *)

Waits(k) == OfGroup(k, ToSet(pending)) # {}

\* What the worker, the keys and the hooks know of each other, in every phase of the worker
LoopInv ==
    /\ source # "open" => loop = "ended"
    /\ ~Hooked => attempts = {} /\ unstarted = {} /\ \A k \in Keys : readiness[k] = Absent
    /\ loop = "forked" => busyKeys = {} /\ attempts = {} /\ \A k \in Keys : readiness[k] = Absent
    /\ \A k \in Keys : readiness[k].phase = "tracked" => k \in unstarted
    /\ loop \in {"latched", "taking"} => unstarted = {}
    /\ loop = "latched" => AtCapacity \/ (Partitioned /\ Selected = {})

\* The phase of every key, while the subscription is open and its worker runs
KeySound(k) ==
    /\ k \in busyKeys => readiness[k].phase = "ready"
    /\ Waits(k) => readiness[k].phase # "none"
    /\ readiness[k].phase \in {"tracked", "asked"} => Waits(k)
    /\ readiness[k].phase = "ready" => Waits(k) \/ k \in busyKeys
    /\ readiness[k].phase = "asked" => \E a \in attempts : a.key = k
Asked(a) == readiness[a.key].phase = "asked" /\ readiness[a.key].token = a.token
KeysInv ==
    Hooked /\ source = "open" /\ loop # "forked" =>
        /\ \A k \in Keys : KeySound(k)
        /\ \A a \in attempts : Asked(a)

ReadyInv == SourceTypes /\ KeyTypes /\ LoopInv /\ KeysInv

LEMMA HookedIs == ASSUME QueueInv PROVE Hooked => Partitioned
BY DeliveryAssumption DEF QueueInv, Hooked, Partitioned

\* The count of a group says whether an event of it waits.
LEMMA CountsWaiting ==
    ASSUME NEW v, NEW bytes, NEW counts, Sound(v, bytes, counts), Partitioned, NEW k \in Groups
    PROVE  /\ counts[k] \in Nat /\ (counts[k] > 0 <=> OfGroup(k, ToSet(v)) # {})
           /\ (counts[k] = 0 <=> OfGroup(k, ToSet(v)) = {})
<1>1. counts[k] = Cardinality(OfGroup(k, ToSet(v)))
  BY DEF Sound
<1>2. IsFiniteSet(OfGroup(k, ToSet(v)))
  <2>1. IsFiniteSet(ToSet(v))
    BY OrderedIs DEF Sound
  <2> QED
    BY <2>1, FS_Subset DEF OfGroup
<1> QED
  BY <1>1, <1>2, FS_EmptySet, FS_CardinalityType

LEMMA WaitingCounts ==
    ASSUME QueueInv, Partitioned, NEW k \in Keys
    PROVE  waiting[k] \in Nat /\ (waiting[k] > 0 <=> Waits(k)) /\ (waiting[k] = 0 <=> ~Waits(k))
<1>1. Sound(pending, used, waiting) /\ k \in Groups
  BY DEF QueueInv, QueueSound, Groups
<1> QED
  BY <1>1, CountsWaiting DEF Waits

\* An arrival that displaces others leaves every key it displaces with events that wait.
LEMMA EvictingLeaves ==
    ASSUME QueueInv, UNCHANGED setup, NEW g, NEW b, OfferEvicting(g, b), Plan(g, b) # NoPlan, Partitioned,
           NEW k \in Groups
    PROVE  IF k = g THEN Waits(k)' ELSE (Waits(k)' <=> Waits(k))
<1> DEFINE plan == Plan(g, b)
           victims == At(pending, plan)
           left == DOMAIN pending \ plan
<1>1. /\ ToSet(pending') = (ToSet(pending) \ victims) \cup {Arrival(g, b)}
      /\ plan \in SUBSET DOMAIN pending /\ FairlyTaken(g, plan)
  BY EvictingIs
<1>2. Arrival(g, b).group = g /\ g \in Groups
  BY DEF Arrival, OfferEvicting, Arrives, Arriving
<1>3. CASE k = g
  BY <1>1, <1>2, <1>3 DEF Waits, OfGroup
<1>4. CASE k # g
  <2>1. Waits(k)' <=> \E e \in ToSet(pending) \ victims : e.group = k
    BY <1>1, <1>2, <1>4 DEF Waits, OfGroup
  <2>2. CASE GroupsOf(plan, k) = {}
    <3>1. \A e \in victims : e.group # k
      BY <2>2 DEF GroupsOf, At
    <3> QED
      BY <1>4, <2>1, <3>1 DEF Waits, OfGroup
  <2>3. CASE GroupsOf(plan, k) # {}
    <3>1. CountAt(k, left) >= CountAt(g, left) + 1 /\ CountAt(k, left) \in Nat /\ CountAt(g, left) \in Nat
      BY <1>1, <1>2, <1>4, <2>3, LeftOf DEF FairlyTaken, QueueInv
    <3>2. GroupsOf(left, k) # {}
      <4>1. Cardinality({}) = 0
        BY FS_EmptySet
      <4>2. CountAt(k, left) # 0
        BY <3>1
      <4> HIDE DEF left
      <4> QED
        BY <4>1, <4>2 DEF CountAt
    <3>3. PICK i \in left : pending[i].group = k
      BY <3>2 DEF GroupsOf
    <3>4. pending[i] \in ToSet(pending) \ victims
      <4>1. IsInjective(pending)
        BY OrderedIs DEF QueueInv, QueueSound, Sound
      <4> QED
        BY <1>1, <3>3, <4>1 DEF IsInjective, At, ToSet
    <3> QED
      BY <1>4, <2>1, <3>3, <3>4 DEF Waits, OfGroup
  <2> QED
    BY <2>2, <2>3
<1> QED
  BY <1>3, <1>4

\* What leaves the worker and the keys alone leaves what they know of each other alone.
LEMMA LoopSame ==
    ASSUME LoopInv, UNCHANGED <<setup, pending, busyKeys, running, readiness, unstarted, loop>>,
           attempts' \subseteq attempts, source' = source \/ source # "open"
    PROVE  LoopInv'
<1>1. Selected' = Selected /\ AtCapacity' = AtCapacity
  BY DEF Selected, AtCapacity, Eligible, IsReady, Hooked, Partitioned
<1>2. /\ source' # "open" => loop' = "ended"
      /\ ~Hooked' => attempts' = {} /\ unstarted' = {} /\ \A k \in Keys : readiness'[k] = Absent
      /\ loop' = "forked" => busyKeys' = {} /\ attempts' = {} /\ \A k \in Keys : readiness'[k] = Absent
      /\ \A k \in Keys : readiness'[k].phase = "tracked" => k \in unstarted'
      /\ loop' \in {"latched", "taking"} => unstarted' = {}
  BY DEF LoopInv, Hooked
<1>3. loop' = "latched" => AtCapacity' \/ (Partitioned' /\ Selected' = {})
  BY <1>1 DEF LoopInv, Partitioned
<1> QED
  BY <1>2, <1>3 DEF LoopInv

LEMMA KeysSame ==
    ASSUME KeysInv, UNCHANGED <<setup, busyKeys, readiness, attempts>>,
           source' = "open" => source = "open", loop' # "forked" => loop # "forked",
           Hooked /\ source = "open" => \A k \in Keys : Waits(k)' <=> Waits(k)
    PROVE  KeysInv'
<1> SUFFICES ASSUME Hooked, source' = "open", loop' # "forked"
             PROVE  /\ \A k \in Keys : KeySound(k)'
                    /\ \A a \in attempts' : Asked(a)'
  BY DEF KeysInv, Hooked
<1>1. /\ \A k \in Keys : KeySound(k)
      /\ \A a \in attempts : Asked(a)
      /\ \A k \in Keys : Waits(k)' <=> Waits(k)
  BY DEF KeysInv
<1> HIDE DEF Waits
<1> QED
  BY <1>1 DEF KeySound, Asked

\* One event more waits, of a key that is told of it.
LEMMA TrackStep ==
    ASSUME KeyTypes, LoopInv, KeysInv, UNCHANGED <<setup, source, busyKeys, running>>, source = "open",
           NEW g, NEW r, Waits(g)', \A k \in Keys : k # g => (Waits(k)' <=> Waits(k)),
           loop # "taking",
           IF loop # "forked" THEN Track(g, r) /\ loop' = Woken ELSE UNCHANGED <<ready, loop>>
    PROVE  LoopInv' /\ KeysInv'
<1>1. loop = "forked" => loop' = "forked"
  OBVIOUS
<1>2. loop # "forked" => loop' \notin {"forked", "latched", "taking"}
  BY DEF Woken
<1>3. CASE loop = "forked"
  <2>1. loop' = "forked" /\ UNCHANGED ready
    BY <1>3
  <2> QED
    BY <1>3, <2>1 DEF LoopInv, KeysInv, Hooked, ready
<1>4. CASE loop # "forked"
  <2>1. CASE UNCHANGED ready /\ ~(Hooked /\ g \in Keys /\ readiness[g].phase = "none")
    <3>1. LoopInv'
      BY <1>2, <1>4, <2>1 DEF LoopInv, Hooked, ready
    <3>2. KeysInv'
      <4> SUFFICES ASSUME Hooked
                   PROVE  /\ \A k \in Keys : KeySound(k)'
                          /\ \A a \in attempts' : Asked(a)'
        BY DEF KeysInv, Hooked
      <4>1. /\ \A k \in Keys : KeySound(k)
            /\ \A a \in attempts : Asked(a)
        BY <1>4 DEF KeysInv
      <4> HIDE DEF Waits
      <4> QED
        BY <2>1, <4>1 DEF KeySound, Asked, ready
    <3> QED
      BY <3>1, <3>2
  <2>2. CASE Hooked /\ g \in Keys /\ readiness[g].phase = "none"
    <3>1. /\ readiness' = [readiness EXCEPT ![g] = [token |-> r, phase |-> "tracked"]]
          /\ unstarted' = unstarted \cup {g} /\ attempts' = attempts
      BY <1>4, <2>2 DEF Track
    <3>2. readiness'[g] = [token |-> r, phase |-> "tracked"] /\ \A k \in Keys : k # g => readiness'[k] = readiness[k]
      BY <2>2, <3>1 DEF KeyTypes
    <3>3. LoopInv'
      BY <1>2, <1>4, <2>2, <3>1, <3>2 DEF LoopInv, Hooked
    <3>4. /\ \A k \in Keys : KeySound(k)
          /\ \A a \in attempts : Asked(a)
      BY <1>4, <2>2 DEF KeysInv
    <3>5. \A k \in Keys : KeySound(k)'
      <4> HIDE DEF Waits
      <4> QED
        BY <2>2, <3>1, <3>2, <3>4 DEF KeySound
    <3>6. \A a \in attempts' : Asked(a)'
      <4>1. \A a \in attempts : a.key \in Keys /\ readiness[a.key].phase = "asked"
        <5>1. \A a \in attempts : a \in [key : Keys, token : Tokens]
          BY DEF KeyTypes
        <5>2. \A a \in [key : Keys, token : Tokens] : a.key \in Keys
          OBVIOUS
        <5>3. \A a \in attempts : readiness[a.key].phase = "asked"
          BY <3>4 DEF Asked
        <5>4. \A a \in attempts : a.key \in Keys
          BY <5>1, <5>2, Zenon
        <5> QED
          BY <5>3, <5>4
      <4> QED
        BY <2>2, <3>1, <3>2, <3>4, <4>1 DEF Asked
    <3> QED
      BY <3>3, <3>5, <3>6 DEF KeysInv
  <2> QED
    BY <1>4, <2>1, <2>2 DEF Track
<1> QED
  BY <1>3, <1>4

LEMMA OfferReady ==
    ASSUME QueueInv, StartInv, ReadyInv, UNCHANGED setup, Offer
    PROVE  LoopInv' /\ KeysInv'
<1>0. KeyTypes /\ LoopInv /\ KeysInv
  BY DEF ReadyInv
<1>1. ASSUME NEW g \in Arriving, NEW b \in Sizes, OfferTaken(g, b)
      PROVE  LoopInv' /\ KeysInv'
  <2>1. loop = "taking" /\ loop' = "start" /\ source = "open" /\ UNCHANGED <<ready, source>>
    BY <1>1 DEF OfferTaken, Start, Arrives
  <2>2. ~Hooked
    BY <2>1, HookedIs DEF StartInv
  <2> QED
    BY <1>0, <2>1, <2>2 DEF LoopInv, KeysInv, Hooked, ready
<1>2. ASSUME Passes, UNCHANGED <<queue, source, loop, busyKeys, running, ready>>
      PROVE  LoopInv' /\ KeysInv'
  <2>1. \A k \in Keys : Waits(k)' <=> Waits(k)
    BY <1>2 DEF Waits, queue
  <2>2. UNCHANGED <<pending, readiness, unstarted, attempts>>
    BY <1>2 DEF queue, ready
  <2>3. LoopInv'
    BY <1>0, <1>2, <2>2, LoopSame
  <2>4. KeysInv'
    BY <1>0, <1>2, <2>1, <2>2, KeysSame
  <2> QED
    BY <2>3, <2>4
<1>3. ASSUME NEW g \in Arriving, NEW v, NEW bytes, NEW counts, NEW e, e.group = g,
             Push(v, bytes, counts, e), ~Partitioned,
             UNCHANGED <<source, busyKeys, running>>, source = "open", loop # "taking"
      PROVE  LoopInv' /\ KeysInv'
  <2>1. UNCHANGED <<readiness, unstarted, attempts, loop>>
    BY <1>3 DEF Push, ready
  <2>2. ~Hooked
    BY <1>3, HookedIs
  <2>3. loop = "latched" => AtCapacity'
    BY <1>0, <1>3 DEF LoopInv, AtCapacity
  <2>4. LoopInv'
    BY <1>0, <1>3, <2>1, <2>2, <2>3 DEF LoopInv, Hooked
  <2>5. KeysInv'
    BY <2>2 DEF KeysInv, Hooked
  <2> QED
    BY <2>4, <2>5
<1>4. ASSUME NEW g \in Arriving, NEW b \in Sizes, OfferQueued(g, b)
      PROVE  LoopInv' /\ KeysInv'
  <2>1. /\ Push(pending, used, waiting, Arrival(g, b)) /\ Arrival(g, b).group = g
        /\ UNCHANGED <<source, busyKeys, running>> /\ source = "open" /\ loop # "taking"
    BY <1>4 DEF OfferQueued, Arrives, Arrival
  <2>2. CASE ~Partitioned
    BY <1>3, <2>1, <2>2
  <2>3. CASE Partitioned
    <3>1. ToSet(pending') = ToSet(pending) \cup {Arrival(g, b)}
      BY <1>4, QueuedIs
    <3>2. Waits(g)' /\ \A k \in Keys : k # g => (Waits(k)' <=> Waits(k))
      BY <2>1, <3>1 DEF Waits, OfGroup
    <3>3. IF loop # "forked" THEN Track(g, Arrival(g, b).receipt) /\ loop' = Woken ELSE UNCHANGED <<ready, loop>>
      BY <2>1, <2>3 DEF Push
    <3> HIDE DEF Waits
    <3> QED
      BY <1>0, <2>1, <2>3, <3>2, <3>3, TrackStep
  <2> QED
    BY <2>2, <2>3
<1>5. ASSUME NEW g \in Arriving, NEW b \in Sizes, OfferEvicting(g, b)
      PROVE  LoopInv' /\ KeysInv'
  <2>1. CASE Plan(g, b) = NoPlan
    BY <1>2, <1>5, <2>1 DEF OfferEvicting
  <2>2. CASE Plan(g, b) # NoPlan
    <3>1. PICK v, bytes, counts : Push(v, bytes, counts, Arrival(g, b))
      BY <1>5, <2>2 DEF OfferEvicting
    <3>2. UNCHANGED <<source, busyKeys, running>> /\ source = "open" /\ loop # "taking" /\ Arrival(g, b).group = g
      BY <1>5 DEF OfferEvicting, Arrives, Arrival
    <3>3. CASE ~Partitioned
      BY <1>3, <3>1, <3>2, <3>3
    <3>4. CASE Partitioned
      <4>1. \A k \in Groups : IF k = g THEN Waits(k)' ELSE (Waits(k)' <=> Waits(k))
        BY <1>5, <2>2, <3>4, EvictingLeaves
      <4>2. Waits(g)' /\ \A k \in Keys : k # g => (Waits(k)' <=> Waits(k))
        BY <3>4, <4>1 DEF Groups, Arriving
      <4>3. IF loop # "forked" THEN Track(g, Arrival(g, b).receipt) /\ loop' = Woken ELSE UNCHANGED <<ready, loop>>
        BY <3>1, <3>2, <3>4 DEF Push
      <4> HIDE DEF Waits
      <4> QED
        BY <1>0, <3>2, <3>4, <4>2, <4>3, TrackStep
    <3> QED
      BY <3>3, <3>4
  <2> QED
    BY <2>1, <2>2
<1>6. ASSUME NEW g, NEW b, OfferDropped(g, b)
      PROVE  LoopInv' /\ KeysInv'
  BY <1>2, <1>6 DEF OfferDropped
<1>7. ASSUME Stop
      PROVE  LoopInv' /\ KeysInv'
  <2>1. source' = "stopped" /\ loop' = "ended" /\ UNCHANGED ready
    BY <1>7 DEF Stop
  <2> QED
    BY <1>0, <2>1 DEF LoopInv, KeysInv, Hooked, ready
<1> QED
  BY <1>1, <1>4, <1>5, <1>6, <1>7 DEF Offer, OfferOverflows

\* An attempt is its key and its token.
LEMMA AttemptIs ==
    ASSUME KeyTypes, NEW a \in attempts
    PROVE  /\ a.key \in Keys /\ a.token \in Tokens
           /\ \A b \in attempts : a.key = b.key /\ a.token = b.token => a = b
<1>1. attempts \subseteq [key : Keys, token : Tokens]
  BY DEF KeyTypes
<1>2. \A b \in [key : Keys, token : Tokens] : b.key \in Keys /\ b.token \in Tokens /\ b = [key |-> b.key, token |-> b.token]
  OBVIOUS
<1>3. a.key \in Keys /\ a.token \in Tokens
  BY <1>1, <1>2
<1>4. ASSUME NEW b \in attempts, a.key = b.key, a.token = b.token
      PROVE  a = b
  <2>1. a = [key |-> a.key, token |-> a.token] /\ b = [key |-> b.key, token |-> b.token]
    BY <1>1, <1>2
  <2> QED
    BY <1>4, <2>1
<1> QED
  BY <1>3, <1>4

\* While the subscription is open, every attempt is the current one of a key that waits.
LEMMA AttemptWaits ==
    ASSUME ReadyInv, source = "open", NEW a \in attempts
    PROVE  /\ Hooked /\ loop # "forked" /\ a.key \in Keys /\ Asked(a) /\ Waits(a.key) /\ a.key \notin busyKeys
           /\ \A b \in attempts : a.key = b.key => a = b
<1>1. Hooked /\ loop # "forked"
  BY DEF ReadyInv, LoopInv
<1>2. (\A k \in Keys : KeySound(k)) /\ \A b \in attempts : Asked(b)
  BY <1>1 DEF ReadyInv, KeysInv
<1>3. a.key \in Keys /\ \A b \in attempts : a.key = b.key /\ a.token = b.token => a = b
  BY AttemptIs DEF ReadyInv
<1>4. Waits(a.key) /\ a.key \notin busyKeys
  <2> HIDE DEF Waits
  <2> QED
    BY <1>2, <1>3 DEF KeySound, Asked
<1>5. ASSUME NEW b \in attempts, a.key = b.key PROVE a = b
  BY <1>2, <1>3, <1>5 DEF Asked
<1> QED
  BY <1>1, <1>2, <1>3, <1>4, <1>5

\* forgetIdle touches no other key, and this one only when it is ready and idle.
LEMMA ForgetIs ==
    ASSUME NEW f \in [Keys -> Entries], NEW key, NEW busy, NEW count
    PROVE  \A k \in Keys : ForgetIdle(f, key, busy, count)[k] =
               IF k = key /\ f[k].phase = "ready" /\ k \notin busy /\ count[k] = 0 THEN Absent ELSE f[k]
BY DEF ForgetIdle

\* The worker's steps up to the choice of an event
LEMMA BeginReady ==
    ASSUME QueueInv, StartInv, ReadyInv, UNCHANGED setup, Begin
    PROVE  LoopInv' /\ KeysInv'
<1> DEFINE first(k) == pending[Oldest({i \in DOMAIN pending : pending[i].group = k})].receipt
           waitingKeys == {k \in Keys : Hooked /\ waiting[k] > 0}
<1>1. /\ loop = "forked" /\ loop' = "start" /\ unstarted' = waitingKeys
      /\ readiness' = [k \in Keys |-> IF k \in waitingKeys THEN [token |-> first(k), phase |-> "tracked"]
                                      ELSE readiness[k]]
      /\ UNCHANGED <<pending, source, busyKeys, running, attempts>>
  BY DEF Begin, queue
<1>2. source = "open" /\ busyKeys = {} /\ attempts = {} /\ \A k \in Keys : readiness[k] = Absent
  BY <1>1 DEF ReadyInv, LoopInv
<1>3. \A k \in Keys : IF k \in waitingKeys THEN readiness'[k].phase = "tracked" ELSE readiness'[k] = Absent
  <2> HIDE DEF waitingKeys, first
  <2> QED
    BY <1>1, <1>2
<1>4. LoopInv'
  <2>1. ~Hooked => waitingKeys = {}
    OBVIOUS
  <2> HIDE DEF waitingKeys
  <2> QED
    BY <1>1, <1>2, <1>3, <2>1 DEF LoopInv, Hooked, Absent
<1>5. KeysInv'
  <2> SUFFICES ASSUME Hooked, NEW k \in Keys PROVE KeySound(k)'
    BY <1>1, <1>2 DEF KeysInv, Hooked
  <2>1. (k \in waitingKeys) <=> Waits(k)
    BY WaitingCounts, HookedIs
  <2>2. Waits(k)' <=> Waits(k)
    BY <1>1 DEF Waits
  <2> HIDE DEF Waits, waitingKeys
  <2> QED
    BY <1>1, <1>2, <1>3, <2>1, <2>2 DEF KeySound, Absent
<1> QED
  BY <1>4, <1>5

LEMMA HooksStart ==
    ASSUME QueueInv, StartInv, ReadyInv, UNCHANGED setup, StartReadiness
    PROVE  LoopInv' /\ KeysInv'
<1> DEFINE hooked == {k \in unstarted : readiness[k].phase = "tracked"}
<1>1. /\ loop = "start" /\ loop' = "scan" /\ unstarted' = {}
      /\ attempts' = attempts \cup {[key |-> k, token |-> readiness[k].token] : k \in hooked}
      /\ readiness' = [k \in Keys |-> IF k \in hooked THEN [readiness[k] EXCEPT !.phase = "asked"] ELSE readiness[k]]
      /\ UNCHANGED <<pending, source, busyKeys, running>>
  BY DEF StartReadiness, queue
<1>2. source = "open" /\ KeyTypes /\ LoopInv /\ KeysInv /\ hooked \subseteq Keys
  BY <1>1 DEF ReadyInv, LoopInv, SourceTypes
<1>3. \A k \in Keys : readiness[k] \in Entries
  BY <1>2 DEF KeyTypes
<1>4. \A k \in Keys : IF readiness[k].phase = "tracked"
                      THEN k \in hooked /\ readiness'[k].phase = "asked" /\ readiness'[k].token = readiness[k].token
                      ELSE k \notin hooked /\ readiness'[k] = readiness[k]
  <2> SUFFICES ASSUME NEW k \in Keys
               PROVE  IF readiness[k].phase = "tracked"
                      THEN k \in hooked /\ readiness'[k].phase = "asked" /\ readiness'[k].token = readiness[k].token
                      ELSE k \notin hooked /\ readiness'[k] = readiness[k]
    OBVIOUS
  <2>1. k \in hooked <=> readiness[k].phase = "tracked"
    BY <1>2 DEF LoopInv
  <2>2. readiness'[k] = IF k \in hooked THEN [readiness[k] EXCEPT !.phase = "asked"] ELSE readiness[k]
    BY <1>1
  <2>3. [readiness[k] EXCEPT !.phase = "asked"].phase = "asked"
        /\ [readiness[k] EXCEPT !.phase = "asked"].token = readiness[k].token
    BY <1>3 DEF Entries
  <2> HIDE DEF hooked
  <2> QED
    BY <2>1, <2>2, <2>3
<1>5. \A k \in Keys : readiness'[k].phase # "tracked"
  <2> HIDE DEF hooked
  <2> QED
    BY <1>4
<1>6. LoopInv'
  <2>1. ~Hooked => hooked = {} /\ unstarted = {}
    BY <1>2 DEF LoopInv
  <2>2. ~Hooked => attempts' = {} /\ \A k \in Keys : readiness'[k] = Absent
    <3> SUFFICES ASSUME ~Hooked PROVE attempts' = {} /\ \A k \in Keys : readiness'[k] = Absent
      OBVIOUS
    <3>1. attempts = {} /\ \A k \in Keys : readiness[k] = Absent
      BY <1>2 DEF LoopInv
    <3> QED
      BY <1>1, <2>1, <3>1
  <2> QED
    BY <1>1, <1>2, <1>5, <2>2 DEF LoopInv, Hooked
<1>7. KeysInv'
  <2> SUFFICES ASSUME Hooked
               PROVE  /\ \A k \in Keys : KeySound(k)'
                      /\ \A a \in attempts' : Asked(a)'
    BY <1>1, <1>2 DEF KeysInv, Hooked
  <2>1. (\A k \in Keys : KeySound(k)) /\ \A a \in attempts : Asked(a)
    BY <1>1, <1>2 DEF KeysInv
  <2>2. \A k \in hooked : [key |-> k, token |-> readiness[k].token] \in attempts'
    BY <1>1
  <2>3. ASSUME NEW k \in Keys PROVE KeySound(k)'
    <3>1. Waits(k)' <=> Waits(k)
      BY <1>1 DEF Waits
    <3>2. CASE readiness[k].phase = "tracked"
      <4>1. readiness'[k].phase = "asked" /\ k \in hooked
        BY <1>4, <3>2
      <4>2. \E a \in attempts' : a.key = k
        BY <2>2, <4>1
      <4> HIDE DEF Waits, hooked
      <4> QED
        BY <1>1, <2>1, <3>1, <3>2, <4>1, <4>2 DEF KeySound
    <3>3. CASE readiness[k].phase # "tracked"
      <4> HIDE DEF Waits, hooked
      <4>1. readiness'[k] = readiness[k]
        BY <1>4, <3>3
      <4> QED
        BY <1>1, <2>1, <3>1, <4>1 DEF KeySound
    <3> QED
      BY <3>2, <3>3
  <2>4. ASSUME NEW a \in attempts' PROVE Asked(a)'
    <3>1. CASE a \in attempts
      <4>1. a.key \in Keys /\ Asked(a)
        BY <1>2, <2>1, <3>1, AttemptIs
      <4>2. readiness'[a.key] = readiness[a.key]
        BY <1>4, <4>1 DEF Asked
      <4> QED
        BY <4>1, <4>2 DEF Asked
    <3>2. ASSUME NEW k \in hooked, a = [key |-> k, token |-> readiness[k].token]
          PROVE  Asked(a)'
      <4>1. k \in Keys /\ readiness[k].phase = "tracked" /\ a.key = k /\ a.token = readiness[k].token
        BY <1>2, <3>2
      <4> QED
        BY <1>4, <4>1 DEF Asked
    <3> QED
      BY <1>1, <3>1, <3>2
  <2> QED
    BY <2>3, <2>4
<1> QED
  BY <1>6, <1>7

LEMMA RescanReady ==
    ASSUME ReadyInv, UNCHANGED setup, Rescan \/ Wait
    PROVE  LoopInv' /\ KeysInv'
<1>1. /\ loop = "scan" /\ UNCHANGED <<pending, source, busyKeys, running, readiness, unstarted, attempts>>
      /\ loop' \in {"start", "latched", "taking"}
  BY DEF Rescan, Wait, queue, ready
<1>2. loop' \in {"latched", "taking"} => unstarted = {}
  BY DEF Rescan, Wait
<1>3. loop' = "latched" => AtCapacity \/ (Partitioned /\ Selected = {})
  BY DEF Rescan, Wait
<1>4. Selected' = Selected /\ AtCapacity' = AtCapacity /\ Partitioned' = Partitioned
  BY <1>1 DEF Selected, AtCapacity, Eligible, IsReady, Hooked, Partitioned
<1>5. source = "open" /\ LoopInv /\ KeysInv
  BY <1>1 DEF ReadyInv, LoopInv
<1>6. LoopInv'
  <2>1. loop' = "latched" => AtCapacity' \/ (Partitioned' /\ Selected' = {})
    BY <1>3, <1>4
  <2>2. /\ source' # "open" => loop' = "ended"
        /\ ~Hooked' => attempts' = {} /\ unstarted' = {} /\ \A k \in Keys : readiness'[k] = Absent
        /\ loop' = "forked" => busyKeys' = {} /\ attempts' = {} /\ \A k \in Keys : readiness'[k] = Absent
        /\ \A k \in Keys : readiness'[k].phase = "tracked" => k \in unstarted'
        /\ loop' \in {"latched", "taking"} => unstarted' = {}
    BY <1>1, <1>2, <1>5 DEF LoopInv, Hooked
  <2> QED
    BY <2>1, <2>2 DEF LoopInv
<1>7. KeysInv'
  <2>1. \A k \in Keys : Waits(k)' <=> Waits(k)
    BY <1>1 DEF Waits
  <2> QED
    BY <1>1, <1>5, <2>1, KeysSame
<1> QED
  BY <1>6, <1>7

LEMMA DeliverReady ==
    ASSUME QueueInv, StartInv, ReadyInv, UNCHANGED setup, Deliver
    PROVE  LoopInv' /\ KeysInv'
<1> DEFINE i == Oldest(Selected)
           e == pending[i]
<1>1. /\ loop = "scan" /\ loop' = "start" /\ UNCHANGED <<source, readiness, unstarted, attempts>>
      /\ IF e.group = Failed THEN UNCHANGED <<busyKeys, running>> ELSE Start(e)
  BY DEF Deliver, Start, ready
<1>2. i \in Selected /\ i \in DOMAIN pending /\ ToSet(pending') = ToSet(pending) \ {e} /\ e.group \in Arriving
      /\ e \in ToSet(pending)
  BY DeliverIs, WaitingIs
<1>3. source = "open" /\ LoopInv /\ KeysInv
  BY <1>1 DEF ReadyInv, LoopInv
<1>4. LoopInv'
  BY <1>1, <1>3 DEF LoopInv, Hooked
<1>5. KeysInv'
  <2> SUFFICES ASSUME Hooked
               PROVE  /\ \A k \in Keys : KeySound(k)'
                      /\ \A a \in attempts' : Asked(a)'
    BY <1>1, <1>3 DEF KeysInv, Hooked
  <2>1. (\A k \in Keys : KeySound(k)) /\ \A a \in attempts : Asked(a)
    BY <1>1, <1>3 DEF KeysInv
  <2>2. Partitioned /\ e.group \in Groups
    BY <1>2, HookedIs DEF Arriving
  <2>3. e.group \in Keys => readiness[e.group].phase = "ready"
    BY <1>2, <2>2 DEF Selected, Eligible, IsReady
  <2>4. busyKeys' = IF e.group \in Keys THEN busyKeys \cup {e.group} ELSE busyKeys
    BY <1>1, <2>2, DeliveryAssumption DEF Start, Groups
  <2>5. \A k \in Keys : k # e.group => (Waits(k)' <=> Waits(k))
    BY <1>2 DEF Waits, OfGroup
  <2>6. \A k \in Keys : Waits(k)' => Waits(k)
    BY <1>2 DEF Waits, OfGroup
  <2> HIDE DEF Waits, e
  <2>7. \A k \in Keys : KeySound(k)'
    BY <1>1, <2>1, <2>3, <2>4, <2>5, <2>6 DEF KeySound
  <2> QED
    BY <1>1, <2>1, <2>7 DEF Asked
<1> QED
  BY <1>4, <1>5

\* The end of an invocation
LEMMA EndsReady ==
    ASSUME QueueInv, StartInv, ReadyInv, UNCHANGED setup, NEW e \in running, HandlerEnds(e)
    PROVE  LoopInv' /\ KeysInv'
<1> DEFINE busy == busyKeys \ {e.group}
<1>1. /\ busyKeys' = busy /\ loop' = Woken /\ UNCHANGED <<pending, source, unstarted, attempts>>
      /\ readiness' = ForgetIdle(readiness, e.group, busy, waiting)
  BY DEF HandlerEnds, queue
<1>2. KeyTypes /\ LoopInv /\ KeysInv
  BY DEF ReadyInv
<1>3. \A k \in Keys : readiness'[k] =
          IF k = e.group /\ readiness[k].phase = "ready" /\ k \notin busy /\ waiting[k] = 0 THEN Absent ELSE readiness[k]
  <2> HIDE DEF busy
  <2> QED
    BY <1>1, <1>2, ForgetIs DEF KeyTypes
<1>4. \A k \in Keys : readiness'[k] = readiness[k] \/ (readiness'[k] = Absent /\ k = e.group /\ readiness[k].phase = "ready")
  BY <1>3
<1>5. LoopInv'
  <2>1. loop' # "latched" /\ (loop' = loop \/ (loop' = "start" /\ loop = "latched"))
    BY <1>1 DEF Woken
  <2>2. \A k \in Keys : (readiness[k] = Absent => readiness'[k] = Absent)
                        /\ (readiness'[k].phase = "tracked" => readiness[k].phase = "tracked")
    BY <1>4 DEF Absent
  <2>3. ~Hooked => attempts' = {} /\ unstarted' = {} /\ \A k \in Keys : readiness'[k] = Absent
    BY <1>1, <1>2, <2>2 DEF LoopInv
  <2>4. source' # "open" => loop' = "ended"
    BY <1>1, <1>2, <2>1 DEF LoopInv
  <2>5. loop' = "forked" => busyKeys' = {} /\ attempts' = {} /\ \A k \in Keys : readiness'[k] = Absent
    BY <1>1, <1>2, <2>1, <2>2 DEF LoopInv
  <2>6. (\A k \in Keys : readiness'[k].phase = "tracked" => k \in unstarted')
        /\ (loop' \in {"latched", "taking"} => unstarted' = {})
    BY <1>1, <1>2, <2>1, <2>2 DEF LoopInv
  <2> QED
    BY <2>1, <2>3, <2>4, <2>5, <2>6 DEF LoopInv, Hooked
<1>6. KeysInv'
  <2> SUFFICES ASSUME Hooked, source = "open", loop' # "forked"
               PROVE  /\ \A k \in Keys : KeySound(k)'
                      /\ \A a \in attempts' : Asked(a)'
    BY <1>1 DEF KeysInv, Hooked
  <2>1. (\A k \in Keys : KeySound(k)) /\ \A a \in attempts : Asked(a)
    BY <1>1, <1>2 DEF KeysInv, Woken
  <2>2. ASSUME NEW k \in Keys PROVE KeySound(k)'
    <3>1. (Waits(k)' <=> Waits(k)) /\ (waiting[k] = 0 <=> ~Waits(k))
      BY <1>1, WaitingCounts, HookedIs DEF Waits
    <3>2. k = e.group => k \in busyKeys
      BY HookedIs DEF StartInv
    <3>3. k \in busyKeys' <=> k \in busyKeys /\ k # e.group
      BY <1>1
    <3> HIDE DEF Waits, busy
    <3>4. CASE k = e.group
      <4>1. readiness[k].phase = "ready" /\ k \notin busy
        BY <2>1, <3>2, <3>4 DEF KeySound, busy
      <4>2. readiness'[k] = IF Waits(k) THEN readiness[k] ELSE Absent
        BY <1>3, <3>1, <3>4, <4>1
      <4> QED
        BY <3>1, <3>3, <3>4, <4>1, <4>2 DEF KeySound, Absent
    <3>5. CASE k # e.group
      <4>1. readiness'[k] = readiness[k]
        BY <1>3, <3>5
      <4> QED
        BY <1>1, <2>1, <3>1, <3>3, <3>5, <4>1 DEF KeySound
    <3> QED
      BY <3>4, <3>5
  <2>3. ASSUME NEW a \in attempts' PROVE Asked(a)'
    <3>1. a \in attempts /\ a.key \in Keys /\ Asked(a)
      BY <1>1, <1>2, <2>1, AttemptIs
    <3>2. readiness'[a.key] = readiness[a.key]
      BY <1>4, <3>1 DEF Asked
    <3> QED
      BY <3>1, <3>2 DEF Asked
  <2> QED
    BY <2>2, <2>3
<1> QED
  BY <1>5, <1>6

\* The end of a hook
LEMMA SucceedsReady ==
    ASSUME QueueInv, ReadyInv, UNCHANGED setup, NEW a, HookSucceeds(a)
    PROVE  LoopInv' /\ KeysInv'
<1> DEFINE table == [readiness EXCEPT ![a.key].phase = "ready"]
<1>1. /\ a \in attempts /\ attempts' = attempts \ {a} /\ source = "open" /\ loop' = Woken
      /\ UNCHANGED <<pending, source, busyKeys, unstarted>>
      /\ readiness' = ForgetIdle(table, a.key, busyKeys, waiting)
  BY DEF HookSucceeds, Settles, Current, queue
<1>2. KeyTypes /\ LoopInv /\ KeysInv
  BY DEF ReadyInv
<1>3. /\ Hooked /\ loop # "forked" /\ a.key \in Keys /\ Asked(a) /\ Waits(a.key) /\ a.key \notin busyKeys
      /\ \A b \in attempts : a.key = b.key => a = b
  BY <1>1, AttemptWaits
<1>4. (\A k \in Keys : KeySound(k)) /\ \A b \in attempts : Asked(b)
  BY <1>1, <1>2, <1>3 DEF KeysInv
<1>5. readiness'[a.key].phase = "ready" /\ \A k \in Keys : k # a.key => readiness'[k] = readiness[k]
  <2>1. table \in [Keys -> Entries]
    <3>1. readiness \in [Keys -> Entries] /\ readiness[a.key] \in Entries
      BY <1>2, <1>3 DEF KeyTypes
    <3>2. [readiness[a.key] EXCEPT !.phase = "ready"] \in Entries
      BY <3>1, EntryNext
    <3>3. table = [readiness EXCEPT ![a.key] = [readiness[a.key] EXCEPT !.phase = "ready"]]
      OBVIOUS
    <3> QED
      BY <3>1, <3>2, <3>3
  <2>2. table[a.key].phase = "ready" /\ \A k \in Keys : k # a.key => table[k] = readiness[k]
    BY <1>2, <1>3 DEF KeyTypes, Entries
  <2>3. waiting[a.key] # 0
    <3> HIDE DEF Waits
    <3> QED
      BY <1>3, WaitingCounts, HookedIs
  <2> HIDE DEF table
  <2>4. \A k \in Keys : readiness'[k] =
            IF k = a.key /\ table[k].phase = "ready" /\ k \notin busyKeys /\ waiting[k] = 0 THEN Absent ELSE table[k]
    BY <1>1, <2>1, ForgetIs
  <2> QED
    BY <1>3, <2>2, <2>3, <2>4
<1> HIDE DEF table
<1>6. LoopInv'
  <2>1. \A k \in Keys : readiness'[k].phase = "tracked" => readiness[k].phase = "tracked"
    BY <1>5
  <2> QED
    BY <1>1, <1>2, <1>3, <2>1 DEF LoopInv, Hooked, Woken
<1>7. KeysInv'
  <2> SUFFICES /\ \A k \in Keys : KeySound(k)'
               /\ \A b \in attempts' : Asked(b)'
    BY DEF KeysInv
  <2>1. \A k \in Keys : Waits(k)' <=> Waits(k)
    BY <1>1 DEF Waits
  <2> HIDE DEF Waits
  <2>2. ASSUME NEW k \in Keys PROVE KeySound(k)'
    <3>1. CASE k = a.key
      BY <1>1, <1>3, <1>5, <2>1, <3>1 DEF KeySound
    <3>2. CASE k # a.key
      <4>1. readiness'[k] = readiness[k]
        BY <1>5, <3>2
      <4>2. (\E b \in attempts : b.key = k) => \E b \in attempts' : b.key = k
        BY <1>1, <3>2
      <4> QED
        BY <1>1, <1>4, <2>1, <4>1, <4>2 DEF KeySound
    <3> QED
      BY <3>1, <3>2
  <2>3. ASSUME NEW b \in attempts' PROVE Asked(b)'
    <3>1. b \in attempts /\ b # a /\ b.key \in Keys
      BY <1>1, <1>2, AttemptIs
    <3>2. readiness'[b.key] = readiness[b.key] /\ Asked(b)
      BY <1>3, <1>4, <1>5, <3>1
    <3> QED
      BY <3>2 DEF Asked
  <2> QED
    BY <2>2, <2>3
<1> QED
  BY <1>6, <1>7

LEMMA FailsReady ==
    ASSUME QueueInv, ReadyInv, UNCHANGED setup, NEW a, HookFails(a)
    PROVE  LoopInv' /\ KeysInv'
<1>1. /\ a \in attempts /\ attempts' = attempts \ {a} /\ source = "open" /\ loop' = Woken
      /\ UNCHANGED <<source, busyKeys, unstarted>> /\ readiness' = [readiness EXCEPT ![a.key] = Absent]
  BY DEF HookFails, Settles, Current
<1>2. KeyTypes /\ LoopInv /\ KeysInv
  BY DEF ReadyInv
<1>3. /\ Hooked /\ loop # "forked" /\ a.key \in Keys /\ Asked(a) /\ a.key \notin busyKeys
      /\ \A b \in attempts : a.key = b.key => a = b
  BY <1>1, AttemptWaits
<1>4. (\A k \in Keys : KeySound(k)) /\ \A b \in attempts : Asked(b)
  BY <1>1, <1>2, <1>3 DEF KeysInv
<1>5. readiness'[a.key] = Absent /\ \A k \in Keys : k # a.key => readiness'[k] = readiness[k]
  BY <1>1, <1>2, <1>3 DEF KeyTypes
<1>6. ToSet(pending') = ToSet(pending) \ OfGroup(a.key, ToSet(pending))
  BY HookFailsIs
<1>7. ~Waits(a.key)' /\ \A k \in Keys : k # a.key => (Waits(k)' <=> Waits(k))
  BY <1>6 DEF Waits, OfGroup
<1> HIDE DEF Waits
<1>8. LoopInv'
  <2>1. \A k \in Keys : readiness'[k].phase = "tracked" => readiness[k].phase = "tracked"
    BY <1>5 DEF Absent
  <2> QED
    BY <1>1, <1>2, <1>3, <2>1 DEF LoopInv, Hooked, Woken
<1>9. KeysInv'
  <2> SUFFICES /\ \A k \in Keys : KeySound(k)'
               /\ \A b \in attempts' : Asked(b)'
    BY DEF KeysInv
  <2>2. ASSUME NEW k \in Keys PROVE KeySound(k)'
    <3>1. CASE k = a.key
      BY <1>1, <1>3, <1>5, <1>7, <3>1 DEF KeySound, Absent
    <3>2. CASE k # a.key
      <4>1. readiness'[k] = readiness[k] /\ (Waits(k)' <=> Waits(k))
        BY <1>5, <1>7, <3>2
      <4>2. (\E b \in attempts : b.key = k) => \E b \in attempts' : b.key = k
        BY <1>1, <3>2
      <4> QED
        BY <1>1, <1>4, <4>1, <4>2 DEF KeySound
    <3> QED
      BY <3>1, <3>2
  <2>3. ASSUME NEW b \in attempts' PROVE Asked(b)'
    <3>1. b \in attempts /\ b # a /\ b.key \in Keys
      BY <1>1, <1>2, AttemptIs
    <3>2. readiness'[b.key] = readiness[b.key] /\ Asked(b)
      BY <1>3, <1>4, <1>5, <3>1
    <3> QED
      BY <3>2 DEF Asked
  <2> QED
    BY <2>2, <2>3
<1> QED
  BY <1>8, <1>9

LEMMA HooksSettleReady ==
    ASSUME QueueInv, ReadyInv, UNCHANGED setup, HooksSettle
    PROVE  LoopInv' /\ KeysInv'
<1>1. PICK a \in attempts : HookSucceeds(a) \/ HookFails(a) \/ HookIgnored(a)
  BY DEF HooksSettle
<1>2. CASE HookSucceeds(a)
  BY <1>2, SucceedsReady
<1>3. CASE HookFails(a)
  BY <1>3, FailsReady
<1>4. CASE HookIgnored(a)
  <2>1. /\ attempts' \subseteq attempts /\ ~Current(a)
        /\ UNCHANGED <<pending, source, busyKeys, running, readiness, unstarted, loop>>
    BY <1>4 DEF HookIgnored, Settles, queue
  <2>2. source # "open"
    <3> SUFFICES ASSUME source = "open" PROVE FALSE
      OBVIOUS
    <3>1. Asked(a)
      BY AttemptWaits
    <3> QED
      BY <2>1, <3>1 DEF Current, Asked
  <2>3. LoopInv'
    BY <2>1, LoopSame DEF ReadyInv
  <2> QED
    BY <2>1, <2>2, <2>3 DEF KeysInv
<1> QED
  BY <1>1, <1>2, <1>3, <1>4

LEMMA ReadyStep ==
    ASSUME QueueInv, StartInv, ReadyInv, DeliveryNext
    PROVE  LoopInv' /\ KeysInv'
<1>0. UNCHANGED setup /\ LoopInv /\ KeysInv
  BY DEF DeliveryNext, ReadyInv
<1>1. CASE Offer
  BY <1>0, <1>1, OfferReady
<1>2. CASE Work
  <2>1. CASE Begin
    BY <1>0, <2>1, BeginReady
  <2>2. CASE StartReadiness
    BY <1>0, <2>2, HooksStart
  <2>3. CASE Rescan \/ Wait
    BY <1>0, <2>3, RescanReady
  <2>4. CASE Deliver
    BY <1>0, <2>4, DeliverReady
  <2> QED
    BY <1>2, <2>1, <2>2, <2>3, <2>4 DEF Work
<1>3. CASE HandlersEnd
  BY <1>0, <1>3, EndsReady DEF HandlersEnd
<1>4. CASE HooksSettle
  BY <1>0, <1>4, HooksSettleReady
<1>5. CASE StopSource
  <2>1. source' = "stopped" /\ loop' = "ended" /\ UNCHANGED ready
    BY <1>5 DEF StopSource, Stop
  <2> QED
    BY <1>0, <2>1 DEF LoopInv, KeysInv, Hooked, ready
<1>6. CASE Finish
  <2>1. /\ source = "stopped" /\ source' = "finished"
        /\ UNCHANGED <<pending, busyKeys, running, readiness, unstarted, attempts, loop>>
    BY <1>6 DEF Finish, queue, ready
  <2>2. LoopInv'
    BY <1>0, <2>1, LoopSame
  <2> QED
    BY <2>1, <2>2 DEF KeysInv
<1> QED
  BY <1>1, <1>2, <1>3, <1>4, <1>5, <1>6 DEF DeliveryNext

LEMMA ReadyAlways == DrainSpec => [](QueueInv /\ StartInv /\ ReadyInv)
<1>1. DrainInit => ReadyInv
  <2> SUFFICES ASSUME DrainInit PROVE ReadyInv
    OBVIOUS
  <2>1. /\ source = "open" /\ sealed = FALSE /\ loop = "forked" /\ busyKeys = {}
        /\ readiness = [k \in Keys |-> Absent] /\ unstarted = {} /\ attempts = {} /\ awaited = FALSE
    BY DEF DrainInit, DeliveryInit
  <2>2. \A k \in Keys : readiness[k] = Absent /\ Absent.phase = "none"
    BY <2>1 DEF Absent
  <2>3. KeyTypes
    <3>1. Absent \in Entries
      BY DeliveryAssumption DEF Absent, Entries, Tokens, Phases
    <3> QED
      BY <2>1, <3>1 DEF KeyTypes
  <2>4. LoopInv
    BY <2>1, <2>2 DEF LoopInv
  <2> QED
    BY <2>1, <2>3, <2>4 DEF ReadyInv, SourceTypes, KeysInv
<1>2. QueueInv /\ StartInv /\ ReadyInv /\ [DrainNext]_drainVars => ReadyInv'
  <2> SUFFICES ASSUME QueueInv, StartInv, ReadyInv, [DrainNext]_drainVars
               PROVE  ReadyInv'
    OBVIOUS
  <2>1. SourceTypes' /\ KeyTypes /\ LoopInv /\ KeysInv
    BY SourceTypesStep DEF ReadyInv
  <2>2. CASE DeliveryNext
    BY <2>1, <2>2, ReadyStep, KeyTypesStep DEF ReadyInv
  <2>3. CASE Aside
    <3>1. UNCHANGED <<setup, pending, source, loop, busyKeys, running, readiness, unstarted, attempts>>
      BY <2>3 DEF Aside, queue, ready
    <3>2. KeyTypes'
      BY <2>1, <3>1 DEF KeyTypes
    <3>3. LoopInv'
      BY <2>1, <3>1, LoopSame
    <3>4. KeysInv'
      <4>1. \A k \in Keys : Waits(k)' <=> Waits(k)
        BY <3>1 DEF Waits
      <4> QED
        BY <2>1, <3>1, <4>1, KeysSame
    <3> QED
      BY <2>1, <3>2, <3>3, <3>4 DEF ReadyInv
  <2> QED
    BY <2>2, <2>3, DrainMoves
<1> QED
  BY <1>1, <1>2, StartAlways, PTL DEF DrainSpec

\* No key and no event is stranded: the map of keys, the attempts of the hooks and the waiting worker
\* agree with the queue after every step.
THEOREM NothingIsStranded == DrainSpec => []NothingStranded
<1>1. QueueInv /\ StartInv /\ ReadyInv => NothingStranded
  <2> SUFFICES ASSUME QueueInv, StartInv, ReadyInv PROVE NothingStranded
    OBVIOUS
  <2>1. LoopInv /\ KeysInv
    BY DEF ReadyInv
  <2>2. ReadinessExact
    <3> SUFFICES ASSUME Hooked, source = "open", loop # "forked" PROVE ReadinessExact
      BY DEF ReadinessExact
    <3>1. (\A k \in Keys : KeySound(k)) /\ (\A a \in attempts : Asked(a)) /\ Partitioned
      BY <2>1, HookedIs DEF KeysInv
    <3>2. \A k \in Keys : waiting[k] > 0 <=> Waits(k)
      BY <3>1, WaitingCounts
    <3>3. \A a, b \in attempts : a.key \in Keys /\ (a.key = b.key => a = b)
      BY AttemptWaits
    <3> HIDE DEF Waits
    <3>4. \A k \in busyKeys : readiness[k].phase = "ready"
      BY <3>1 DEF KeySound, ReadyInv, SourceTypes
    <3>5. \A k \in Keys : /\ waiting[k] > 0 => readiness[k].phase # "none"
                          /\ readiness[k].phase \in {"tracked", "asked"} => waiting[k] > 0
                          /\ readiness[k].phase = "ready" => waiting[k] > 0 \/ k \in busyKeys
                          /\ readiness[k].phase = "asked" <=> \E a \in attempts : a.key = k
      BY <3>1, <3>2 DEF KeySound, Asked
    <3> QED
      BY <3>3, <3>4, <3>5 DEF ReadinessExact
  <2>3. NoLostWakeup
    <3> SUFFICES ASSUME loop \in {"latched", "taking"}
                 PROVE  (\A k \in Keys : readiness[k].phase # "tracked") /\ (AtCapacity \/ Selected = {})
      BY DEF NoLostWakeup
    <3>1. \A k \in Keys : readiness[k].phase # "tracked"
      BY <2>1 DEF LoopInv
    <3>2. CASE loop = "latched"
      BY <2>1, <3>1, <3>2 DEF LoopInv
    <3>3. CASE loop = "taking"
      <4>1. ToSet(pending) = {}
        BY <3>3 DEF StartInv
      <4>2. Selected = {}
        BY <4>1, WaitingIs DEF Selected
      <4> QED
        BY <3>1, <4>2
    <3> QED
      BY <3>2, <3>3
  <2> QED
    BY <2>2, <2>3 DEF NothingStranded
<1> QED
  BY <1>1, ReadyAlways, PTL

-----------------------------------------------------------------------------
(* The scheduler *)

\* The timers of the snapshot that are still to fire are due, in order, and before every timer that
\* is not among them.
SnapshotInOrder ==
    /\ run # "firing" => due = <<>>
    /\ \A i \in 1..Len(due) : deadline[due[i]] <= now
    /\ \A i, j \in 1..Len(due) : i < j => Before(due[i], due[j])
    /\ \A i \in 1..Len(due) : \A t \in entries :
           (\A j \in 1..Len(due) : due[j] # t) => Before(due[i], t)

\* The inductive invariant: with these, a step that takes timers away or sets one disturbs nothing.
SchedulerInv ==
    /\ SchedulerTypeOK /\ SnapshotInOrder /\ NeverOversleeps
    /\ over => entries = {}

-----------------------------------------------------------------------------
(* Sequences *)

LEMMA AppendIs ==
    ASSUME NEW S, NEW s \in Seq(S), NEW e \in S
    PROVE  /\ Append(s, e) \in Seq(S) /\ Len(Append(s, e)) = Len(s) + 1
           /\ \A i \in 1..Len(s) : Append(s, e)[i] = s[i]
           /\ Append(s, e)[Len(s) + 1] = e
OBVIOUS

LEMMA TailIs ==
    ASSUME NEW S, NEW s \in Seq(S), s # <<>>
    PROVE  /\ Tail(s) \in Seq(S) /\ Len(Tail(s)) = Len(s) - 1 /\ Len(s) >= 1
           /\ \A i \in 1..(Len(s) - 1) : Tail(s)[i] = s[i + 1]
           /\ Head(s) = s[1]
OBVIOUS

LEMMA Widened ==
    ASSUME NEW n \in Nat, NEW s \in Seq(1..n)
    PROVE  s \in Seq(1..(n + 1))
OBVIOUS

LEMMA FunctionIsSeq ==
    ASSUME NEW S, NEW n \in Nat, NEW f \in [1..n -> S]
    PROVE  f \in Seq(S) /\ Len(f) = n
<1>1. f \in Seq(S)
  BY SeqDef
<1>2. Len(f) \in Nat /\ DOMAIN f = 1..Len(f)
  BY <1>1, LenProperties
<1>3. DOMAIN f = 1..n
  OBVIOUS
<1>4. 1..n = 1..Len(f)
  BY <1>2, <1>3
<1>5. n \in 1..n \/ n = 0
  OBVIOUS
<1>6. Len(f) \in 1..Len(f) \/ Len(f) = 0
  BY <1>2
<1> QED
  BY <1>1, <1>2, <1>4, <1>5, <1>6

LEMMA ItemsIn ==
    ASSUME NEW S, NEW s \in Seq(S)
    PROVE  Len(s) \in Nat /\ \A i \in 1..Len(s) : s[i] \in S
OBVIOUS

-----------------------------------------------------------------------------
(* Steps *)

LEMMA SchedulerInitHolds == SchedulerInit => SchedulerInv
<1> SUFFICES ASSUME SchedulerInit
             PROVE  SchedulerInv
  OBVIOUS
<1>1. due = <<>> /\ Len(due) = 0 /\ Len(deadline) = 0 /\ entries = {} /\ run = "looking"
  BY DEF SchedulerInit
<1>2. SchedulerTypeOK
  <2>1. due \in Seq(1..timers) /\ deadline \in Seq(Nat)
    BY DEF SchedulerInit
  <2>2. now \in Nat /\ timers \in Nat /\ Len(deadline) = timers
    BY <1>1 DEF SchedulerInit
  <2>3. /\ entries \subseteq 1..timers /\ until \in Nat \cup {Forever}
        /\ run \in {"looking", "asleep", "firing", "done"}
    BY DEF SchedulerInit
  <2>4. over \in BOOLEAN /\ woken \in BOOLEAN
    BY Zenon DEF SchedulerInit
  <2> QED
    BY <2>1, <2>2, <2>3, <2>4 DEF SchedulerTypeOK
<1>3. SnapshotInOrder
  BY <1>1 DEF SnapshotInOrder
<1>4. NeverOversleeps
  BY <1>1 DEF NeverOversleeps
<1> QED
  BY <1>1, <1>2, <1>3, <1>4 DEF SchedulerInv

\* Deadlines of timers that are set are instants.
LEMMA DeadlinesAre ==
    ASSUME SchedulerTypeOK
    PROVE  \A t \in 1..timers : deadline[t] \in Nat
BY DEF SchedulerTypeOK

LEMMA SetHolds ==
    ASSUME SchedulerInv, NEW d \in Delays, Set(d)
    PROVE  SchedulerInv'
<1> DEFINE at == DeadlineOf(d)
<1>1. now \in Nat /\ timers \in Nat /\ d \in Int
  BY SchedulerAssumption DEF SchedulerInv, SchedulerTypeOK
<1>2. at \in Nat /\ at >= now
  BY <1>1 DEF DeadlineOf
<1> HIDE DEF at
<1>3. /\ deadline' \in Seq(Nat) /\ Len(deadline') = timers + 1
      /\ \A t \in 1..timers : deadline'[t] = deadline[t]
      /\ deadline'[timers + 1] = at
  <2>1. deadline \in Seq(Nat) /\ Len(deadline) = timers /\ deadline' = Append(deadline, at)
    BY DEF SchedulerInv, SchedulerTypeOK, Set, at
  <2> QED
    BY <2>1, <1>2, AppendIs
<1>4. due' = due /\ now' = now /\ run' = run /\ over' = over /\ until' = until /\ timers' = timers + 1
      /\ entries' = entries \cup {timers + 1} /\ ~over /\ woken' = (run = "asleep")
  BY DEF Set, Signal
<1>5. /\ Len(due) \in Nat /\ \A i \in 1..Len(due) : due[i] \in 1..timers
      /\ due \in Seq(1..(timers + 1))
  BY <1>1, Widened, ItemsIn DEF SchedulerInv, SchedulerTypeOK
<1>6. SchedulerTypeOK'
  BY <1>1, <1>3, <1>4, <1>5 DEF SchedulerInv, SchedulerTypeOK
<1>7. SnapshotInOrder'
  <2>1. run' # "firing" => due' = <<>>
    BY <1>4 DEF SchedulerInv, SnapshotInOrder
  <2>2. ASSUME NEW i \in 1..Len(due)
        PROVE  deadline'[due[i]] <= now
    BY <1>3, <1>5 DEF SchedulerInv, SnapshotInOrder
  <2>3. ASSUME NEW i \in 1..Len(due), NEW j \in 1..Len(due), i < j
        PROVE  Before(due[i], due[j])'
    <3>1. Before(due[i], due[j])
      BY <2>3 DEF SchedulerInv, SnapshotInOrder
    <3> QED
      BY <3>1, <1>3, <1>4, <1>5 DEF Before
  <2>4. ASSUME NEW i \in 1..Len(due), NEW t \in entries', \A j \in 1..Len(due) : due[j] # t
        PROVE  deadline'[due[i]] < deadline'[t] \/ (deadline'[due[i]] = deadline'[t] /\ due[i] < t)
    <3>1. CASE t \in entries
      <4>1. Before(due[i], t)
        BY <2>4, <3>1 DEF SchedulerInv, SnapshotInOrder
      <4>2. t \in 1..timers /\ due[i] \in 1..timers
        BY <3>1, <1>5 DEF SchedulerInv, SchedulerTypeOK
      <4> QED
        BY <4>1, <4>2, <1>3 DEF Before
    <3>2. CASE t = timers + 1
      <4>1. due[i] \in 1..timers /\ deadline[due[i]] <= now /\ deadline[due[i]] \in Nat
        BY <1>5, DeadlinesAre DEF SchedulerInv, SnapshotInOrder
      <4> QED
        <5>1. deadline'[due[i]] = deadline[due[i]] /\ deadline'[t] = at
          BY <4>1, <3>2, <1>3
        <5>2. due[i] < t
          BY <4>1, <3>2, <1>1
        <5> QED
          BY <4>1, <5>1, <5>2, <1>1, <1>2
    <3> QED
      BY <3>1, <3>2, <1>4
  <2> QED
    BY <2>1, <2>2, <2>3, <2>4, <1>4 DEF SnapshotInOrder, Before
<1>8. NeverOversleeps' /\ (over' => entries' = {})
  BY <1>4 DEF NeverOversleeps
<1> QED
  BY <1>6, <1>7, <1>8 DEF SchedulerInv

\* Timers go, one or several, and the fiber is told when one did.
TimersGo ==
    /\ entries' \subseteq entries
    /\ woken' = (run = "asleep") \/ (entries' = entries /\ woken' = woken)
    /\ UNCHANGED <<now, timers, deadline, run, until, due>>
    /\ over' \in BOOLEAN /\ (over' => over \/ entries' = {})

LEMMA GoingHolds ==
    ASSUME SchedulerInv, TimersGo
    PROVE  SchedulerInv'
<1>1. SchedulerTypeOK'
  BY DEF SchedulerInv, SchedulerTypeOK, TimersGo
<1>2. SnapshotInOrder'
  <2>1. ASSUME NEW i \in 1..Len(due), NEW j \in 1..Len(due), i < j
        PROVE  Before(due[i], due[j])'
    BY <2>1 DEF SchedulerInv, SnapshotInOrder, TimersGo, Before
  <2>2. ASSUME NEW i \in 1..Len(due), NEW t \in entries', \A j \in 1..Len(due) : due[j] # t
        PROVE  Before(due[i], t)'
    BY <2>2 DEF SchedulerInv, SnapshotInOrder, TimersGo, Before
  <2> QED
    BY <2>1, <2>2 DEF SchedulerInv, SnapshotInOrder, TimersGo, Before
<1>3. NeverOversleeps'
  <2> SUFFICES ASSUME run' = "asleep", ~woken', NEW t \in entries'
               PROVE  until' # Forever /\ until' <= deadline'[t]
    BY DEF NeverOversleeps
  <2>1. run = "asleep" /\ until' = until /\ deadline' = deadline /\ t \in entries
    BY DEF TimersGo
  <2>2. ~woken
    BY <2>1, Zenon DEF TimersGo
  <2> QED
    BY <2>1, <2>2 DEF SchedulerInv, NeverOversleeps
<1>4. over' => entries' = {}
  BY DEF SchedulerInv, TimersGo
<1> QED
  BY <1>1, <1>2, <1>3, <1>4 DEF SchedulerInv

LEMMA LookHolds ==
    ASSUME SchedulerInv, Look
    PROVE  SchedulerInv'
<1>1. due = <<>>
  BY DEF SchedulerInv, SnapshotInOrder, Look
<1>2. /\ until' \in Nat \cup {Forever}
      /\ \A t \in entries : until' # Forever /\ until' <= deadline[t]
  <2>1. CASE entries = {}
    BY <2>1 DEF Look
  <2>2. CASE entries # {}
    <3>1. PICK t \in entries : (\A s \in entries : deadline[t] <= deadline[s]) /\ until' = deadline[t]
      BY <2>2 DEF Look
    <3>2. deadline[t] \in Nat
      BY DeadlinesAre DEF SchedulerInv, SchedulerTypeOK
    <3> QED
      BY <3>1, <3>2 DEF Forever
  <2> QED
    BY <2>1, <2>2
<1>3. SchedulerTypeOK'
  BY <1>2 DEF SchedulerInv, SchedulerTypeOK, Look
<1>4. SnapshotInOrder'
  BY <1>1 DEF SchedulerInv, SnapshotInOrder, Look
<1>5. NeverOversleeps' /\ (over' => entries' = {})
  BY <1>2 DEF SchedulerInv, NeverOversleeps, Look
<1> QED
  BY <1>3, <1>4, <1>5 DEF SchedulerInv

LEMMA SnapshotHolds ==
    ASSUME SchedulerInv, Snapshot
    PROVE  SchedulerInv'
<1>1. PICK order \in Snapshots : InOrder(order) /\ due' = order
  BY DEF Snapshot
<1>2. PICK n \in 0..Cardinality(entries) : order \in [1..n -> entries]
  BY DEF Snapshots
<1>3. timers \in Nat /\ now \in Nat /\ entries \subseteq 1..timers
  BY DEF SchedulerInv, SchedulerTypeOK
<1>4. Cardinality(entries) \in Nat
  <2>1. IsFiniteSet(1..timers)
    BY <1>3, FS_Interval
  <2> QED
    BY <2>1, <1>3, FS_Subset, FS_CardinalityType
<1>5. n \in Nat /\ order \in Seq(1..timers) /\ Len(order) = n
  <2>1. n \in Nat
    BY <1>4
  <2>2. order \in [1..n -> 1..timers]
    BY <1>2, <1>3
  <2> QED
    BY <2>1, <2>2, FunctionIsSeq
<1>6. run' = "firing" /\ now' = now /\ deadline' = deadline /\ entries' = entries /\ over' = over
      /\ timers' = timers /\ until' = until /\ woken' = woken
  BY DEF Snapshot
<1>7. SchedulerTypeOK'
  BY <1>1, <1>5, <1>6 DEF SchedulerInv, SchedulerTypeOK
<1>8. ASSUME NEW i \in 1..Len(order), NEW t \in entries, \A j \in 1..Len(order) : order[j] # t
      PROVE  Before(order[i], t)
  <2>1. order[i] \in entries /\ deadline[order[i]] <= now
    BY <1>1 DEF InOrder
  <2>2. ~(deadline[t] <= now)
    BY <1>1, <1>8 DEF InOrder
  <2>3. deadline[t] \in Nat /\ deadline[order[i]] \in Nat
    BY <2>1, <1>3, DeadlinesAre DEF SchedulerInv
  <2> QED
    BY <2>1, <2>2, <2>3, <1>3 DEF Before
<1>9. SnapshotInOrder'
  <2>1. \A i \in 1..Len(order) : deadline[order[i]] <= now
    BY <1>1 DEF InOrder
  <2>2. \A i, j \in 1..Len(order) : i < j => Before(order[i], order[j])
    BY <1>1 DEF InOrder
  <2> QED
    BY <2>1, <2>2, <1>1, <1>6, <1>8 DEF SnapshotInOrder, Before
<1>10. NeverOversleeps' /\ (over' => entries' = {})
  BY <1>6 DEF SchedulerInv, NeverOversleeps
<1> QED
  BY <1>7, <1>9, <1>10 DEF SchedulerInv

\* The first timer of the snapshot leaves it, and the entries if it was still set.
LEMMA NextHolds ==
    ASSUME SchedulerInv, Skip \/ \E t \in entries : Fire(t)
    PROVE  SchedulerInv'
<1>1. /\ run = "firing" /\ due # <<>> /\ due' = Tail(due)
      /\ entries' = entries \ {Head(due)}
      /\ now' = now /\ timers' = timers /\ deadline' = deadline /\ over' = over /\ run' = run
      /\ until' = until /\ woken' = woken
  BY DEF Skip, Fire
<1>2. due \in Seq(1..timers)
  BY DEF SchedulerInv, SchedulerTypeOK
<1>3. /\ due' \in Seq(1..timers) /\ Len(due') = Len(due) - 1 /\ Len(due) >= 1 /\ Len(due) \in Nat
      /\ \A i \in 1..(Len(due) - 1) : due'[i] = due[i + 1]
      /\ Head(due) = due[1]
  BY <1>1, <1>2, TailIs
<1>4. SchedulerTypeOK'
  BY <1>1, <1>3 DEF SchedulerInv, SchedulerTypeOK
<1>5. \A i \in 1..Len(due') : i + 1 \in 1..Len(due) /\ due'[i] = due[i + 1]
  BY <1>3
<1>6. SnapshotInOrder'
  <2>1. \A i \in 1..Len(due') : deadline[due'[i]] <= now
    BY <1>5 DEF SchedulerInv, SnapshotInOrder
  <2>2. ASSUME NEW i \in 1..Len(due'), NEW j \in 1..Len(due'), i < j
        PROVE  Before(due'[i], due'[j])
    <3>1. i + 1 < j + 1
      BY <2>2, <1>3
    <3> QED
      BY <3>1, <1>5 DEF SchedulerInv, SnapshotInOrder
  <2>3. ASSUME NEW i \in 1..Len(due'), NEW t \in entries', \A j \in 1..Len(due') : due'[j] # t
        PROVE  Before(due'[i], t)
    <3>1. ASSUME NEW j \in 1..Len(due)
          PROVE  due[j] # t
      <4>1. CASE j = 1
        BY <4>1, <1>1, <1>3, <2>3
      <4>2. CASE j # 1
        <5>1. j - 1 \in 1..Len(due') /\ due'[j - 1] = due[j]
          BY <4>2, <1>3
        <5> QED
          BY <5>1, <2>3
      <4> QED
        BY <4>1, <4>2
    <3>2. t \in entries
      BY <1>1
    <3> QED
      BY <3>1, <3>2, <1>5 DEF SchedulerInv, SnapshotInOrder
  <2> QED
    BY <2>1, <2>2, <2>3, <1>1 DEF SnapshotInOrder, Before
<1>7. NeverOversleeps' /\ (over' => entries' = {})
  BY <1>1 DEF SchedulerInv, NeverOversleeps
<1> QED
  BY <1>4, <1>6, <1>7 DEF SchedulerInv

\* The fiber turns to its next round, or the clock moves.
LEMMA TurnHolds ==
    ASSUME SchedulerInv, LookAgain \/ Fired \/ Tick
    PROVE  SchedulerInv'
<1>1. /\ now' \in Nat /\ now' >= now
      /\ timers' = timers /\ deadline' = deadline /\ entries' = entries /\ over' = over
      /\ until' = until /\ woken' = woken /\ due' = due
      /\ run' \in {"looking", "asleep", "firing", "done"}
      /\ run' = run \/ (run' = "looking" /\ due = <<>>)
  BY DEF SchedulerInv, SchedulerTypeOK, SnapshotInOrder, LookAgain, Fired, Tick
<1>2. SchedulerTypeOK'
  BY <1>1 DEF SchedulerInv, SchedulerTypeOK
<1>3. ASSUME NEW i \in 1..Len(due)
      PROVE  deadline[due[i]] <= now'
  <2>1. deadline[due[i]] \in Nat /\ deadline[due[i]] <= now /\ now \in Nat
    BY DeadlinesAre, ItemsIn DEF SchedulerInv, SchedulerTypeOK, SnapshotInOrder
  <2> QED
    BY <2>1, <1>1
<1>4. SnapshotInOrder'
  BY <1>1, <1>3 DEF SchedulerInv, SnapshotInOrder, Before
<1>5. NeverOversleeps' /\ (over' => entries' = {})
  BY <1>1 DEF SchedulerInv, NeverOversleeps
<1> QED
  BY <1>2, <1>4, <1>5 DEF SchedulerInv

LEMMA UnchangedHolds ==
    ASSUME SchedulerInv, UNCHANGED schedulerVars
    PROVE  SchedulerInv'
<1>1. TimersGo
  BY DEF schedulerVars, TimersGo, SchedulerInv, SchedulerTypeOK
<1> QED
  BY <1>1, GoingHolds

\* Every step of the scheduler, and one that clears several timers together
LEMMA StepHolds ==
    ASSUME SchedulerInv, [SchedulerNext \/ TimersGo]_schedulerVars
    PROVE  SchedulerInv'
<1>1. CASE \E d \in Delays : Set(d)
  BY <1>1, SetHolds
<1>2. CASE (\E t \in entries : Clear(t)) \/ CloseScheduler
  <2>1. TimersGo
    BY <1>2 DEF Clear, CloseScheduler, Signal, TimersGo, SchedulerInv, SchedulerTypeOK
  <2> QED
    BY <2>1, GoingHolds
<1>3. CASE FiberSteps
  BY <1>3, LookHolds, SnapshotHolds, NextHolds, TurnHolds DEF FiberSteps
<1>4. CASE Tick
  BY <1>4, TurnHolds
<1>5. CASE TimersGo
  BY <1>5, GoingHolds
<1>6. CASE UNCHANGED schedulerVars
  BY <1>6, UnchangedHolds
<1> QED
  BY <1>1, <1>2, <1>3, <1>4, <1>5, <1>6 DEF SchedulerNext

LEMMA InvGivesOrder == SchedulerInv => FiresInOrder
<1> SUFFICES ASSUME SchedulerInv, run = "firing", due # <<>>, Head(due) \in entries,
                    NEW t \in entries \ {Head(due)}
             PROVE  deadline[Head(due)] <= now /\ Before(Head(due), t)
  <2>1. ASSUME SchedulerInv, run = "firing", due # <<>>
        PROVE  deadline[Head(due)] <= now
    BY <2>1, TailIs DEF SchedulerInv, SchedulerTypeOK, SnapshotInOrder
  <2> QED
    BY <2>1 DEF FiresInOrder
<1>1. Len(due) \in Nat /\ 1 \in 1..Len(due) /\ Head(due) = due[1]
  BY TailIs, ItemsIn DEF SchedulerInv, SchedulerTypeOK
<1>2. CASE \E j \in 1..Len(due) : due[j] = t
  <2>1. PICK j \in 1..Len(due) : due[j] = t
    BY <1>2
  <2>2. 1 < j
    BY <2>1, <1>1
  <2> QED
    BY <2>1, <2>2, <1>1 DEF SchedulerInv, SnapshotInOrder
<1>3. CASE \A j \in 1..Len(due) : due[j] # t
  BY <1>3, <1>1 DEF SchedulerInv, SnapshotInOrder
<1> QED
  BY <1>1, <1>2, <1>3 DEF SchedulerInv, SnapshotInOrder

-----------------------------------------------------------------------------

LEMMA Inductive == SchedulerSpec => []SchedulerInv
<1>1. SchedulerInv /\ [SchedulerNext]_schedulerVars => SchedulerInv'
  BY StepHolds
<1> QED
  BY SchedulerInitHolds, <1>1, PTL DEF SchedulerSpec

\* The timer the fiber fires next was due before every other that is set (logical-scheduler.ts:82-111),
\* for all delays and however owners set and clear timers between two callbacks.
THEOREM TimersFireInOrder == SchedulerSpec => []FiresInOrder
BY Inductive, InvGivesOrder, PTL

\* The fiber never sleeps past the deadline of a timer that is set (logical-scheduler.ts:65-80).
THEOREM SleepsNoLonger == SchedulerSpec => []NeverOversleeps
<1>1. SchedulerInv => NeverOversleeps
  BY DEF SchedulerInv
<1> QED
  BY Inductive, <1>1, PTL

-----------------------------------------------------------------------------
(* The tasks and their timers *)

\* What is recorded of tasks cut short: before stop, those the drain ended; after it, all of them.
TasksInv ==
    /\ TasksTypeOK
    /\ \A t \in Tasks : task[t] \in {"new", "waiting"} => t \notin closedTasks
    /\ ~stopped => /\ endedTasks = Cardinality(cut)
                   /\ \A t \in cut : task[t] = "over"
                   /\ \A t \in Tasks : task[t] # "stopping"
    /\ stopped => /\ closing /\ recorded = Cardinality(cut)
                  /\ \A t \in Tasks : task[t] \notin {"waiting", "running"}

\* Which timer belongs to whom
Owned ==
    /\ timerOf \in [Tasks -> 0..timers] /\ foreign \subseteq 1..timers
    /\ \A s, t \in Tasks : timerOf[s] = timerOf[t] /\ timerOf[s] # 0 => s = t
    /\ \A t \in Tasks : timerOf[t] \notin foreign
    /\ \A t \in Tasks : ~over => (task[t] = "waiting" <=> timerOf[t] \in entries)
    /\ \A s \in entries : s \in foreign \/ \E t \in Tasks : timerOf[t] = s

TimersInv == SchedulerInv /\ TasksInv /\ Owned

-----------------------------------------------------------------------------
(* Tasks *)

LEMMA CutIsFinite ==
    ASSUME TasksTypeOK
    PROVE  /\ IsFiniteSet(cut) /\ Cardinality(cut) \in Nat
           /\ \A t \in Tasks \ cut : Cardinality(cut \cup {t}) = Cardinality(cut) + 1
<1>1. IsFiniteSet(cut)
  BY TasksAssumption, FS_Subset DEF TasksTypeOK
<1> QED
  BY <1>1, FS_CardinalityType, FS_AddElement

LEMMA TasksInitHolds == TasksInit => TasksInv
<1> SUFFICES ASSUME TasksInit
             PROVE  TasksInv
  OBVIOUS
<1>1. cut = {} /\ Cardinality(cut) = 0
  BY FS_EmptySet DEF TasksInit
<1>2. closing = FALSE /\ stopped = FALSE /\ tasksAwaited = FALSE
  BY DEF TasksInit
<1>3. closing \in BOOLEAN /\ stopped \in BOOLEAN /\ tasksAwaited \in BOOLEAN /\ ~stopped
  BY <1>2
<1>4. /\ task \in [Tasks -> {"new", "waiting", "running", "stopping", "over"}]
      /\ \A t \in Tasks : task[t] = "new"
      /\ closedTasks = {} /\ endedTasks = 0 /\ recorded = 0
  BY DEF TasksInit
<1> QED
  BY <1>1, <1>3, <1>4 DEF TasksInv, TasksTypeOK

LEMMA StartHolds ==
    ASSUME TasksInv, NEW t \in Tasks, StartTask(t)
    PROVE  TasksInv'
<1>1. TasksTypeOK'
  BY DEF TasksInv, TasksTypeOK, StartTask
<1>2. t \notin closedTasks /\ ~stopped /\ task[t] = "new"
  BY DEF TasksInv, StartTask
<1> QED
  BY <1>1, <1>2 DEF TasksInv, TasksTypeOK, StartTask

LEMMA EarlyEndHolds ==
    ASSUME TasksInv, NEW t \in Tasks, task[t] \in {"waiting", "running"}, EndsEarly(t),
           UNCHANGED <<closedTasks, closing, stopped, recorded>>, tasksAwaited' \in BOOLEAN
    PROVE  TasksInv'
<1>1. ~stopped /\ t \notin cut
  BY DEF TasksInv
<1>2. endedTasks' = Cardinality(cut')
  BY <1>1, CutIsFinite DEF TasksInv, EndsEarly
<1>3. TasksTypeOK'
  BY DEF TasksInv, TasksTypeOK, EndsEarly
<1> QED
  BY <1>1, <1>2, <1>3 DEF TasksInv, TasksTypeOK, EndsEarly

LEMMA DueHolds ==
    ASSUME TasksInv, NEW t \in Tasks, TaskDue(t)
    PROVE  TasksInv'
<1>1. CASE closing
  BY <1>1, EarlyEndHolds DEF TaskDue, TasksInv, TasksTypeOK
<1>2. CASE ~closing
  <2>1. TasksTypeOK'
    BY <1>2 DEF TasksInv, TasksTypeOK, TaskDue
  <2> QED
    BY <2>1, <1>2 DEF TasksInv, TasksTypeOK, TaskDue
<1> QED
  BY <1>1, <1>2

LEMMA RunEndHolds ==
    ASSUME TasksInv, NEW t \in Tasks, RunEnds(t)
    PROVE  TasksInv'
<1>1. CASE Repeats(t) /\ closing
  BY <1>1, EarlyEndHolds DEF RunEnds, Repeats, TasksInv, TasksTypeOK
<1>2. CASE ~(Repeats(t) /\ closing)
  <2>1. TasksTypeOK'
    BY <1>2 DEF TasksInv, TasksTypeOK, RunEnds
  <2> QED
    BY <2>1, <1>2 DEF TasksInv, TasksTypeOK, RunEnds, Repeats, TasksRunning
<1> QED
  BY <1>1, <1>2

LEMMA CloseHolds ==
    ASSUME TasksInv, NEW t \in Tasks, CloseTask(t)
    PROVE  TasksInv'
<1>1. TasksTypeOK'
  BY DEF TasksInv, TasksTypeOK, CloseTask
<1> QED
  BY <1>1 DEF TasksInv, TasksTypeOK, CloseTask

LEMMA SealHolds ==
    ASSUME TasksInv, closing' \in BOOLEAN, closing => closing', tasksAwaited' \in BOOLEAN,
           UNCHANGED <<task, closedTasks, stopped, endedTasks, recorded, cut>>
    PROVE  TasksInv'
<1>1. TasksTypeOK'
  BY DEF TasksInv, TasksTypeOK
<1> QED
  BY <1>1 DEF TasksInv

LEMMA StopHolds ==
    ASSUME TasksInv, StopTasks
    PROVE  TasksInv'
<1> DEFINE alive == {t \in Tasks : task[t] = "waiting"} \cup TasksRunning
           cancelled == {t \in alive : t \in TasksRunning \/ t \notin closedTasks}
<1>1. ~stopped /\ stopped' /\ closing'
  BY DEF StopTasks
<1>2. cancelled = alive
  BY DEF TasksInv, TasksRunning
<1>3. recorded' = endedTasks + Cardinality(alive)
  BY <1>2 DEF StopTasks
<1>4. cut' = cut \cup alive /\ cut \cap alive = {} /\ alive \subseteq Tasks
  BY <1>1 DEF StopTasks, TasksInv, TasksRunning
<1> HIDE DEF alive
<1>5. IsFiniteSet(cut) /\ IsFiniteSet(alive) /\ Cardinality(alive) \in Nat
  BY <1>4, CutIsFinite, TasksAssumption, FS_Subset, FS_CardinalityType DEF TasksInv
<1>6. Cardinality(cut \cup alive) = Cardinality(cut) + Cardinality(alive)
  <2>1. Cardinality(cut \cap alive) = 0
    BY <1>4, FS_EmptySet
  <2>2. Cardinality(cut) \in Nat
    BY <1>5, FS_CardinalityType
  <2>3. Cardinality(cut \cup alive) = Cardinality(cut) + Cardinality(alive) - Cardinality(cut \cap alive)
    BY <1>5, FS_Union, Zenon
  <2> QED
    BY <2>1, <2>2, <2>3, <1>5
<1>7. recorded' = Cardinality(cut') /\ recorded' \in Nat
  BY <1>1, <1>3, <1>4, <1>5, <1>6 DEF TasksInv, TasksTypeOK
<1>8. /\ \A t \in Tasks : task'[t] \in {"new", "stopping", "over"}
      /\ \A t \in Tasks : task'[t] = "new" => task[t] = "new"
      /\ closedTasks' = closedTasks
  BY <1>1 DEF StopTasks, TasksInv, TasksTypeOK
<1>9. TasksTypeOK'
  <2>1. task' \in [Tasks -> {"new", "waiting", "running", "stopping", "over"}]
    BY DEF StopTasks, TasksInv, TasksTypeOK
  <2>2. stopped' \in BOOLEAN /\ closing' \in BOOLEAN
    BY Zenon DEF StopTasks
  <2> QED
    BY <2>1, <2>2, <1>4, <1>7 DEF StopTasks, TasksInv, TasksTypeOK
<1> QED
  BY <1>1, <1>7, <1>8, <1>9 DEF TasksInv

-----------------------------------------------------------------------------
(* Timers *)

LEMMA TimersInitHolds == TimersInit => TimersInv
<1> SUFFICES ASSUME TimersInit
             PROVE  TimersInv
  OBVIOUS
<1>1. SchedulerInv /\ TasksInv
  BY SchedulerInitHolds, TasksInitHolds DEF TimersInit
<1>2. /\ timerOf = [t \in Tasks |-> 0] /\ timers = 0 /\ foreign = {} /\ entries = {}
      /\ \A t \in Tasks : task[t] = "new"
  BY DEF TimersInit, SchedulerInit, TasksInit
<1> QED
  BY <1>1, <1>2 DEF TimersInv, Owned

\* A timer set for a task that begins to wait
LEMMA SetOwned ==
    ASSUME TimersInv, NEW t \in Tasks, NEW d \in Delays, SetFor(t, d), task[t] # "waiting",
           \A s \in Tasks : s # t => task'[s] = task[s], task'[t] = "waiting", UNCHANGED foreign
    PROVE  SchedulerInv' /\ Owned'
<1>1. CASE over
  <2>1. UNCHANGED <<schedulerVars, timerOf>>
    BY <1>1 DEF SetFor
  <2> QED
    BY <1>1, <2>1, UnchangedHolds DEF TimersInv, Owned, schedulerVars
<1>2. CASE ~over
  <2>1. Set(d) /\ timerOf' = [timerOf EXCEPT ![t] = timers + 1]
    BY <1>2 DEF SetFor
  <2>2. /\ timers \in Nat /\ timers' = timers + 1 /\ entries' = entries \cup {timers + 1}
        /\ entries \subseteq 1..timers /\ over' = over
    BY <2>1 DEF Set, TimersInv, SchedulerInv, SchedulerTypeOK
  <2>3. SchedulerInv'
    BY <2>1, SetHolds DEF TimersInv
  <2>4. /\ timerOf' \in [Tasks -> 0..timers'] /\ foreign' \subseteq 1..timers'
        /\ timerOf'[t] = timers + 1 /\ \A s \in Tasks : s # t => timerOf'[s] = timerOf[s]
        /\ \A s \in Tasks : timerOf[s] \in 0..timers
        /\ timers + 1 \notin foreign /\ \A s \in Tasks : timerOf[s] # timers + 1
    BY <2>1, <2>2 DEF TimersInv, Owned
  <2>5. timerOf[t] \notin entries
    BY <1>2 DEF TimersInv, Owned
  <2>6. \A r, s \in Tasks : timerOf'[r] = timerOf'[s] /\ timerOf'[r] # 0 => r = s
    BY <2>4 DEF TimersInv, Owned
  <2>7. \A s \in Tasks : timerOf'[s] \notin foreign'
    BY <2>4 DEF TimersInv, Owned
  <2>8. \A s \in Tasks : task'[s] = "waiting" <=> timerOf'[s] \in entries'
    BY <1>2, <2>2, <2>4 DEF TimersInv, Owned
  <2>9. \A s \in entries' : s \in foreign' \/ \E r \in Tasks : timerOf'[r] = s
    BY <2>2, <2>4, <2>5 DEF TimersInv, Owned
  <2> QED
    BY <2>3, <2>4, <2>6, <2>7, <2>8, <2>9 DEF Owned
<1> QED
  BY <1>1, <1>2

\* The timers of interrupted waits are cleared.
LEMMA ClearOwned ==
    ASSUME TimersInv, NEW tasks \in SUBSET Tasks, ClearFor(tasks),
           \A t \in tasks : task[t] = "waiting" /\ task'[t] # "waiting",
           \A t \in Tasks \ tasks : task'[t] = "waiting" <=> task[t] = "waiting",
           UNCHANGED foreign
    PROVE  SchedulerInv' /\ Owned'
<1> DEFINE theirs == {timerOf[t] : t \in tasks} \cap entries
<1>1. /\ entries' = entries \ theirs
      /\ timerOf' = [t \in Tasks |-> IF t \in tasks THEN 0 ELSE timerOf[t]]
      /\ timers' = timers /\ over' = over
  BY DEF ClearFor
<1>2. TimersGo
  <2>1. woken' = (run = "asleep") \/ (entries' = entries /\ woken' = woken)
    BY <1>1 DEF ClearFor, Signal
  <2>2. over' \in BOOLEAN
    BY <1>1 DEF TimersInv, SchedulerInv, SchedulerTypeOK
  <2> QED
    BY <1>1, <2>1, <2>2 DEF ClearFor, TimersGo
<1>3. SchedulerInv'
  BY <1>2, GoingHolds DEF TimersInv
<1>4. entries \subseteq 1..timers /\ timers \in Nat
  BY DEF TimersInv, SchedulerInv, SchedulerTypeOK
<1>5. /\ \A t \in tasks : timerOf'[t] = 0
      /\ \A t \in Tasks \ tasks : timerOf'[t] = timerOf[t]
      /\ timerOf' \in [Tasks -> 0..timers] /\ 0 \notin entries /\ 0 \notin foreign
  BY <1>1, <1>4 DEF TimersInv, Owned
<1>6. \A r, s \in Tasks : timerOf'[r] = timerOf'[s] /\ timerOf'[r] # 0 => r = s
  BY <1>5 DEF TimersInv, Owned
<1>7. \A s \in Tasks : timerOf'[s] \notin foreign'
  BY <1>5 DEF TimersInv, Owned
<1>8. ASSUME NEW s \in Tasks, ~over
      PROVE  task'[s] = "waiting" <=> timerOf'[s] \in entries'
  <2>1. CASE s \in tasks
    BY <2>1, <1>1, <1>5
  <2>2. CASE s \notin tasks
    <3>1. timerOf[s] \in entries => timerOf[s] \notin theirs
      BY <2>2, <1>5 DEF TimersInv, Owned
    <3> QED
      BY <3>1, <2>2, <1>1, <1>5, <1>8 DEF TimersInv, Owned
  <2> QED
    BY <2>1, <2>2
<1>9. ASSUME NEW s \in entries'
      PROVE  s \in foreign' \/ \E r \in Tasks : timerOf'[r] = s
  <2>1. s \in entries /\ s \notin theirs
    BY <1>1, <1>9
  <2>2. CASE s \in foreign
    BY <2>2
  <2>3. CASE s \notin foreign
    <3>1. PICK r \in Tasks : timerOf[r] = s
      BY <2>1, <2>3 DEF TimersInv, Owned
    <3>2. r \notin tasks
      BY <3>1, <2>1
    <3> QED
      BY <3>1, <3>2, <1>5
  <2> QED
    BY <2>2, <2>3
<1> QED
  BY <1>1, <1>3, <1>5, <1>6, <1>7, <1>8, <1>9 DEF TimersInv, Owned

LEMMA FiringHolds ==
    ASSUME TimersInv, NEW s \in entries, TimerFires(s)
    PROVE  TimersInv'
<1>1. Fire(s) /\ foreign' = foreign \ {s}
  BY DEF TimerFires
<1>2. SchedulerInv'
  BY <1>1, NextHolds DEF TimersInv
<1>3. entries' = entries \ {s} /\ over' = over /\ timers' = timers
  BY <1>1 DEF Fire
<1>4. timers \in Nat /\ entries \subseteq 1..timers /\ (over => entries = {})
  BY DEF TimersInv, SchedulerInv, SchedulerTypeOK
<1>5. CASE s \in foreign
  <2>1. UNCHANGED <<taskVars, timerOf>>
    BY <1>5 DEF TimerFires
  <2>2. TasksInv'
    BY <2>1, SealHolds DEF taskVars, TimersInv, TasksInv, TasksTypeOK
  <2>3. \A t \in Tasks : timerOf[t] # s
    BY <1>5 DEF TimersInv, Owned
  <2>4. Owned'
    BY <2>1, <2>3, <1>1, <1>3 DEF TimersInv, Owned, taskVars
  <2> QED
    BY <2>2, <2>4, <1>2 DEF TimersInv
<1>6. CASE s \notin foreign
  <2>1. PICK t \in Tasks : /\ timerOf[t] = s /\ TaskDue(t)
                           /\ timerOf' = [timerOf EXCEPT ![t] = 0]
    BY <1>6 DEF TimerFires
  <2>2. TasksInv'
    BY <2>1, DueHolds DEF TimersInv
  <2>3. /\ timerOf'[t] = 0 /\ \A r \in Tasks : r # t => timerOf'[r] = timerOf[r]
        /\ timerOf' \in [Tasks -> 0..timers] /\ foreign' = foreign /\ 0 \notin foreign
        /\ 0 \notin entries /\ s # 0
    BY <2>1, <1>1, <1>4, <1>6 DEF TimersInv, Owned
  <2>4. task'[t] # "waiting" /\ \A r \in Tasks : r # t => task'[r] = task[r]
    BY <2>1 DEF TaskDue, EndsEarly, TimersInv, TasksInv, TasksTypeOK
  <2>5. \A r \in Tasks : r # t => timerOf[r] # s
    BY <2>1, <2>3 DEF TimersInv, Owned
  <2>6. \A q, r \in Tasks : timerOf'[q] = timerOf'[r] /\ timerOf'[q] # 0 => q = r
    BY <2>3 DEF TimersInv, Owned
  <2>7. \A r \in Tasks : timerOf'[r] \notin foreign'
    BY <2>3 DEF TimersInv, Owned
  <2>8. \A r \in Tasks : ~over => (task'[r] = "waiting" <=> timerOf'[r] \in entries')
    BY <2>3, <2>4, <2>5, <1>3 DEF TimersInv, Owned
  <2>9. \A q \in entries' : q \in foreign' \/ \E r \in Tasks : timerOf'[r] = q
    BY <2>1, <2>3, <1>3 DEF TimersInv, Owned
  <2> QED
    BY <1>2, <1>3, <2>2, <2>3, <2>6, <2>7, <2>8, <2>9 DEF TimersInv, Owned
<1> QED
  BY <1>5, <1>6

LEMMA ForeignSetHolds ==
    ASSUME TimersInv, NEW d \in Delays, ForeignSet(d)
    PROVE  TimersInv'
<1>1. Set(d) /\ foreign' = foreign \cup {timers + 1} /\ UNCHANGED <<taskVars, timerOf>>
  BY DEF ForeignSet
<1>2. SchedulerInv'
  BY <1>1, SetHolds DEF TimersInv
<1>3. TasksInv'
  BY <1>1, SealHolds DEF taskVars, TimersInv, TasksInv, TasksTypeOK
<1>4. /\ timers \in Nat /\ timers' = timers + 1 /\ entries' = entries \cup {timers + 1}
      /\ over' = over /\ ~over
  BY <1>1 DEF Set, TimersInv, SchedulerInv, SchedulerTypeOK
<1>5. timerOf' \in [Tasks -> 0..timers'] /\ \A t \in Tasks : timerOf[t] # timers + 1
  BY <1>1, <1>4 DEF TimersInv, Owned
<1>6. foreign' \subseteq 1..timers'
  BY <1>1, <1>4 DEF TimersInv, Owned
<1>7. Owned'
  BY <1>1, <1>4, <1>5, <1>6 DEF TimersInv, Owned, taskVars
<1> QED
  BY <1>2, <1>3, <1>7 DEF TimersInv

LEMMA ForeignGoesHolds ==
    ASSUME TimersInv, UNCHANGED <<taskVars, timerOf>>,
           (\E s \in foreign : ForeignCleared(s)) \/ SchedulerClosed
    PROVE  TimersInv'
<1>1. TasksInv'
  BY SealHolds DEF taskVars, TimersInv, TasksInv, TasksTypeOK
<1>2. CASE \E s \in foreign : ForeignCleared(s)
  <2>1. PICK s \in foreign : Clear(s) /\ foreign' = foreign \ {s}
    BY <1>2 DEF ForeignCleared
  <2>2. TimersGo
    BY <2>1 DEF Clear, Signal, TimersGo, TimersInv, SchedulerInv, SchedulerTypeOK
  <2>3. entries' = entries \ {s} /\ over' = over /\ timers' = timers
    BY <2>1 DEF Clear
  <2>4. \A t \in Tasks : timerOf[t] # s
    BY DEF TimersInv, Owned
  <2>5. Owned'
    BY <2>1, <2>3, <2>4 DEF TimersInv, Owned, taskVars
  <2> QED
    BY <1>1, <2>2, <2>5, GoingHolds DEF TimersInv
<1>3. CASE SchedulerClosed
  <2>1. CloseScheduler /\ foreign' = {}
    BY <1>3 DEF SchedulerClosed
  <2>2. TimersGo
    BY <2>1 DEF CloseScheduler, Signal, TimersGo, TimersInv, SchedulerInv, SchedulerTypeOK
  <2>3. entries' = {} /\ over' /\ timers' = timers
    BY <2>1 DEF CloseScheduler
  <2>4. Owned'
    BY <2>1, <2>3 DEF TimersInv, Owned, taskVars
  <2> QED
    BY <1>1, <2>2, <2>4, GoingHolds DEF TimersInv
<1> QED
  BY <1>2, <1>3

\* The fiber turns, the clock moves, or nothing happens: no timer goes and no task moves.
LEMMA StillHolds ==
    ASSUME TimersInv, SchedulerInv', UNCHANGED <<taskVars, timerOf, foreign>>,
           UNCHANGED <<timers, entries, over>>
    PROVE  TimersInv'
<1>1. TasksInv'
  BY SealHolds DEF taskVars, TimersInv, TasksInv, TasksTypeOK
<1>2. Owned'
  BY DEF TimersInv, Owned, taskVars
<1> QED
  BY <1>1, <1>2 DEF TimersInv

LEMMA FiberHolds ==
    ASSUME TimersInv, FiberRuns
    PROVE  TimersInv'
<1>1. CASE \E s \in entries : TimerFires(s)
  BY <1>1, FiringHolds
<1>2. CASE /\ Look \/ LookAgain \/ Snapshot \/ Skip \/ Fired
           /\ UNCHANGED <<taskVars, timerOf, foreign>>
  <2>1. UNCHANGED <<timers, entries, over>>
    BY <1>2 DEF Look, LookAgain, Snapshot, Skip, Fired
  <2>2. SchedulerInv'
    BY <1>2, LookHolds, SnapshotHolds, NextHolds, TurnHolds DEF TimersInv
  <2> QED
    BY <1>2, <2>1, <2>2, StillHolds
<1> QED
  BY <1>1, <1>2 DEF FiberRuns

LEMMA TaskStepHolds ==
    ASSUME TimersInv, NEW t \in Tasks, NEW d \in Delays,
           Schedule(t, d) \/ RunEnded(t, d)
    PROVE  TimersInv'
<1>1. CASE Schedule(t, d)
  <2>1. TasksInv'
    BY <1>1, StartHolds DEF Schedule, TimersInv
  <2>2. task[t] # "waiting" /\ task'[t] = "waiting" /\ \A s \in Tasks : s # t => task'[s] = task[s]
    BY <1>1 DEF Schedule, StartTask, TimersInv, TasksInv, TasksTypeOK
  <2> QED
    BY <1>1, <2>1, <2>2, SetOwned DEF Schedule, TimersInv
<1>2. CASE RunEnded(t, d)
  <2>1. TasksInv'
    BY <1>2, RunEndHolds DEF RunEnded, TimersInv
  <2>2. task[t] # "waiting" /\ \A s \in Tasks : s # t => task'[s] = task[s]
    BY <1>2 DEF RunEnded, RunEnds, EndsEarly, TasksRunning, TimersInv, TasksInv, TasksTypeOK
  <2>3. CASE task'[t] = "waiting"
    BY <1>2, <2>1, <2>2, <2>3, SetOwned DEF RunEnded, TimersInv
  <2>4. CASE task'[t] # "waiting"
    <3>1. UNCHANGED <<schedulerVars, timerOf, foreign>>
      BY <1>2, <2>4 DEF RunEnded
    <3>2. SchedulerInv'
      BY <3>1, UnchangedHolds DEF TimersInv
    <3>3. Owned'
      BY <2>2, <2>4, <3>1 DEF TimersInv, Owned, schedulerVars
    <3> QED
      BY <2>1, <3>2, <3>3 DEF TimersInv
  <2> QED
    BY <2>3, <2>4
<1> QED
  BY <1>1, <1>2

LEMMA ClosingHolds ==
    ASSUME TimersInv, NEW t \in Tasks, TaskClosed(t)
    PROVE  TimersInv'
<1>1. TasksInv'
  BY CloseHolds DEF TaskClosed, TimersInv
<1>2. CASE task[t] = "waiting"
  <2>1. task'[t] # "waiting" /\ \A s \in Tasks : s # t => task'[s] = task[s]
    BY <1>2 DEF TaskClosed, CloseTask, TimersInv, TasksInv, TasksTypeOK
  <2>2. ClearFor({t}) /\ UNCHANGED foreign
    BY <1>2 DEF TaskClosed
  <2>3. SchedulerInv' /\ Owned'
    BY <1>2, <2>1, <2>2, ClearOwned
  <2> QED
    BY <1>1, <2>3 DEF TimersInv
<1>3. CASE task[t] # "waiting"
  <2>1. UNCHANGED <<schedulerVars, timerOf, foreign>> /\ task' = task
    BY <1>3 DEF TaskClosed, CloseTask
  <2>2. SchedulerInv'
    BY <2>1, UnchangedHolds DEF TimersInv
  <2>3. Owned'
    BY <2>1 DEF TimersInv, Owned, schedulerVars
  <2> QED
    BY <1>1, <2>2, <2>3 DEF TimersInv
<1> QED
  BY <1>2, <1>3

LEMMA StoppingHolds ==
    ASSUME TimersInv, TasksStopped \/ TasksSealed
    PROVE  TimersInv'
<1>1. CASE TasksStopped
  <2> DEFINE waits == {t \in Tasks : task[t] = "waiting"}
  <2>1. StopTasks /\ ClearFor(waits) /\ UNCHANGED foreign
    BY <1>1 DEF TasksStopped
  <2>2. TasksInv'
    BY <2>1, StopHolds DEF TimersInv
  <2>3. \A t \in Tasks : task'[t] # "waiting"
    BY <2>1 DEF StopTasks
  <2>4. waits \in SUBSET Tasks /\ \A t \in waits : task[t] = "waiting" /\ task'[t] # "waiting"
    BY <2>3
  <2>5. \A t \in Tasks \ waits : task'[t] = "waiting" <=> task[t] = "waiting"
    BY <2>3
  <2> HIDE DEF waits
  <2>6. SchedulerInv' /\ Owned'
    BY <2>1, <2>4, <2>5, ClearOwned
  <2> QED
    BY <2>2, <2>6 DEF TimersInv
<1>2. CASE TasksSealed
  <2>1. closing' = TRUE /\ UNCHANGED <<task, closedTasks, stopped, endedTasks, recorded, tasksAwaited,
                                       cut, schedulerVars, timerOf, foreign>>
    BY <1>2 DEF TasksSealed, SealTasks
  <2>2. TasksInv'
    BY <2>1, SealHolds DEF TimersInv, TasksInv, TasksTypeOK
  <2>3. SchedulerInv'
    BY <2>1, UnchangedHolds DEF TimersInv
  <2>4. Owned'
    BY <2>1 DEF TimersInv, Owned, schedulerVars
  <2> QED
    BY <2>2, <2>3, <2>4 DEF TimersInv
<1> QED
  BY <1>1, <1>2

LEMMA TimersStep == TimersInv /\ [TimersNext]_timerVars => TimersInv'
<1> SUFFICES ASSUME TimersInv, [TimersNext]_timerVars
             PROVE  TimersInv'
  OBVIOUS
<1>1. CASE \E t \in Tasks, d \in Delays : Schedule(t, d) \/ RunEnded(t, d)
  BY <1>1, TaskStepHolds
<1>2. CASE \E t \in Tasks : TaskClosed(t)
  BY <1>2, ClosingHolds
<1>3. CASE TasksStopped \/ TasksSealed
  BY <1>3, StoppingHolds
<1>4. CASE \E d \in Delays : ForeignSet(d)
  BY <1>4, ForeignSetHolds
<1>5. CASE (\E s \in foreign : ForeignCleared(s)) \/ SchedulerClosed
  BY <1>5, ForeignGoesHolds DEF ForeignCleared, SchedulerClosed
<1>6. CASE FiberRuns
  BY <1>6, FiberHolds
<1>7. CASE TimePasses
  <2>1. SchedulerInv' /\ UNCHANGED <<timers, entries, over>>
    BY <1>7, TurnHolds DEF TimePasses, Tick, TimersInv
  <2> QED
    BY <1>7, <2>1, StillHolds DEF TimePasses
<1>8. CASE UNCHANGED timerVars
  <2>1. SchedulerInv'
    BY <1>8, UnchangedHolds DEF timerVars, TimersInv
  <2> QED
    BY <1>8, <2>1, StillHolds DEF timerVars, schedulerVars
<1> QED
  BY <1>1, <1>2, <1>3, <1>4, <1>5, <1>6, <1>7, <1>8 DEF TimersNext

-----------------------------------------------------------------------------

LEMMA TimersInductive == TimersSpec => []TimersInv
BY TimersInitHolds, TimersStep, PTL DEF TimersSpec

\* A task waits exactly while the open scheduler holds its timer, no timer leaks, and stop's record
\* counts each task that lost a run once (scheduled-tasks.ts:126-131, 195-254), for any number of
\* tasks and timers.
THEOREM WaitsOwnTimers == TimersSpec => []TimersOwned
<1>1. TimersInv => TimersOwned
  BY DEF TimersInv, SchedulerInv, TasksInv, Owned, TimersOwned, NoneUnrecorded
<1> QED
  BY TimersInductive, <1>1, PTL

\* Timers fire in order also when a closure or stop clears several waits in one step.
THEOREM TaskTimersFireInOrder == TimersSpec => []FiresInOrder
<1>1. TimersInv => FiresInOrder
  BY InvGivesOrder DEF TimersInv
<1> QED
  BY TimersInductive, <1>1, PTL

=============================================================================
