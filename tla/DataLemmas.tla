---------------------------- MODULE DataLemmas ----------------------------
(***************************************************************************)
(* Lemmas about queues without duplicates, counting the members of a class, *)
(* induction and sums over finite sets.                                     *)
(***************************************************************************)
EXTENDS Integers, FiniteSets, Sequences, SequencesExt, SequenceTheorems, FiniteSetTheorems,
        WellFoundedInduction, TLAPS

LEMMA RemoveAtIs ==
    ASSUME NEW S, NEW s \in Seq(S), NEW i \in 1..Len(s)
    PROVE  /\ RemoveAt(s, i) \in Seq(S)
           /\ Len(RemoveAt(s, i)) = Len(s) - 1
           /\ \A j \in 1..(Len(s) - 1) : RemoveAt(s, i)[j] = IF j < i THEN s[j] ELSE s[j + 1]
<1> DEFINE a == SubSeq(s, 1, i - 1)
           b == SubSeq(s, i + 1, Len(s))
<1>1. /\ a \in Seq(S) /\ Len(a) = i - 1
      /\ \A j \in 1..(i - 1) : a[j] = s[j]
  OBVIOUS
<1>2. /\ b \in Seq(S) /\ Len(b) = Len(s) - i
      /\ \A j \in 1..(Len(s) - i) : b[j] = s[j + i]
  OBVIOUS
<1>3. RemoveAt(s, i) = a \o b
  BY DEF RemoveAt
<1>4. Len(s) \in Nat /\ i \in Nat /\ i >= 1 /\ i <= Len(s)
  OBVIOUS
<1> HIDE DEF a, b
<1>5. a \o b \in Seq(S) /\ Len(a \o b) = Len(a) + Len(b)
  BY <1>1, <1>2, ConcatProperties
<1>6. ASSUME NEW j \in 1..(Len(s) - 1)
      PROVE  (a \o b)[j] = IF j < i THEN s[j] ELSE s[j + 1]
  <2>1. CASE j < i
    <3>1. (a \o b)[j] = a[j]
      BY <2>1, <1>1, <1>2, <1>4, ConcatProperties
    <3> QED
      BY <3>1, <2>1, <1>1, <1>4
  <2>2. CASE ~(j < i)
    <3>1. (a \o b)[j] = b[j - (i - 1)]
      BY <2>2, <1>1, <1>2, <1>4, ConcatProperties
    <3>2. j - (i - 1) \in 1..(Len(s) - i) /\ (j - (i - 1)) + i = j + 1
      BY <2>2, <1>4
    <3>3. b[j - (i - 1)] = s[j + 1]
      BY <3>2, <1>2
    <3> QED
      BY <3>1, <3>3, <2>2
  <2> QED
    BY <2>1, <2>2
<1>7. Len(a \o b) = Len(s) - 1
  BY <1>1, <1>2, <1>4, <1>5
<1> QED
  BY <1>3, <1>5, <1>6, <1>7

LEMMA RemoveAtInjective ==
    ASSUME NEW S, NEW s \in Seq(S), NEW i \in 1..Len(s), IsInjective(s)
    PROVE  /\ IsInjective(RemoveAt(s, i))
           /\ Range(RemoveAt(s, i)) = Range(s) \ {s[i]}
<1> DEFINE t == RemoveAt(s, i)
<1>1. /\ t \in Seq(S) /\ Len(t) = Len(s) - 1
      /\ \A j \in 1..(Len(s) - 1) : t[j] = IF j < i THEN s[j] ELSE s[j + 1]
  BY RemoveAtIs
<1>2. DOMAIN t = 1..(Len(s) - 1) /\ DOMAIN s = 1..Len(s) /\ Len(s) \in Nat
  BY <1>1
<1> HIDE DEF t
<1>3. ASSUME NEW j \in 1..(Len(s) - 1), NEW k \in 1..(Len(s) - 1), t[j] = t[k]
      PROVE  j = k
  <2> DEFINE at(n) == IF n < i THEN n ELSE n + 1
  <2>1. t[j] = s[at(j)] /\ t[k] = s[at(k)]
    BY <1>1
  <2>2. at(j) \in 1..Len(s) /\ at(k) \in 1..Len(s)
    BY <1>2
  <2>3. at(j) = at(k)
    BY <1>3, <2>1, <2>2, <1>2 DEF IsInjective
  <2> QED
    BY <2>3, <1>2
<1>4. ASSUME NEW j \in 1..Len(s), j # i
      PROVE  \E k \in 1..(Len(s) - 1) : t[k] = s[j]
  <2>1. CASE j < i
    BY <2>1, <1>1, <1>2
  <2>2. CASE j > i
    <3>1. t[j - 1] = s[j] /\ j - 1 \in 1..(Len(s) - 1)
      BY <2>2, <1>1, <1>2
    <3> QED
      BY <3>1
  <2> QED
    BY <2>1, <2>2, <1>2, <1>4
<1>5. Range(s) \ {s[i]} \subseteq Range(t)
  BY <1>2, <1>4 DEF Range
<1>6. ASSUME NEW k \in 1..(Len(s) - 1)
      PROVE  t[k] \in Range(s) \ {s[i]}
  BY <1>1, <1>2 DEF Range, IsInjective
<1>7. Range(t) \subseteq Range(s) \ {s[i]}
  BY <1>2, <1>6 DEF Range
<1> QED
  BY <1>1, <1>3, <1>5, <1>7 DEF t, IsInjective

LEMMA AppendNewElement ==
    ASSUME NEW S, NEW s \in Seq(S), NEW e \in S, IsInjective(s), e \notin Range(s)
    PROVE  /\ Append(s, e) \in Seq(S)
           /\ IsInjective(Append(s, e))
           /\ Range(Append(s, e)) = Range(s) \cup {e}
<1> DEFINE t == Append(s, e)
<1>1. /\ t \in Seq(S) /\ Len(t) = Len(s) + 1 /\ Len(s) \in Nat
      /\ \A j \in 1..Len(s) : t[j] = s[j]
      /\ t[Len(s) + 1] = e
  OBVIOUS
<1>2. DOMAIN t = 1..(Len(s) + 1) /\ DOMAIN s = 1..Len(s)
  BY <1>1
<1> HIDE DEF t
<1>3. IsInjective(t)
  BY <1>1, <1>2 DEF IsInjective, Range
<1>4. Range(t) = Range(s) \cup {e}
  BY <1>1, <1>2 DEF Range
<1> QED
  BY <1>1, <1>3, <1>4 DEF t

-----------------------------------------------------------------------------
\* One element more.
LEMMA OneMore ==
    ASSUME NEW A, NEW r, IsFiniteSet(A), r \notin A
    PROVE  IsFiniteSet(A \cup {r}) /\ Cardinality(A \cup {r}) = Cardinality(A) + 1
BY FS_AddElement

\* One element less.
LEMMA OneLess ==
    ASSUME NEW A, NEW r, IsFiniteSet(A), r \in A
    PROVE  IsFiniteSet(A \ {r}) /\ Cardinality(A \ {r}) = Cardinality(A) - 1
BY FS_RemoveElement

\* Both halves of a finite set are finite.
LEMMA Halves ==
    ASSUME NEW A, NEW M, IsFiniteSet(A)
    PROVE  /\ IsFiniteSet(A \cap M) /\ Cardinality(A \cap M) \in Nat
           /\ IsFiniteSet(A \ M) /\ Cardinality(A \ M) \in Nat
BY FS_Subset, FS_CardinalityType

\* What a finite set is without a part of it
LEMMA PartOf ==
    ASSUME NEW A, IsFiniteSet(A), NEW B \in SUBSET A
    PROVE  /\ IsFiniteSet(B) /\ IsFiniteSet(A \ B)
           /\ Cardinality(A) \in Nat /\ Cardinality(B) \in Nat /\ Cardinality(A \ B) \in Nat
           /\ Cardinality(A \ B) = Cardinality(A) - Cardinality(B)
           /\ Cardinality(B) <= Cardinality(A)
<1>1. IsFiniteSet(B) /\ IsFiniteSet(A \ B) /\ Cardinality(B) <= Cardinality(A)
  BY FS_Subset, FS_Difference
<1>2. A \cap B = B
  OBVIOUS
<1>3. Cardinality(A \ B) = Cardinality(A) - Cardinality(A \cap B)
  BY FS_Difference
<1> QED
  BY <1>1, <1>2, <1>3, FS_CardinalityType

\* A set has "in" members in the class M and "out" members outside it.
Counts(A, M, in, out) ==
    IsFiniteSet(A) /\ Cardinality(A \cap M) = in /\ Cardinality(A \ M) = out

LEMMA CountsNat ==
    ASSUME NEW A, NEW M, NEW in, NEW out, Counts(A, M, in, out)
    PROVE  in \in Nat /\ out \in Nat
BY Halves DEF Counts

\* A new member of the class M, or of the rest, counts there only.
LEMMA EnterClass ==
    ASSUME NEW A, NEW M, NEW r, NEW in, NEW out, Counts(A, M, in, out), r \notin A, r \in M
    PROVE  Counts(A \cup {r}, M, in + 1, out)
<1>1. (A \cup {r}) \cap M = (A \cap M) \cup {r} /\ (A \cup {r}) \ M = A \ M
  OBVIOUS
<1>2. Cardinality((A \cap M) \cup {r}) = Cardinality(A \cap M) + 1
  BY Halves, OneMore DEF Counts
<1>3. IsFiniteSet(A \cup {r})
  BY OneMore DEF Counts
<1> QED
  BY <1>1, <1>2, <1>3 DEF Counts

LEMMA EnterRest ==
    ASSUME NEW A, NEW M, NEW r, NEW in, NEW out, Counts(A, M, in, out), r \notin A, r \notin M
    PROVE  Counts(A \cup {r}, M, in, out + 1)
<1>1. (A \cup {r}) \cap M = A \cap M /\ (A \cup {r}) \ M = (A \ M) \cup {r}
  OBVIOUS
<1>2. Cardinality((A \ M) \cup {r}) = Cardinality(A \ M) + 1
  BY Halves, OneMore DEF Counts
<1>3. IsFiniteSet(A \cup {r})
  BY OneMore DEF Counts
<1> QED
  BY <1>1, <1>2, <1>3 DEF Counts

\* A member that leaves the class M, or the rest, no longer counts there.
LEMMA LeaveClass ==
    ASSUME NEW A, NEW M, NEW r, NEW in, NEW out, Counts(A, M, in, out), r \in A, r \in M
    PROVE  Counts(A \ {r}, M, in - 1, out)
<1>1. (A \ {r}) \cap M = (A \cap M) \ {r} /\ (A \ {r}) \ M = A \ M
  OBVIOUS
<1>2. Cardinality((A \cap M) \ {r}) = Cardinality(A \cap M) - 1
  BY Halves, OneLess DEF Counts
<1>3. IsFiniteSet(A \ {r})
  BY OneLess DEF Counts
<1> QED
  BY <1>1, <1>2, <1>3 DEF Counts

LEMMA LeaveRest ==
    ASSUME NEW A, NEW M, NEW r, NEW in, NEW out, Counts(A, M, in, out), r \in A, r \notin M
    PROVE  Counts(A \ {r}, M, in, out - 1)
<1>1. (A \ {r}) \cap M = A \cap M /\ (A \ {r}) \ M = (A \ M) \ {r}
  OBVIOUS
<1>2. Cardinality((A \ M) \ {r}) = Cardinality(A \ M) - 1
  BY Halves, OneLess DEF Counts
<1>3. IsFiniteSet(A \ {r})
  BY OneLess DEF Counts
<1> QED
  BY <1>1, <1>2, <1>3 DEF Counts

-----------------------------------------------------------------------------
\* A set of numbers has a least one.
LEMMA LeastNumber ==
    ASSUME NEW T, T \subseteq Nat, T # {}
    PROVE  \E n \in T : \A m \in T : n <= m
<1> DEFINE R == {p \in Nat \X Nat : p[1] < p[2]}
<1>1. IsWellFoundedOn(R, Nat)
  BY NatLessThanWellFounded DEF OpToRel
<1> HIDE DEF R
<1>2. PICK n \in T : \A m \in T : ~(<<m, n>> \in R)
  BY <1>1, WFMin
<1>3. \A m \in T : ~(m < n)
  BY <1>2 DEF R
<1> QED
  BY <1>3

\* Induction, over the set of numbers and over the set of finite sets that have a property
LEMMA InEveryNumber ==
    ASSUME NEW T, 0 \in T, \A n \in Nat : n \in T => n + 1 \in T
    PROVE  \A n \in Nat : n \in T
<1> SUFFICES ASSUME Nat \ T # {}
             PROVE  FALSE
  OBVIOUS
<1>1. PICK n \in Nat \ T : \A m \in Nat \ T : n <= m
  BY LeastNumber
<1>2. n # 0 /\ n - 1 \in Nat /\ n - 1 \in T
  BY <1>1
<1> QED
  BY <1>1, <1>2

LEMMA InEverySubset ==
    ASSUME NEW S, IsFiniteSet(S), NEW F,
           \A s \in SUBSET S : (\A x \in s : s \ {x} \in F) => s \in F
    PROVE  \A s \in SUBSET S : s \in F
<1> SUFFICES ASSUME (SUBSET S) \ F # {}
             PROVE  FALSE
  OBVIOUS
<1>1. \A s \in SUBSET S : IsFiniteSet(s) /\ Cardinality(s) \in Nat
  BY FS_Subset, FS_CardinalityType
<1> DEFINE sizes == {Cardinality(s) : s \in (SUBSET S) \ F}
<1>2. sizes \subseteq Nat /\ sizes # {}
  BY <1>1
<1> HIDE DEF sizes
<1>3. PICK n \in sizes : \A m \in sizes : n <= m
  BY <1>2, LeastNumber
<1>4. PICK s \in (SUBSET S) \ F : Cardinality(s) = n
  BY <1>3 DEF sizes
<1>5. ASSUME NEW x \in s
      PROVE  s \ {x} \in F
  <2>1. Cardinality(s \ {x}) = n - 1 /\ s \ {x} \in SUBSET S
    BY <1>1, <1>4, OneLess
  <2>2. n \in Nat
    BY <1>2, <1>3
  <2>3. s \ {x} \notin F => n - 1 \in sizes
    BY <2>1 DEF sizes
  <2> QED
    BY <1>3, <2>2, <2>3
<1> QED
  BY <1>4, <1>5

-----------------------------------------------------------------------------
\* The sum of f over a finite set
Total(f, S) == MapThenSumSet(LAMBDA x : f[x], S)

Chosen(s) == CHOOSE x \in s : TRUE
Sums(g, f, D) == g = [s \in D |-> IF s = {} THEN 0 ELSE f[Chosen(s)] + g[s \ {Chosen(s)}]]

LEMMA TotalIs == ASSUME NEW f, NEW S PROVE Total(f, S) = (CHOOSE g : Sums(g, f, SUBSET S))[S]
BY Zenon DEF Total, MapThenSumSet, MapThenFoldSet, Sums, Chosen

LEMMA ChosenIn == ASSUME NEW s, s # {} PROVE Chosen(s) \in s
BY DEF Chosen

Upto(S, n) == {s \in SUBSET S : Cardinality(s) <= n}

LEMMA SumsExist ==
    ASSUME NEW S, IsFiniteSet(S), NEW f
    PROVE  \E g : Sums(g, f, SUBSET S)
<1>1. \A s \in SUBSET S : IsFiniteSet(s) /\ Cardinality(s) \in Nat
  BY FS_Subset, FS_CardinalityType
<1> DEFINE T == {n \in Nat : \E g : Sums(g, f, Upto(S, n))}
<1>2. 0 \in T
  <2> DEFINE g == [s \in Upto(S, 0) |-> 0]
  <2>1. \A s \in Upto(S, 0) : s = {}
    BY <1>1, FS_EmptySet DEF Upto
  <2>2. Sums(g, f, Upto(S, 0))
    BY <2>1 DEF Sums
  <2> QED
    BY <2>2
<1>3. ASSUME NEW n \in Nat, n \in T
      PROVE  n + 1 \in T
  <2>1. PICK g : Sums(g, f, Upto(S, n))
    BY <1>3
  <2> DEFINE more(h, s) == IF s = {} THEN 0 ELSE f[Chosen(s)] + h[s \ {Chosen(s)}]
             h == [s \in Upto(S, n + 1) |-> more(g, s)]
  <2>2. ASSUME NEW s \in Upto(S, n)
        PROVE  h[s] = g[s]
    <3>1. s \in Upto(S, n + 1)
      BY <1>1 DEF Upto
    <3>2. g = [t \in Upto(S, n) |-> more(g, t)]
      BY <2>1 DEF Sums
    <3>3. g[s] = more(g, s)
      BY <3>2
    <3> QED
      BY <3>1, <3>3
  <2>3. ASSUME NEW s \in Upto(S, n + 1), s # {}
        PROVE  s \ {Chosen(s)} \in Upto(S, n)
    <3>1. Chosen(s) \in s /\ s \in SUBSET S /\ Cardinality(s) <= n + 1 /\ IsFiniteSet(s)
          /\ Cardinality(s) \in Nat
      BY <2>3, <1>1, ChosenIn DEF Upto
    <3>2. Cardinality(s \ {Chosen(s)}) = Cardinality(s) - 1
      BY <3>1, OneLess
    <3> QED
      BY <3>1, <3>2 DEF Upto
  <2>4. \A s \in Upto(S, n + 1) : more(g, s) = more(h, s)
    BY <2>2, <2>3
  <2> HIDE DEF more
  <2>5. h = [s \in Upto(S, n + 1) |-> more(h, s)]
    BY <2>4
  <2>6. Sums(h, f, Upto(S, n + 1))
    BY <2>5 DEF Sums, more
  <2> HIDE DEF h
  <2> QED
    BY <2>6
<1> HIDE DEF T
<1>4. Cardinality(S) \in T
  BY <1>1, <1>2, <1>3, InEveryNumber
<1>5. SUBSET S = Upto(S, Cardinality(S))
  <2>1. \A s \in SUBSET S : Cardinality(s) <= Cardinality(S)
    BY FS_Subset
  <2> QED
    BY <2>1 DEF Upto
<1> QED
  BY <1>4, <1>5 DEF T

LEMMA TotalSums ==
    ASSUME NEW S, IsFiniteSet(S), NEW f
    PROVE  \E g : Sums(g, f, SUBSET S) /\ Total(f, S) = g[S]
<1> DEFINE G == CHOOSE g : Sums(g, f, SUBSET S)
<1>1. Sums(G, f, SUBSET S)
  BY SumsExist
<1>2. Total(f, S) = G[S]
  BY TotalIs
<1> QED
  BY <1>1, <1>2

\* The sums over a set and over a part of it agree on it.
LEMMA SumsAgree ==
    ASSUME NEW S, IsFiniteSet(S), NEW f, NEW P, P \subseteq S,
           NEW g, Sums(g, f, SUBSET S), NEW h, Sums(h, f, SUBSET P)
    PROVE  g[P] = h[P]
<1> DEFINE F == {s \in SUBSET P : g[s] = h[s]}
<1>1. ASSUME NEW s \in SUBSET P, \A x \in s : s \ {x} \in F
      PROVE  s \in F
  <2>1. /\ g[s] = IF s = {} THEN 0 ELSE f[Chosen(s)] + g[s \ {Chosen(s)}]
        /\ h[s] = IF s = {} THEN 0 ELSE f[Chosen(s)] + h[s \ {Chosen(s)}]
    BY DEF Sums
  <2>2. s # {} => g[s \ {Chosen(s)}] = h[s \ {Chosen(s)}]
    BY <1>1, ChosenIn
  <2> QED
    BY <2>1, <2>2
<1>2. IsFiniteSet(P)
  BY FS_Subset
<1> HIDE DEF F
<1>3. \A s \in SUBSET P : s \in F
  BY <1>1, <1>2, InEverySubset
<1>4. P \in F
  BY <1>3
<1> QED
  BY <1>4 DEF F

LEMMA SumsNat ==
    ASSUME NEW S, IsFiniteSet(S), NEW f, \A x \in S : f[x] \in Nat, NEW g, Sums(g, f, SUBSET S)
    PROVE  \A s \in SUBSET S : g[s] \in Nat
<1> DEFINE F == {s \in SUBSET S : g[s] \in Nat}
<1>1. ASSUME NEW s \in SUBSET S, \A x \in s : s \ {x} \in F
      PROVE  s \in F
  <2>1. g[s] = IF s = {} THEN 0 ELSE f[Chosen(s)] + g[s \ {Chosen(s)}]
    BY DEF Sums
  <2>2. s # {} => Chosen(s) \in s
    BY ChosenIn
  <2>3. s # {} => f[Chosen(s)] \in Nat /\ g[s \ {Chosen(s)}] \in Nat
    BY <1>1, <2>2
  <2> QED
    BY <2>1, <2>3
<1> HIDE DEF F
<1>2. \A s \in SUBSET S : s \in F
  BY <1>1, InEverySubset
<1> QED
  BY <1>2 DEF F

\* Whichever element is taken out first, the sum is the same.
LEMMA SumsTakeAny ==
    ASSUME NEW S, IsFiniteSet(S), NEW f, \A x \in S : f[x] \in Nat, NEW g, Sums(g, f, SUBSET S)
    PROVE  \A s \in SUBSET S : \A x \in s : g[s] = f[x] + g[s \ {x}]
<1>1. \A s \in SUBSET S : s # {} => g[s] = f[Chosen(s)] + g[s \ {Chosen(s)}]
  BY DEF Sums
<1>2. \A s \in SUBSET S : g[s] \in Nat
  BY SumsNat
<1> DEFINE F == {s \in SUBSET S : \A x \in s : g[s] = f[x] + g[s \ {x}]}
<1>3. ASSUME NEW s \in SUBSET S, \A x \in s : s \ {x} \in F
      PROVE  s \in F
  <2> SUFFICES ASSUME NEW x \in s
               PROVE  g[s] = f[x] + g[s \ {x}]
    OBVIOUS
  <2> DEFINE c == Chosen(s)
  <2>1. c \in s /\ g[s] = f[c] + g[s \ {c}]
    BY <1>1, ChosenIn
  <2> HIDE DEF c
  <2>2. CASE x = c
    BY <2>1, <2>2
  <2>3. CASE x # c
    <3>1. s \ {c} \in F /\ x \in s \ {c} /\ s \ {x} \in F /\ c \in s \ {x}
      BY <2>1, <2>3, <1>3
    <3>2. g[s \ {c}] = f[x] + g[(s \ {c}) \ {x}]
      BY <3>1
    <3>3. g[s \ {x}] = f[c] + g[(s \ {x}) \ {c}]
      BY <3>1
    <3>4. (s \ {c}) \ {x} = (s \ {x}) \ {c}
      OBVIOUS
    <3>5. (s \ {x}) \ {c} \in SUBSET S /\ x \in S /\ c \in S
      BY <2>1
    <3>6. f[x] \in Nat /\ f[c] \in Nat /\ g[(s \ {x}) \ {c}] \in Nat
      BY <3>5, <1>2
    <3> DEFINE rest == g[(s \ {x}) \ {c}]
    <3>7. g[s] = f[c] + (f[x] + rest) /\ g[s \ {x}] = f[c] + rest
      BY <2>1, <3>2, <3>3, <3>4
    <3> HIDE DEF rest
    <3>8. f[x] \in Nat /\ f[c] \in Nat /\ rest \in Nat
      BY <3>6 DEF rest
    <3> QED
      BY <3>7, <3>8
  <2> QED
    BY <2>2, <2>3
<1> HIDE DEF F
<1>4. \A s \in SUBSET S : s \in F
  BY <1>3, InEverySubset
<1> QED
  BY <1>4 DEF F

\* The sum over nothing, with one element more, and with one less
LEMMA TotalEmpty == ASSUME NEW f PROVE Total(f, {}) = 0
<1>1. IsFiniteSet({})
  BY FS_EmptySet
<1>2. PICK g : Sums(g, f, SUBSET {}) /\ Total(f, {}) = g[{}]
  BY <1>1, TotalSums
<1> QED
  BY <1>2 DEF Sums

LEMMA TotalNat ==
    ASSUME NEW S, IsFiniteSet(S), NEW f, \A x \in S : f[x] \in Nat
    PROVE  Total(f, S) \in Nat
<1>1. PICK g : Sums(g, f, SUBSET S) /\ Total(f, S) = g[S]
  BY TotalSums
<1>2. S \in SUBSET S
  OBVIOUS
<1> QED
  BY <1>1, <1>2, SumsNat

LEMMA TotalLess ==
    ASSUME NEW S, IsFiniteSet(S), NEW f, \A x \in S : f[x] \in Nat, NEW x \in S
    PROVE  Total(f, S) = f[x] + Total(f, S \ {x})
<1>1. PICK g : Sums(g, f, SUBSET S) /\ Total(f, S) = g[S]
  BY TotalSums
<1>2. IsFiniteSet(S \ {x})
  BY FS_RemoveElement
<1>3. PICK h : Sums(h, f, SUBSET (S \ {x})) /\ Total(f, S \ {x}) = h[S \ {x}]
  BY <1>2, TotalSums
<1>4. g[S \ {x}] = h[S \ {x}]
  <2>1. \A P, p : P \subseteq S /\ Sums(p, f, SUBSET P) => g[P] = p[P]
    BY <1>1, SumsAgree
  <2>2. S \ {x} \subseteq S
    OBVIOUS
  <2> QED
    BY <1>3, <2>1, <2>2
<1>5. g[S] = f[x] + g[S \ {x}]
  BY <1>1, SumsTakeAny
<1> QED
  BY <1>1, <1>3, <1>4, <1>5

LEMMA TotalMore ==
    ASSUME NEW S, IsFiniteSet(S), NEW x, x \notin S, NEW f, \A y \in S \cup {x} : f[y] \in Nat
    PROVE  Total(f, S \cup {x}) = f[x] + Total(f, S)
<1>1. IsFiniteSet(S \cup {x}) /\ (S \cup {x}) \ {x} = S
  BY FS_AddElement
<1> QED
  BY <1>1, TotalLess

\* A sum depends on the summands only.
LEMMA TotalSame ==
    ASSUME NEW S, IsFiniteSet(S), NEW f, \A x \in S : f[x] \in Nat, NEW h, \A x \in S : h[x] = f[x]
    PROVE  Total(h, S) = Total(f, S)
<1> DEFINE F == {s \in SUBSET S : Total(h, s) = Total(f, s)}
<1>1. ASSUME NEW s \in SUBSET S, \A x \in s : s \ {x} \in F
      PROVE  s \in F
  <2>1. CASE s = {}
    BY <2>1, TotalEmpty
  <2>2. CASE s # {}
    <3>1. PICK x \in s : TRUE
      BY <2>2
    <3>2. IsFiniteSet(s) /\ (\A y \in s : f[y] \in Nat /\ h[y] \in Nat)
      BY FS_Subset
    <3>3. Total(f, s) = f[x] + Total(f, s \ {x}) /\ Total(h, s) = h[x] + Total(h, s \ {x})
      BY <3>2, TotalLess
    <3> QED
      BY <1>1, <3>1, <3>3
  <2> QED
    BY <2>1, <2>2
<1> HIDE DEF F
<1>2. \A s \in SUBSET S : s \in F
  BY <1>1, InEverySubset
<1> QED
  BY <1>2 DEF F

\* The sum without the elements of a part of the set
LEMMA TotalWithout ==
    ASSUME NEW S, IsFiniteSet(S), NEW f, \A x \in S : f[x] \in Nat, NEW P \in SUBSET S
    PROVE  Total(f, S) = Total(f, P) + Total(f, S \ P)
<1> DEFINE F == {s \in SUBSET P : Total(f, S) = Total(f, s) + Total(f, S \ s)}
<1>1. IsFiniteSet(P)
  BY FS_Subset
<1>2. ASSUME NEW s \in SUBSET P, \A x \in s : s \ {x} \in F
      PROVE  s \in F
  <2>1. IsFiniteSet(s) /\ IsFiniteSet(S \ s)
    BY <1>1, FS_Subset, FS_Difference
  <2>2. CASE s = {}
    <3>1. S \ s = S /\ Total(f, s) = 0 /\ Total(f, S) \in Nat
      BY <2>2, TotalEmpty, TotalNat
    <3> QED
      BY <3>1
  <2>3. CASE s # {}
    <3>1. PICK x \in s : TRUE
      BY <2>3
    <3>2. \A y \in S : f[y] \in Nat
      OBVIOUS
    <3>3. Total(f, s) = f[x] + Total(f, s \ {x})
      BY <2>1, TotalLess
    <3>4. IsFiniteSet(S \ (s \ {x})) /\ x \in S \ (s \ {x}) /\ (S \ (s \ {x})) \ {x} = S \ s
      BY <2>1, FS_Difference
    <3>5. Total(f, S \ (s \ {x})) = f[x] + Total(f, (S \ (s \ {x})) \ {x})
      BY <3>4, TotalLess
    <3>6. Total(f, S) = Total(f, s \ {x}) + Total(f, S \ (s \ {x}))
      BY <1>2
    <3>7. f[x] \in Nat /\ Total(f, s \ {x}) \in Nat /\ Total(f, S \ s) \in Nat
      <4>1. IsFiniteSet(s \ {x}) /\ \A y \in s \ {x} : f[y] \in Nat
        BY <2>1, FS_RemoveElement
      <4> QED
        BY <2>1, <4>1, TotalNat
    <3>8. Total(f, S \ (s \ {x})) = f[x] + Total(f, S \ s)
      BY <3>4, <3>5
    <3> HIDE DEF F
    <3>9. Total(f, S) = Total(f, s) + Total(f, S \ s)
      BY <3>3, <3>6, <3>7, <3>8
    <3> QED
      BY <3>9 DEF F
  <2> QED
    BY <2>2, <2>3
<1> HIDE DEF F
<1>3. P \in F
  BY <1>1, <1>2, InEverySubset
<1> QED
  BY <1>3 DEF F

=============================================================================
