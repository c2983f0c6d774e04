------------------------- MODULE RateLimitsProofs -------------------------
(***************************************************************************)
(* Proofs about RateLimits, for all routes, buckets, headers, capacities,  *)
(* counts and waits                                                        *)
(***************************************************************************)
EXTENDS RateLimits, FiniteSetTheorems, WellFoundedInduction, TLAPS

AliasType == [key : Keys \cup {NoKey}, sequence : Nat, expires : Nat, carryUntil : Nat]
Observations ==
    [remaining : Nat, until : Nat, sequence : Nat, limit : Nat, next : Nat \cup {NoTime}]

Typed ==
    /\ now \in Nat /\ sequence \in Nat /\ overflowUntil \in Nat
    /\ alias \in [Routes -> AliasType]
    /\ bucket \in [Keys -> BucketType]
    /\ out \subseteq Attempts /\ denied \subseteq [sequence : Nat, key : Keys \cup {NoKey}]
    /\ refills \in [Keys -> SUBSET Nat]
    /\ \A t \in Routes : alias[t] = NoAlias \/ alias[t].key \in Keys

\* Each attempt has a number of its own, and is answered once.
Numbered ==
    /\ sequence <= MaxSequence
    /\ \A a \in out : a.sequence <= sequence
    /\ \A d \in denied : d.sequence <= sequence /\ \A a \in out : a.sequence # d.sequence
    /\ \A a, b \in out : a.sequence = b.sequence => a = b
    /\ \A t \in Routes : alias[t].sequence <= sequence /\ \A a \in out : alias[t].sequence # a.sequence
    /\ \A k \in Keys : \A n \in refills[k] : n <= sequence

\* A request that is out and tests a bucket's refill is the one the bucket knows as its probe.
Probing ==
    \A k \in Keys :
        /\ bucket[k].probeRoute = NoRoute => bucket[k].probeSequence = NoSequence
        /\ Live(k) => \A a \in out : a.sequence \in refills[k] =>
               bucket[k].probeRoute # NoRoute /\ bucket[k].probeSequence = a.sequence

LiveKeys == {k \in Keys : Live(k)}
Bounded ==
    /\ IsFiniteSet(Aliased) /\ Cardinality(Aliased) <= AliasCapacity
    /\ IsFiniteSet(LiveKeys) /\ Cardinality(LiveKeys) <= BucketCapacity

\* The inductive invariant
TablesInv == Typed /\ Numbered /\ Probing /\ Bounded

-----------------------------------------------------------------------------
(* Buckets *)

\* A finite set of numbers has a greatest one.
LEMMA GreatestIn ==
    ASSUME NEW C, IsFiniteSet(C), C \subseteq Nat, C # {}
    PROVE  \E c \in C : \A d \in C : d <= c
<1> DEFINE above(c) == {d \in C : d > c}
           T == {above(c) : c \in C}
<1>1. IsWellFoundedOn(StrictSubsetOrdering(C), FiniteSubsetsOf(C))
  BY FS_StrictSubsetOrderingWellFounded
<1>2. T \subseteq FiniteSubsetsOf(C) /\ T # {}
  <2>1. \A c \in C : above(c) \in SUBSET C
    OBVIOUS
  <2>2. FiniteSubsetsOf(C) = SUBSET C
    BY FS_FiniteSubsetsOfFinite
  <2>3. PICK c \in C : TRUE
    OBVIOUS
  <2>4. above(c) \in T
    OBVIOUS
  <2>5. T \subseteq SUBSET C
    BY <2>1
  <2> HIDE DEF T
  <2> QED
    BY <2>2, <2>4, <2>5
<1>3. PICK x \in T : \A y \in T : ~ (<<y, x>> \in StrictSubsetOrdering(C))
  <2> HIDE DEF T
  <2> QED
    BY <1>1, <1>2, WFMin
<1>4. PICK c \in C : x = above(c)
  BY <1>3
<1>5. ASSUME NEW d \in C, d > c
      PROVE  FALSE
  <2>1. above(d) \in T
    OBVIOUS
  <2>2. d \in above(c) /\ d \notin above(d)
    BY <1>5
  <2>3. above(d) \subseteq above(c) /\ above(c) \subseteq C
    <3>1. \A e \in C : e > d => e > c
      BY <1>5
    <3> QED
      BY <3>1
  <2> QED
    BY <1>3, <1>4, <2>1, <2>2, <2>3 DEF StrictSubsetOrdering
<1> QED
  BY <1>4, <1>5

LEMMA UnlimitedIs == Unlimited \in Nat /\ Unlimited >= 1
<1>1. CASE Counts = {}
  BY <1>1, AmountsAssumption DEF Unlimited
<1>2. CASE Counts # {}
  <2> DEFINE most == CHOOSE c \in Counts : \A d \in Counts : d <= c
  <2>1. most \in Counts
    BY <1>2, GreatestIn, AmountsAssumption
  <2> HIDE DEF most
  <2>2. Unlimited = 1 + MaxSequence + most
    BY <1>2 DEF Unlimited, most
  <2> QED
    BY <2>1, <2>2, AmountsAssumption
<1> QED
  BY <1>1, <1>2

LEMMA BlankIs ==
    /\ Blank \in BucketType /\ Blank.until = 0 /\ Blank.remaining # 0
    /\ Blank.probeRoute = NoRoute /\ Blank.probeSequence = NoSequence /\ Blank.next = NoTime
BY UnlimitedIs DEF Blank, BucketType, NoLimit, NoTime, NoSequence, NoCount

LEMMA NoAliasIs == NoAlias \in AliasType /\ NoAlias.carryUntil = 0 /\ NoAlias.sequence = 0 /\ NoAlias.key = NoKey
BY DEF NoAlias, AliasType, NoSequence

\* What merging an observation changes
LEMMA MergedIs ==
    ASSUME NEW b \in BucketType, NEW obs \in Observations
    PROVE  /\ Merged(b, obs) \in BucketType
           /\ Merged(b, obs).until = Later(b.until, obs.until)
           /\ \/ Merged(b, obs).probeRoute = NoRoute /\ Merged(b, obs).probeSequence = NoSequence
              \/ Merged(b, obs).probeRoute = b.probeRoute /\ Merged(b, obs).probeSequence = b.probeSequence
           /\ obs.sequence # b.probeSequence =>
                  /\ b.probeRoute # NoRoute => Merged(b, obs).probeRoute = b.probeRoute
                                               /\ Merged(b, obs).probeSequence = b.probeSequence
                  /\ b.remaining = 0 => Merged(b, obs).remaining = 0
                  /\ obs.sequence < b.sequence => Merged(b, obs).next = b.next
<1> DEFINE newest == obs.sequence >= b.sequence
           changedLimit == b.limit # NoLimit /\ obs.limit # NoLimit /\ b.limit # obs.limit
           refreshedProbe == b.probeSequence # NoSequence /\ obs.sequence = b.probeSequence
           probing == b.probeRoute # NoRoute
           probeLeft == IF b.probeRemaining = NoCount THEN obs.remaining
                        ELSE Earlier(b.probeRemaining, obs.remaining)
           conservative == b.probeIncomplete \/ (probing /\ changedLimit)
           refreshes == newest \/ refreshedProbe
           keepsProbe == probing /\ ~refreshedProbe
           remaining == IF ~refreshedProbe THEN Earlier(b.remaining, obs.remaining)
                        ELSE IF conservative THEN 0 ELSE probeLeft
           limit == IF ~newest THEN b.limit
                    ELSE IF changedLimit THEN Earlier(b.limit, obs.limit)
                    ELSE IF obs.limit # NoLimit THEN obs.limit ELSE b.limit
           next == IF refreshes /\ ~changedLimit /\ ~conservative /\ obs.next # NoTime
                   THEN Later(b.next, obs.next)
                   ELSE IF ~refreshes THEN b.next ELSE NoTime
<1>1. Merged(b, obs) =
          [remaining |-> remaining, until |-> Later(b.until, obs.until), limit |-> limit, next |-> next,
           sequence |-> Later(b.sequence, obs.sequence),
           probeRoute |-> IF keepsProbe THEN b.probeRoute ELSE NoRoute,
           probeSequence |-> IF keepsProbe THEN b.probeSequence ELSE NoSequence,
           probeRemaining |-> IF keepsProbe THEN probeLeft ELSE NoCount,
           probeIncomplete |-> keepsProbe /\ conservative]
  BY DEF Merged, LaterUntil
<1>2. /\ b.remaining \in Nat /\ b.until \in Nat /\ b.limit \in Nat /\ b.next \in Nat \cup {NoTime}
      /\ b.sequence \in Nat /\ b.probeRoute \in Routes \cup {NoRoute} /\ b.probeSequence \in Nat
      /\ b.probeRemaining \in Nat \cup {NoCount} /\ b.probeIncomplete \in BOOLEAN
      /\ obs.remaining \in Nat /\ obs.until \in Nat /\ obs.sequence \in Nat /\ obs.limit \in Nat
      /\ obs.next \in Nat \cup {NoTime}
  BY DEF BucketType, Observations
<1>3. probeLeft \in Nat /\ Later(b.until, obs.until) \in Nat /\ Later(b.sequence, obs.sequence) \in Nat
  BY <1>2 DEF Earlier, Later
<1>4. remaining \in Nat
  BY <1>2, <1>3 DEF Earlier
<1>5. limit \in Nat
  BY <1>2 DEF Earlier
<1>6. next \in Nat \cup {NoTime}
  BY <1>2 DEF Later, NoTime
<1>7. ~refreshedProbe /\ b.remaining = 0 => remaining = 0
  BY <1>2 DEF Earlier
<1>8. ~refreshes => next = b.next
  OBVIOUS
<1>9. (keepsProbe /\ conservative) \in BOOLEAN
  OBVIOUS
<1>10. obs.sequence # b.probeSequence => ~refreshedProbe
  OBVIOUS
<1>11. obs.sequence < b.sequence => ~newest
  BY <1>2
<1> HIDE DEF remaining, limit, next, probeLeft, conservative
<1>12. Merged(b, obs) \in BucketType
  BY <1>1, <1>2, <1>3, <1>4, <1>5, <1>6, <1>9 DEF BucketType, NoSequence
<1> QED
  BY <1>1, <1>7, <1>8, <1>10, <1>11, <1>12

LEMMA RefillIs ==
    ASSUME now \in Nat, NEW delay \in Delays, NEW limit \in Limits
    PROVE  Refill(delay, limit) \in Nat
<1>1. delay \in Nat /\ limit \in Nat \ {0}
  BY AmountsAssumption
<1>2. delay + limit - 1 \in Nat
  BY <1>1
<1>3. \A x \in Nat : x \div limit \in Nat
  BY <1>1
<1> QED
  BY <1>2, <1>3 DEF Refill

LEMMA CountedIs ==
    ASSUME now \in Nat, NEW seq \in Nat, NEW remaining \in Nat, NEW delay \in Delays,
           NEW limit \in Limits \cup {NoLimit}
    PROVE  /\ Counted(seq, remaining, delay, limit) \in Observations
           /\ Counted(seq, remaining, delay, limit).until = now + delay
           /\ Counted(seq, remaining, delay, limit).sequence = seq
           /\ now + delay > now
<1>1. delay \in Nat \ {0} /\ limit \in Nat /\ now + delay \in Nat /\ now + delay > now
  BY AmountsAssumption DEF NoLimit
<1>2. limit # NoLimit => Refill(delay, limit) \in Nat
  BY RefillIs
<1> QED
  BY <1>1, <1>2 DEF Counted, Observations, NoLimit

LEMMA DoubtedIs ==
    ASSUME NEW b \in BucketType, NEW seq \in Nat
    PROVE  /\ Doubted(b, seq) \in BucketType
           /\ Doubted(b, seq).until = b.until /\ Doubted(b, seq).remaining = b.remaining
           /\ Doubted(b, seq).probeRoute = b.probeRoute /\ Doubted(b, seq).probeSequence = b.probeSequence
           /\ seq < b.sequence => Doubted(b, seq).next = b.next
<1> DEFINE incomplete == b.probeIncomplete \/ (b.probeRoute # NoRoute /\ seq # b.probeSequence)
<1>1. incomplete \in BOOLEAN
  BY DEF BucketType
<1>2. Doubted(b, seq) = IF seq >= b.sequence
                        THEN [b EXCEPT !.probeIncomplete = incomplete, !.next = NoTime, !.sequence = seq]
                        ELSE [b EXCEPT !.probeIncomplete = incomplete]
  BY DEF Doubted
<1> HIDE DEF incomplete
<1>3. b.sequence \in Nat
  BY DEF BucketType
<1>4. CASE seq >= b.sequence
  <2>1. Doubted(b, seq) = [b EXCEPT !.probeIncomplete = incomplete, !.next = NoTime, !.sequence = seq]
    BY <1>2, <1>4
  <2>2. ~(seq < b.sequence)
    BY <1>3, <1>4
  <2>3. [b EXCEPT !.probeIncomplete = incomplete, !.next = NoTime, !.sequence = seq] \in BucketType
    BY <1>1 DEF BucketType
  <2>4. /\ Doubted(b, seq).until = b.until /\ Doubted(b, seq).remaining = b.remaining
        /\ Doubted(b, seq).probeRoute = b.probeRoute /\ Doubted(b, seq).probeSequence = b.probeSequence
    BY <2>1 DEF BucketType
  <2> QED
    BY <2>1, <2>2, <2>3, <2>4
<1>5. CASE ~(seq >= b.sequence)
  <2>1. Doubted(b, seq) = [b EXCEPT !.probeIncomplete = incomplete]
    BY <1>2, <1>5
  <2> QED
    BY <1>1, <2>1 DEF BucketType
<1> QED
  BY <1>4, <1>5

LEMMA SpentIs ==
    ASSUME NEW b \in BucketType, NEW seq \in Nat
    PROVE  /\ ProbeSpent(b, seq) \in BucketType
           /\ ProbeSpent(b, seq).until = b.until /\ ProbeSpent(b, seq).remaining = b.remaining
           /\ ProbeSpent(b, seq).probeRoute = b.probeRoute
           /\ ProbeSpent(b, seq).probeSequence = b.probeSequence
           /\ ProbeSpent(b, seq).next = b.next /\ ProbeSpent(b, seq).sequence = b.sequence
BY DEF ProbeSpent, BucketType

LEMMA ConfirmedIs ==
    ASSUME NEW b \in BucketType, NEW until \in Nat, NEW seq \in Nat
    PROVE  /\ Confirmed(b, until, seq) \in BucketType
           /\ Confirmed(b, until, seq).until = Later(b.until, until)
           /\ \/ Confirmed(b, until, seq).probeRoute = NoRoute
                 /\ Confirmed(b, until, seq).probeSequence = NoSequence
              \/ Confirmed(b, until, seq).probeRoute = b.probeRoute
                 /\ Confirmed(b, until, seq).probeSequence = b.probeSequence
           /\ seq # b.probeSequence => Confirmed(b, until, seq).probeRoute = b.probeRoute
                                       /\ Confirmed(b, until, seq).probeSequence = b.probeSequence
BY DEF Confirmed, BucketType, Later, NoCount, NoSequence

LEMMA LaterIs ==
    ASSUME NEW s \in Int, NEW t \in Int
    PROVE  Later(s, t) \in {s, t} /\ Later(s, t) >= s /\ Later(s, t) >= t
BY DEF Later

-----------------------------------------------------------------------------
(* Tables *)

\* What Store leaves in a bucket
Stored(x, k, obs) ==
    \/ bucket'[x] = bucket[x] /\ refills'[x] = refills[x]
    \/ x = k /\ Live(x) /\ bucket'[x] = Merged(bucket[x], obs) /\ refills'[x] = refills[x]
    \/ x = k /\ ~Live(x) /\ bucket'[x] = Merged(Blank, obs) /\ refills'[x] = {}
    \/ x # k /\ ~Protected(x) /\ bucket'[x] = Blank /\ refills'[x] = {}

LEMMA StoreIs ==
    ASSUME TablesInv, NEW k \in Keys, NEW obs \in Observations, obs.until > now,
           NEW overflow \in Nat, Store(k, obs, overflow), now' = now
    PROVE  /\ bucket' \in [Keys -> BucketType] /\ refills' \in [Keys -> SUBSET Nat]
           /\ overflowUntil' \in Nat /\ overflowUntil' >= overflow
           /\ \A x \in Keys : Stored(x, k, obs)
           /\ IsFiniteSet(LiveKeys') /\ Cardinality(LiveKeys') <= BucketCapacity
<1>1. /\ bucket \in [Keys -> BucketType] /\ refills \in [Keys -> SUBSET Nat] /\ now \in Nat
      /\ IsFiniteSet(LiveKeys) /\ Cardinality(LiveKeys) <= BucketCapacity
      /\ Cardinality(LiveKeys) \in Nat /\ BucketCapacity \in Nat
  BY FS_CardinalityType, AmountsAssumption DEF TablesInv, Typed, Bounded
<1>2. obs.until \in Nat /\ \A x \in Keys : bucket[x] \in BucketType /\ bucket[x].until \in Nat
  BY <1>1 DEF Observations, BucketType
<1>3. CASE Live(k) \/ ~Full
  <2> DEFINE old == IF Live(k) THEN bucket[k] ELSE Blank
             new == Merged(old, obs)
  <2>1. /\ bucket' = [bucket EXCEPT ![k] = new]
        /\ refills' = IF Live(k) THEN refills ELSE [refills EXCEPT ![k] = {}]
        /\ overflowUntil' = overflow
    BY <1>3 DEF Store
  <2>2. old \in BucketType
    BY <1>2, BlankIs
  <2>3. new \in BucketType /\ new.until = Later(old.until, obs.until)
    <3> HIDE DEF old
    <3> QED
      BY <2>2, MergedIs
  <2>4. old.until \in Nat /\ new.until \in Nat /\ new.until > now
    BY <1>1, <1>2, <2>2, <2>3 DEF BucketType, Later
  <2> HIDE DEF new
  <2>5. bucket' \in [Keys -> BucketType] /\ refills' \in [Keys -> SUBSET Nat]
    BY <1>1, <2>1, <2>3
  <2>6. bucket'[k] = new /\ \A x \in Keys : x # k => bucket'[x] = bucket[x] /\ refills'[x] = refills[x]
    BY <1>1, <2>1
  <2>7. \A x \in Keys : Stored(x, k, obs)
    BY <1>1, <2>1, <2>6 DEF Stored, new
  <2>8. LiveKeys' = LiveKeys \cup {k}
    BY <1>2, <2>4, <2>6 DEF LiveKeys, Live
  <2>9. IsFiniteSet(LiveKeys') /\ Cardinality(LiveKeys') <= BucketCapacity
    <3>1. CASE Live(k)
      <4>1. LiveKeys' = LiveKeys
        BY <2>8, <3>1 DEF LiveKeys
      <4> QED
        BY <1>1, <4>1
    <3>2. CASE ~Live(k)
      <4>1. Cardinality(LiveKeys) < BucketCapacity
        BY <1>1, <1>3, <3>2 DEF Full, LiveKeys
      <4>2. k \notin LiveKeys
        BY <3>2 DEF LiveKeys
      <4>3. IsFiniteSet(LiveKeys') /\ Cardinality(LiveKeys') = Cardinality(LiveKeys) + 1
        BY <1>1, <2>8, <4>2, FS_AddElement
      <4> QED
        BY <1>1, <4>1, <4>3
    <3> QED
      BY <3>1, <3>2
  <2> QED
    BY <2>1, <2>5, <2>7, <2>9
<1>4. CASE ~Live(k) /\ Full /\ Evictable # {}
  <2> DEFINE new == Merged(Blank, obs)
  <2>1. PICK victim \in Evictable :
            /\ bucket' = [bucket EXCEPT ![victim] = Blank, ![k] = new]
            /\ refills' = [refills EXCEPT ![victim] = {}, ![k] = {}]
    BY <1>4 DEF Store
  <2>2. overflowUntil' = overflow
    BY <1>4 DEF Store
  <2>3. new \in BucketType /\ new.until = Later(Blank.until, obs.until)
    BY BlankIs, MergedIs
  <2>4. new.until \in Nat /\ new.until > now /\ ~(Blank.until > now)
    BY <1>1, <1>2, <2>3, BlankIs DEF Later
  <2> HIDE DEF new
  <2>5. victim \in Keys /\ Live(victim) /\ victim # k /\ ~Protected(victim)
    BY <1>2, <1>4 DEF Evictable, Protected, BucketType
  <2>6. /\ bucket' \in [Keys -> BucketType] /\ refills' \in [Keys -> SUBSET Nat]
        /\ bucket'[k] = new /\ refills'[k] = {} /\ bucket'[victim] = Blank /\ refills'[victim] = {}
        /\ \A x \in Keys : x # k /\ x # victim => bucket'[x] = bucket[x] /\ refills'[x] = refills[x]
    BY <1>1, <2>1, <2>3, <2>5, BlankIs
  <2>7. \A x \in Keys : Stored(x, k, obs)
    BY <1>4, <2>5, <2>6 DEF Stored, new
  <2>8. LiveKeys' = (LiveKeys \ {victim}) \cup {k}
    BY <2>4, <2>5, <2>6 DEF LiveKeys, Live
  <2>9. k \notin LiveKeys \ {victim} /\ victim \in LiveKeys
    BY <1>4, <2>5 DEF LiveKeys
  <2>10. IsFiniteSet(LiveKeys \ {victim}) /\ Cardinality(LiveKeys \ {victim}) = Cardinality(LiveKeys) - 1
    BY <1>1, <2>9, FS_RemoveElement
  <2>11. IsFiniteSet(LiveKeys') /\ Cardinality(LiveKeys') = Cardinality(LiveKeys \ {victim}) + 1
    BY <2>8, <2>9, <2>10, FS_AddElement
  <2> QED
    BY <1>1, <2>2, <2>6, <2>7, <2>10, <2>11
<1>5. CASE ~Live(k) /\ Full /\ Evictable = {}
  <2>1. bucket' = bucket /\ refills' = refills /\ overflowUntil' = Later(overflow, obs.until)
    BY <1>5 DEF Store
  <2>2. LiveKeys' = LiveKeys
    BY <2>1 DEF LiveKeys, Live
  <2>3. overflowUntil' \in Nat /\ overflowUntil' >= overflow
    BY <1>2, <2>1 DEF Later
  <2> QED
    BY <1>1, <2>1, <2>2, <2>3 DEF Stored
<1> QED
  BY <1>3, <1>4, <1>5

\* A bucket keeps its probe, unless the answer of this number settles it.
ProbeKept(x, seq) ==
    /\ \/ bucket'[x].probeRoute = NoRoute /\ bucket'[x].probeSequence = NoSequence
       \/ bucket'[x].probeRoute = bucket[x].probeRoute /\ bucket'[x].probeSequence = bucket[x].probeSequence
    /\ bucket[x].probeRoute # NoRoute /\ bucket[x].probeSequence # seq =>
           /\ bucket'[x].probeRoute = bucket[x].probeRoute
           /\ bucket'[x].probeSequence = bucket[x].probeSequence

LEMMA ProbingKept ==
    ASSUME TablesInv, NEW seq, out' \subseteq out, \A a \in out' : a.sequence # seq,
           \A x \in Keys :
               \/ /\ refills'[x] = {}
                  /\ bucket'[x].probeRoute = NoRoute => bucket'[x].probeSequence = NoSequence
               \/ refills'[x] \subseteq refills[x] /\ (Live(x)' => Live(x)) /\ ProbeKept(x, seq)
    PROVE  Probing'
<1>1. Probing
  BY DEF TablesInv
<1>2. ASSUME NEW x \in Keys
      PROVE  /\ bucket'[x].probeRoute = NoRoute => bucket'[x].probeSequence = NoSequence
             /\ Live(x)' => \A a \in out' : a.sequence \in refills'[x] =>
                    bucket'[x].probeRoute # NoRoute /\ bucket'[x].probeSequence = a.sequence
  <2>1. CASE refills'[x] \subseteq refills[x] /\ (Live(x)' => Live(x)) /\ ProbeKept(x, seq)
    BY <1>1, <2>1 DEF Probing, ProbeKept
  <2>2. CASE refills'[x] = {} /\ (bucket'[x].probeRoute = NoRoute => bucket'[x].probeSequence = NoSequence)
    BY <2>2
  <2> QED
    BY <2>1, <2>2
<1> QED
  BY <1>2 DEF Probing

LEMMA StoredProbe ==
    ASSUME TablesInv, NEW x \in Keys, NEW k \in Keys, NEW obs \in Observations, Stored(x, k, obs), now' = now
    PROVE  \/ /\ refills'[x] = {}
              /\ bucket'[x].probeRoute = NoRoute => bucket'[x].probeSequence = NoSequence
           \/ refills'[x] \subseteq refills[x] /\ (Live(x)' => Live(x)) /\ ProbeKept(x, obs.sequence)
<1>1. bucket[x] \in BucketType /\ Blank \in BucketType
  BY BlankIs DEF TablesInv, Typed
<1>2. CASE bucket'[x] = bucket[x] /\ refills'[x] = refills[x]
  BY <1>2 DEF ProbeKept, Live
<1>3. CASE Live(x) /\ bucket'[x] = Merged(bucket[x], obs) /\ refills'[x] = refills[x]
  BY <1>1, <1>3, MergedIs DEF ProbeKept
<1>4. CASE bucket'[x] = Merged(Blank, obs) /\ refills'[x] = {}
  BY <1>1, <1>4, MergedIs, BlankIs
<1>5. CASE bucket'[x] = Blank /\ refills'[x] = {}
  BY <1>5, BlankIs
<1> QED
  BY <1>2, <1>3, <1>4, <1>5 DEF Stored

-----------------------------------------------------------------------------
(* Aliases *)

Learnt(t, k, seq) ==
    [key |-> k, sequence |-> seq, expires |-> now + AliasIdle, carryUntil |-> Carry(t, k)]

\* What a step may do to a route's alias: nothing, forget an idle one, keep it for another while,
\* learn a bucket from the answer of this number, or drop it for another route's
AliasMoves(t, seq) ==
    \/ alias'[t] = alias[t]
    \/ AliasOf(t) = NoAlias /\ alias'[t] = NoAlias
    \/ AliasOf(t) # NoAlias /\ alias'[t] = [AliasOf(t) EXCEPT !.expires = now + AliasIdle]
    \/ /\ AliasOf(t) = NoAlias \/ seq >= AliasOf(t).sequence
       /\ \E k \in Keys : alias'[t] = Learnt(t, k, seq)
    \/ t \in Droppable /\ alias'[t] = NoAlias

LEMMA AliasIs ==
    ASSUME TablesInv, NEW t \in Routes
    PROVE  /\ alias[t] \in AliasType /\ AliasOf(t) \in AliasType /\ AliasOf(t) \in {alias[t], NoAlias}
           /\ AliasOf(t) # NoAlias => AliasOf(t) = alias[t] /\ ~AliasGone(t)
           /\ AliasOf(t) # NoAlias => AliasOf(t).key \in Keys
           /\ KeyFor(t) \in Keys /\ ProvisionalOf[t] \in Keys
           /\ AliasOf(t).carryUntil \in Nat
<1>1. alias[t] \in AliasType /\ (alias[t] = NoAlias \/ alias[t].key \in Keys)
  BY DEF TablesInv, Typed
<1>2. AliasOf(t) \in {alias[t], NoAlias} /\ (AliasOf(t) # NoAlias => AliasOf(t) = alias[t] /\ ~AliasGone(t))
  BY DEF AliasOf
<1>3. ProvisionalOf[t] \in Keys
  BY RoutesAssumption
<1>4. AliasOf(t) # NoAlias => AliasOf(t).key \in Keys
  BY <1>1, <1>2
<1>5. AliasOf(t) \in AliasType /\ AliasOf(t).carryUntil \in Nat
  BY <1>1, <1>2, NoAliasIs DEF AliasType
<1> QED
  BY <1>1, <1>2, <1>3, <1>4, <1>5 DEF KeyFor

LEMMA WaitIs ==
    ASSUME TablesInv, NEW k \in Keys
    PROVE  /\ BucketWait(k, FALSE) \in Nat
           /\ ~Protected(k) => BucketWait(k, FALSE) = 0
<1>1. bucket[k].until \in Nat /\ bucket[k].next \in Nat \cup {NoTime} /\ now \in Nat
  BY DEF TablesInv, Typed, BucketType
<1> QED
  BY <1>1 DEF BucketWait, NoTime

\* How long a bucket makes its route's next request wait
Denial(k) == BucketWait(k, FALSE)

LEMMA LearntIs ==
    ASSUME TablesInv, NEW t \in Routes, NEW k \in Keys, NEW seq \in Nat
    PROVE  /\ Learnt(t, k, seq) \in AliasType /\ Learnt(t, k, seq).key = k
           /\ Learnt(t, k, seq) # NoAlias /\ Learnt(t, k, seq).sequence = seq
           /\ Learnt(t, k, seq).expires = now + AliasIdle
           /\ Learnt(t, k, seq).carryUntil = Carry(t, k)
           /\ Carry(t, k) >= AliasOf(t).carryUntil
           /\ KeyFor(t) # k => Carry(t, k) >= Denial(KeyFor(t))
<1>1. /\ AliasOf(t).carryUntil \in Nat /\ ProvisionalOf[t] \in Keys /\ KeyFor(t) \in Keys
      /\ AliasOf(t) # NoAlias => AliasOf(t).key \in Keys
  BY AliasIs
<1> DEFINE before == IF AliasOf(t) = NoAlias \/ AliasOf(t).key = k THEN 0 ELSE BucketWait(AliasOf(t).key, FALSE)
           home == BucketWait(ProvisionalOf[t], FALSE)
<1>2. before \in Nat /\ home \in Nat
  BY <1>1, WaitIs
<1>3. Carry(t, k) = Later(AliasOf(t).carryUntil, Later(before, home))
  BY DEF Carry
<1>4. KeyFor(t) # k => Denial(KeyFor(t)) \in {before, home}
  BY DEF KeyFor, Denial
<1> HIDE DEF before, home
<1>5. /\ Carry(t, k) \in Nat /\ Carry(t, k) >= AliasOf(t).carryUntil
      /\ Carry(t, k) >= before /\ Carry(t, k) >= home
  BY <1>1, <1>2, <1>3 DEF Later
<1>6. now \in Nat /\ now + AliasIdle \in Nat /\ k # NoKey
  BY AmountsAssumption, RoutesAssumption DEF TablesInv, Typed
<1>7. /\ Learnt(t, k, seq).key = k /\ Learnt(t, k, seq).sequence = seq
      /\ Learnt(t, k, seq).expires = now + AliasIdle /\ Learnt(t, k, seq).carryUntil = Carry(t, k)
  BY DEF Learnt
<1>8. Learnt(t, k, seq) \in AliasType
  BY <1>5, <1>6 DEF Learnt, AliasType
<1>9. Learnt(t, k, seq) # NoAlias
  BY <1>6, <1>7, NoAliasIs
<1> QED
  BY <1>4, <1>5, <1>7, <1>8, <1>9

LEMMA TouchedMoves ==
    ASSUME TablesInv, NEW t \in Routes, alias' = Touched(t), NEW seq
    PROVE  \A x \in Routes : AliasMoves(x, seq)
<1>1. alias \in [Routes -> AliasType]
  BY DEF TablesInv, Typed
<1>2. alias'[t] = IF AliasOf(t) = NoAlias THEN NoAlias ELSE [AliasOf(t) EXCEPT !.expires = now + AliasIdle]
  BY <1>1 DEF Touched
<1>3. \A x \in Routes : x # t => alias'[x] = alias[x]
  BY <1>1 DEF Touched
<1> QED
  BY <1>2, <1>3 DEF AliasMoves

\* Every kind of move keeps the type of an alias.
LEMMA MovedIs ==
    ASSUME TablesInv, NEW t \in Routes, NEW seq \in Nat, AliasMoves(t, seq)
    PROVE  /\ alias'[t] \in AliasType /\ (alias'[t] = NoAlias \/ alias'[t].key \in Keys)
           /\ alias'[t].sequence \in {alias[t].sequence, seq, NoSequence}
           /\ alias[t] = NoAlias => \/ alias'[t] = NoAlias
                                    \/ \E k \in Keys : alias'[t] = Learnt(t, k, seq)
<1>1. /\ alias[t] \in AliasType /\ (alias[t] = NoAlias \/ alias[t].key \in Keys)
      /\ AliasOf(t) \in AliasType /\ (AliasOf(t) # NoAlias => AliasOf(t) = alias[t] /\ AliasOf(t).key \in Keys)
  BY AliasIs DEF TablesInv, Typed
<1>2. now + AliasIdle \in Nat
  BY AmountsAssumption DEF TablesInv, Typed
<1> DEFINE Sound(a) ==
        /\ a \in AliasType /\ (a = NoAlias \/ a.key \in Keys)
        /\ a.sequence \in {alias[t].sequence, seq, NoSequence}
        /\ alias[t] = NoAlias => a = NoAlias \/ \E k \in Keys : a = Learnt(t, k, seq)
<1>3. Sound(alias[t])
  BY <1>1
<1>4. Sound(NoAlias)
  BY NoAliasIs DEF NoSequence
<1>5. AliasOf(t) # NoAlias => Sound([AliasOf(t) EXCEPT !.expires = now + AliasIdle])
  BY <1>1, <1>2 DEF AliasType
<1>6. ASSUME NEW k \in Keys
      PROVE  Sound(Learnt(t, k, seq))
  <2>1. Learnt(t, k, seq) \in AliasType /\ Learnt(t, k, seq).key = k /\ Learnt(t, k, seq).sequence = seq
    BY LearntIs
  <2> QED
    BY <2>1
<1>7. Sound(alias'[t])
  <2> HIDE DEF Sound
  <2> QED
    BY <1>3, <1>4, <1>5, <1>6 DEF AliasMoves
<1> QED
  BY <1>7

LEMMA OneMoreAtMost ==
    ASSUME NEW S, IsFiniteSet(S), NEW e, NEW T, T \subseteq S \cup {e}
    PROVE  IsFiniteSet(T) /\ Cardinality(T) \in Nat /\ Cardinality(T) <= Cardinality(S) + 1
<1>1. IsFiniteSet(S \cup {e}) /\ Cardinality(S \cup {e}) <= Cardinality(S) + 1 /\ Cardinality(S) \in Nat
  <2>1. Cardinality(S) \in Nat
    BY FS_CardinalityType
  <2>2. IsFiniteSet(S \cup {e}) /\ Cardinality(S \cup {e}) \in {Cardinality(S), Cardinality(S) + 1}
    BY FS_AddElement
  <2> QED
    BY <2>1, <2>2
<1>2. IsFiniteSet(T) /\ Cardinality(T) <= Cardinality(S \cup {e})
  BY <1>1, FS_Subset
<1> QED
  BY <1>1, <1>2, FS_CardinalityType

Aliases == alias' \in [Routes -> AliasType] /\ IsFiniteSet(Aliased') /\ Cardinality(Aliased') <= AliasCapacity

LEMMA FewerAliases ==
    ASSUME TablesInv, Aliased' \subseteq Aliased
    PROVE  IsFiniteSet(Aliased') /\ Cardinality(Aliased') <= AliasCapacity
<1>1. IsFiniteSet(Aliased) /\ Cardinality(Aliased) <= AliasCapacity
  BY DEF TablesInv, Bounded
<1>2. IsFiniteSet(Aliased') /\ Cardinality(Aliased') <= Cardinality(Aliased)
  BY <1>1, FS_Subset
<1>3. Cardinality(Aliased) \in Nat /\ Cardinality(Aliased') \in Nat /\ AliasCapacity \in Nat
  BY <1>1, <1>2, FS_CardinalityType, AmountsAssumption
<1> QED
  BY <1>1, <1>2, <1>3

LEMMA TouchedIs ==
    ASSUME TablesInv, NEW t \in Routes, alias' = Touched(t)
    PROVE  Aliases
<1>1. alias \in [Routes -> AliasType] /\ now + AliasIdle \in Nat
  BY AmountsAssumption DEF TablesInv, Typed
<1>2. AliasOf(t) \in AliasType /\ (AliasOf(t) # NoAlias => AliasOf(t) = alias[t])
  BY AliasIs
<1>3. alias' = [alias EXCEPT ![t] = IF AliasOf(t) = NoAlias THEN NoAlias
                                    ELSE [AliasOf(t) EXCEPT !.expires = now + AliasIdle]]
  BY DEF Touched
<1>4. [AliasOf(t) EXCEPT !.expires = now + AliasIdle] \in AliasType
  BY <1>1, <1>2 DEF AliasType
<1>5. alias' \in [Routes -> AliasType]
  BY <1>1, <1>3, <1>4, NoAliasIs
<1>6. \A x \in Routes : alias[x] = NoAlias => alias'[x] = NoAlias
  BY <1>1, <1>2, <1>3
<1>7. Aliased' \subseteq Aliased
  BY <1>6 DEF Aliased
<1> QED
  BY <1>5, <1>7, FewerAliases DEF Aliases

LEMMA LearnIs ==
    ASSUME TablesInv, NEW a \in out, NEW header \in Headers, NEW missing \in BOOLEAN,
           LearnBucket(a, header, missing)
    PROVE  Aliases /\ \A x \in Routes : AliasMoves(x, a.sequence)
<1> DEFINE t == a.route
           k == KeyOf[<<header, t>>]
           learnt == Learnt(t, k, a.sequence)
<1>1. t \in Routes /\ a.sequence \in Nat /\ k \in Keys
  BY RoutesAssumption DEF TablesInv, Typed, Attempts
<1>2. alias \in [Routes -> AliasType] /\ IsFiniteSet(Aliased) /\ Cardinality(Aliased) <= AliasCapacity
  BY DEF TablesInv, Typed, Bounded
<1>3. Cardinality(Aliased) \in Nat /\ AliasCapacity \in Nat
  BY <1>2, FS_CardinalityType, AmountsAssumption
<1>4. learnt \in AliasType
  BY <1>1, LearntIs
<1>5. CASE alias' = Touched(t)
  BY <1>1, <1>5, TouchedIs, TouchedMoves
<1>6. CASE /\ NamesBucket(a) /\ alias' = [alias EXCEPT ![t] = learnt]
           /\ AliasOf(t) # NoAlias \/ Cardinality(Aliased \ {t}) < AliasCapacity
  <2>1. alias' \in [Routes -> AliasType] /\ alias'[t] = learnt /\ \A x \in Routes : x # t => alias'[x] = alias[x]
    BY <1>1, <1>2, <1>4, <1>6
  <2>2. \A x \in Routes : AliasMoves(x, a.sequence)
    BY <1>1, <1>6, <2>1 DEF AliasMoves, NamesBucket
  <2>3. IsFiniteSet(Aliased') /\ Cardinality(Aliased') <= AliasCapacity
    <3>1. CASE AliasOf(t) # NoAlias
      <4>1. t \in Aliased
        BY <1>1, <3>1, AliasIs DEF Aliased
      <4>2. Aliased' \subseteq Aliased
        BY <2>1, <4>1 DEF Aliased
      <4> QED
        BY <4>2, FewerAliases
    <3>2. CASE Cardinality(Aliased \ {t}) < AliasCapacity
      <4>1. Aliased' \subseteq (Aliased \ {t}) \cup {t}
        BY <2>1 DEF Aliased
      <4>2. IsFiniteSet(Aliased \ {t}) /\ Cardinality(Aliased \ {t}) \in Nat
        BY <1>2, FS_Subset, FS_CardinalityType
      <4>3. /\ IsFiniteSet(Aliased') /\ Cardinality(Aliased') \in Nat
            /\ Cardinality(Aliased') <= Cardinality(Aliased \ {t}) + 1
        BY <4>1, <4>2, OneMoreAtMost
      <4> QED
        BY <1>3, <3>2, <4>2, <4>3
    <3> QED
      BY <1>6, <3>1, <3>2
  <2> QED
    BY <2>1, <2>2, <2>3 DEF Aliases
<1>7. ASSUME NamesBucket(a), NEW victim \in Droppable \ {t},
             alias' = [alias EXCEPT ![victim] = NoAlias, ![t] = learnt]
      PROVE  Aliases /\ \A x \in Routes : AliasMoves(x, a.sequence)
  <2>1. victim \in Routes /\ victim \in Aliased /\ victim # t
    BY DEF Droppable, Aliased
  <2>2. /\ alias' \in [Routes -> AliasType] /\ alias'[t] = learnt /\ alias'[victim] = NoAlias
        /\ \A x \in Routes : x # t /\ x # victim => alias'[x] = alias[x]
    BY <1>1, <1>2, <1>4, <1>7, <2>1, NoAliasIs
  <2>3. \A x \in Routes : AliasMoves(x, a.sequence)
    BY <1>1, <1>7, <2>2 DEF AliasMoves, NamesBucket
  <2>4. Aliased' \subseteq (Aliased \ {victim}) \cup {t}
    BY <2>2 DEF Aliased
  <2>5. IsFiniteSet(Aliased \ {victim}) /\ Cardinality(Aliased \ {victim}) = Cardinality(Aliased) - 1
    BY <1>2, <2>1, FS_RemoveElement
  <2>6. /\ IsFiniteSet(Aliased') /\ Cardinality(Aliased') \in Nat
        /\ Cardinality(Aliased') <= Cardinality(Aliased \ {victim}) + 1
    BY <2>4, <2>5, OneMoreAtMost
  <2> QED
    BY <1>2, <1>3, <2>2, <2>3, <2>5, <2>6 DEF Aliases
<1> QED
  BY <1>5, <1>6, <1>7 DEF LearnBucket, Learnt

\* The key the answer counts for
LEMMA ObservedKey ==
    ASSUME TablesInv, NEW a \in out, NEW header \in Headers \cup {NoHeader}
    PROVE  (IF header = NoHeader THEN KeyFor(a.route) ELSE KeyOf[<<header, a.route>>]) \in Keys
BY AliasIs, RoutesAssumption DEF TablesInv, Typed, Attempts

-----------------------------------------------------------------------------
(* Answers *)

\* A bucket that has none left keeps denying as long and as strictly.
Tightened(x) ==
    Protected(x) =>
        /\ bucket'[x].remaining = 0 /\ bucket'[x].until >= bucket[x].until
        /\ bucket'[x].next = bucket[x].next
        /\ bucket[x].probeRoute # NoRoute => bucket'[x].probeRoute # NoRoute

\* An answer of this number may not decide over the bucket.
Older(x, seq) == seq < bucket[x].sequence /\ seq # bucket[x].probeSequence

\* What the answer of this number does to the buckets
Answers(seq) ==
    /\ bucket' \in [Keys -> BucketType] /\ refills' \in [Keys -> SUBSET Nat]
    /\ overflowUntil' \in Nat /\ overflowUntil' >= overflowUntil
    /\ IsFiniteSet(LiveKeys') /\ Cardinality(LiveKeys') <= BucketCapacity
    /\ \A x \in Keys :
           /\ refills'[x] \subseteq refills[x]
           /\ \/ /\ refills'[x] = {}
                 /\ bucket'[x].probeRoute = NoRoute => bucket'[x].probeSequence = NoSequence
              \/ refills'[x] \subseteq refills[x] /\ (Live(x)' => Live(x)) /\ ProbeKept(x, seq)
           /\ Older(x, seq) => Tightened(x)

LEMMA StoreAnswers ==
    ASSUME TablesInv, NEW k \in Keys, NEW obs \in Observations, obs.until > now,
           NEW overflow \in Nat, overflow >= overflowUntil, Store(k, obs, overflow), now' = now
    PROVE  Answers(obs.sequence)
<1>1. /\ bucket' \in [Keys -> BucketType] /\ refills' \in [Keys -> SUBSET Nat]
      /\ overflowUntil' \in Nat /\ overflowUntil' >= overflow
      /\ \A x \in Keys : Stored(x, k, obs)
      /\ IsFiniteSet(LiveKeys') /\ Cardinality(LiveKeys') <= BucketCapacity
  BY StoreIs
<1>2. overflowUntil' >= overflowUntil
  BY <1>1 DEF TablesInv, Typed
<1>3. ASSUME NEW x \in Keys
      PROVE  /\ refills'[x] \subseteq refills[x]
             /\ Older(x, obs.sequence) => Tightened(x)
  <2>1. bucket[x] \in BucketType /\ bucket[x].until \in Nat /\ obs.until \in Nat
    BY DEF TablesInv, Typed, BucketType, Observations
  <2>2. CASE bucket'[x] = bucket[x] /\ refills'[x] = refills[x]
    BY <2>1, <2>2 DEF Tightened, Protected
  <2>3. CASE bucket'[x] = Merged(bucket[x], obs) /\ refills'[x] = refills[x]
    <3>1. /\ Merged(bucket[x], obs).until = Later(bucket[x].until, obs.until)
          /\ obs.sequence # bucket[x].probeSequence =>
                 /\ bucket[x].probeRoute # NoRoute =>
                        Merged(bucket[x], obs).probeRoute = bucket[x].probeRoute
                 /\ bucket[x].remaining = 0 => Merged(bucket[x], obs).remaining = 0
                 /\ obs.sequence < bucket[x].sequence => Merged(bucket[x], obs).next = bucket[x].next
      BY <2>1, MergedIs
    <3>2. bucket'[x].until >= bucket[x].until
      BY <2>1, <2>3, <3>1 DEF Later
    <3> QED
      BY <2>3, <3>1, <3>2 DEF Tightened, Protected, Older
  <2>4. CASE ~Protected(x) /\ refills'[x] = {}
    BY <2>4 DEF Tightened
  <2> QED
    BY <1>1, <2>2, <2>3, <2>4 DEF Stored, Protected
<1>4. \A x \in Keys :
          \/ /\ refills'[x] = {}
             /\ bucket'[x].probeRoute = NoRoute => bucket'[x].probeSequence = NoSequence
          \/ refills'[x] \subseteq refills[x] /\ (Live(x)' => Live(x)) /\ ProbeKept(x, obs.sequence)
  BY <1>1, StoredProbe
<1> QED
  BY <1>1, <1>2, <1>3, <1>4 DEF Answers

\* An answer that changes one live bucket in its place
LEMMA InPlaceAnswers ==
    ASSUME TablesInv, NEW k \in Keys, NEW b \in BucketType, NEW seq, Live(k), now' = now,
           bucket' = [bucket EXCEPT ![k] = b], refills' = refills, overflowUntil' = overflowUntil,
           b.until >= bucket[k].until,
           \/ b.probeRoute = NoRoute /\ b.probeSequence = NoSequence
           \/ b.probeRoute = bucket[k].probeRoute /\ b.probeSequence = bucket[k].probeSequence,
           seq # bucket[k].probeSequence /\ bucket[k].probeRoute # NoRoute =>
               b.probeRoute = bucket[k].probeRoute /\ b.probeSequence = bucket[k].probeSequence,
           Older(k, seq) /\ bucket[k].remaining = 0 => b.remaining = 0 /\ b.next = bucket[k].next
    PROVE  Answers(seq)
<1>1. /\ bucket \in [Keys -> BucketType] /\ refills \in [Keys -> SUBSET Nat] /\ now \in Nat
      /\ overflowUntil \in Nat /\ IsFiniteSet(LiveKeys) /\ Cardinality(LiveKeys) <= BucketCapacity
  BY DEF TablesInv, Typed, Bounded
<1>2. bucket' \in [Keys -> BucketType] /\ bucket'[k] = b /\ \A x \in Keys : x # k => bucket'[x] = bucket[x]
  BY <1>1
<1>3. b.until \in Nat /\ \A x \in Keys : bucket[x].until \in Nat
  BY <1>1 DEF BucketType
<1>4. \A x \in Keys : Live(x)' <=> Live(x)
  BY <1>1, <1>2, <1>3 DEF Live
<1>5. LiveKeys' = LiveKeys
  BY <1>4 DEF LiveKeys
<1>6. ASSUME NEW x \in Keys
      PROVE  ProbeKept(x, seq) /\ (Older(x, seq) => Tightened(x))
  <2>1. CASE x = k
    BY <1>2, <2>1 DEF ProbeKept, Older, Tightened, Protected
  <2>2. CASE x # k
    BY <1>2, <1>3, <2>2 DEF ProbeKept, Tightened, Protected
  <2> QED
    BY <2>1, <2>2
<1> QED
  BY <1>1, <1>2, <1>4, <1>5, <1>6 DEF Answers

LEMMA ObserveAnswers ==
    ASSUME TablesInv, NEW a \in out, NEW k \in Keys, NEW missing \in BOOLEAN,
           ObserveCounts(a, k, missing), now' = now
    PROVE  Answers(a.sequence)
<1>1. a.sequence \in Nat /\ now \in Nat /\ overflowUntil \in Nat /\ bucket[k] \in BucketType
  BY DEF TablesInv, Typed, Attempts
<1>2. ASSUME NEW remaining \in Counts, NEW delay \in Delays, NEW limit \in Limits \cup {NoLimit},
             Store(k, Counted(a.sequence, remaining, delay, limit),
                   IF missing THEN Later(overflowUntil, now + delay) ELSE overflowUntil)
      PROVE  Answers(a.sequence)
  <2> DEFINE obs == Counted(a.sequence, remaining, delay, limit)
             overflow == IF missing THEN Later(overflowUntil, now + delay) ELSE overflowUntil
  <2>1. remaining \in Nat /\ delay \in Nat
    BY AmountsAssumption
  <2>2. obs \in Observations /\ obs.until > now /\ obs.sequence = a.sequence
    BY <1>1, <2>1, CountedIs
  <2>3. overflow \in Nat /\ overflow >= overflowUntil
    BY <1>1, <2>1 DEF Later
  <2>4. Store(k, obs, overflow)
    BY <1>2
  <2> HIDE DEF obs, overflow
  <2> QED
    BY <2>2, <2>3, <2>4, StoreAnswers
<1>3. CASE /\ bucket' = [bucket EXCEPT ![k] = IF Live(k) THEN Doubted(bucket[k], a.sequence) ELSE @]
           /\ UNCHANGED <<overflowUntil, refills>>
  <2>1. CASE Live(k)
    <3> DEFINE b == Doubted(bucket[k], a.sequence)
    <3>1. bucket' = [bucket EXCEPT ![k] = b]
      BY <1>3, <2>1
    <3>2. /\ b \in BucketType /\ b.until = bucket[k].until /\ b.remaining = bucket[k].remaining
          /\ b.probeRoute = bucket[k].probeRoute /\ b.probeSequence = bucket[k].probeSequence
          /\ a.sequence < bucket[k].sequence => b.next = bucket[k].next
      BY <1>1, DoubtedIs
    <3>3. b.until >= bucket[k].until
      BY <1>1, <3>2 DEF BucketType
    <3> HIDE DEF b
    <3> QED
      BY <1>3, <2>1, <3>1, <3>2, <3>3, InPlaceAnswers DEF Older
  <2>2. CASE ~Live(k)
    <3>1. bucket' = bucket
      BY <1>3, <2>2 DEF TablesInv, Typed
    <3>2. /\ bucket \in [Keys -> BucketType] /\ refills \in [Keys -> SUBSET Nat]
          /\ IsFiniteSet(LiveKeys) /\ Cardinality(LiveKeys) <= BucketCapacity /\ LiveKeys' = LiveKeys
      BY <3>1 DEF TablesInv, Typed, Bounded, LiveKeys, Live
    <3>3. \A x \in Keys : ProbeKept(x, a.sequence) /\ Tightened(x) /\ Live(x)' = Live(x)
      BY <3>1, <3>2 DEF ProbeKept, Tightened, Protected, Live, BucketType
    <3> QED
      BY <1>1, <1>3, <3>1, <3>2, <3>3 DEF Answers
  <2> QED
    BY <2>1, <2>2
<1> QED
  BY <1>2, <1>3 DEF ObserveCounts

LEMMA PauseAnswers ==
    ASSUME TablesInv, NEW d \in denied, Pause(d)
    PROVE  Answers(d.sequence)
<1>1. /\ d.sequence \in Nat /\ now \in Nat /\ overflowUntil \in Nat /\ now' = now
      /\ d.key \in Keys \cup {NoKey} /\ bucket \in [Keys -> BucketType] /\ refills \in [Keys -> SUBSET Nat]
  BY DEF TablesInv, Typed, Pause
<1>2. PICK delay \in Delays :
          IF d.key = NoKey
          THEN overflowUntil' = Later(overflowUntil, now + delay) /\ UNCHANGED <<bucket, refills>>
          ELSE IF Live(d.key) /\ bucket[d.key].limit # NoLimit /\ d.sequence >= bucket[d.key].sequence
          THEN /\ bucket' = [bucket EXCEPT ![d.key] =
                                Confirmed(ProbeSpent(bucket[d.key], d.sequence), now + delay, d.sequence)]
               /\ UNCHANGED <<overflowUntil, refills>>
          ELSE IF Live(d.key)
          THEN /\ bucket' = [bucket EXCEPT ![d.key] =
                                Merged(ProbeSpent(bucket[d.key], d.sequence), Counted(d.sequence, 0, delay, NoLimit))]
               /\ UNCHANGED <<overflowUntil, refills>>
          ELSE Store(d.key, Counted(d.sequence, 0, delay, NoLimit), overflowUntil)
  BY DEF Pause
<1> DEFINE obs == Counted(d.sequence, 0, delay, NoLimit)
<1>3. obs \in Observations /\ obs.until = now + delay /\ obs.until > now /\ obs.sequence = d.sequence
  BY <1>1, CountedIs
<1>4. now + delay \in Nat
  BY <1>1, AmountsAssumption
<1> HIDE DEF obs
<1>5. CASE d.key = NoKey
  <2>1. bucket' = bucket /\ refills' = refills /\ overflowUntil' = Later(overflowUntil, now + delay)
    BY <1>2, <1>5
  <2>2. /\ IsFiniteSet(LiveKeys) /\ Cardinality(LiveKeys) <= BucketCapacity /\ LiveKeys' = LiveKeys
    BY <1>1, <2>1 DEF TablesInv, Bounded, LiveKeys, Live
  <2>3. \A x \in Keys : ProbeKept(x, d.sequence) /\ Tightened(x) /\ Live(x)' = Live(x)
    BY <1>1, <2>1 DEF ProbeKept, Tightened, Protected, Live, BucketType
  <2>4. overflowUntil' \in Nat /\ overflowUntil' >= overflowUntil
    BY <1>1, <1>4, <2>1 DEF Later
  <2> QED
    BY <1>1, <2>1, <2>2, <2>3, <2>4 DEF Answers
<1>6. CASE d.key # NoKey
  <2> DEFINE k == d.key
             spent == ProbeSpent(bucket[k], d.sequence)
  <2>1. k \in Keys /\ bucket[k] \in BucketType
    BY <1>1, <1>6
  <2>2. /\ spent \in BucketType /\ spent.until = bucket[k].until /\ spent.remaining = bucket[k].remaining
        /\ spent.probeRoute = bucket[k].probeRoute /\ spent.probeSequence = bucket[k].probeSequence
        /\ spent.next = bucket[k].next /\ spent.sequence = bucket[k].sequence
    BY <1>1, <2>1, SpentIs
  <2>3. bucket[k].until \in Nat
    BY <2>1 DEF BucketType
  <2>4. CASE Live(k) /\ bucket[k].limit # NoLimit /\ d.sequence >= bucket[k].sequence
    <3> DEFINE b == Confirmed(spent, now + delay, d.sequence)
    <3>1. bucket' = [bucket EXCEPT ![k] = b] /\ refills' = refills /\ overflowUntil' = overflowUntil
      BY <1>2, <1>6, <2>4
    <3> HIDE DEF spent
    <3>2. /\ b \in BucketType /\ b.until = Later(spent.until, now + delay)
          /\ \/ b.probeRoute = NoRoute /\ b.probeSequence = NoSequence
             \/ b.probeRoute = spent.probeRoute /\ b.probeSequence = spent.probeSequence
          /\ d.sequence # spent.probeSequence =>
                 b.probeRoute = spent.probeRoute /\ b.probeSequence = spent.probeSequence
      BY <1>1, <1>4, <2>2, ConfirmedIs
    <3>3. b.until >= bucket[k].until
      BY <1>4, <2>2, <2>3, <3>2 DEF Later
    <3>4. ~Older(k, d.sequence)
      BY <1>1, <2>1, <2>4 DEF Older, BucketType
    <3> HIDE DEF b, k
    <3> QED
      BY <1>1, <2>1, <2>2, <2>4, <3>1, <3>2, <3>3, <3>4, InPlaceAnswers
  <2>5. CASE Live(k) /\ ~(bucket[k].limit # NoLimit /\ d.sequence >= bucket[k].sequence)
    <3> DEFINE b == Merged(spent, obs)
    <3>1. bucket' = [bucket EXCEPT ![k] = b] /\ refills' = refills /\ overflowUntil' = overflowUntil
      BY <1>2, <1>6, <2>5 DEF obs
    <3> HIDE DEF spent
    <3>2. /\ b \in BucketType /\ b.until = Later(spent.until, obs.until)
          /\ \/ b.probeRoute = NoRoute /\ b.probeSequence = NoSequence
             \/ b.probeRoute = spent.probeRoute /\ b.probeSequence = spent.probeSequence
          /\ obs.sequence # spent.probeSequence =>
                 /\ spent.probeRoute # NoRoute => b.probeRoute = spent.probeRoute
                                                  /\ b.probeSequence = spent.probeSequence
                 /\ spent.remaining = 0 => b.remaining = 0
                 /\ obs.sequence < spent.sequence => b.next = spent.next
      BY <1>3, <2>2, MergedIs
    <3>3. b.until >= bucket[k].until
      BY <1>3, <1>4, <2>2, <2>3, <3>2 DEF Later
    <3> HIDE DEF b, k
    <3> QED
      BY <1>1, <1>3, <2>1, <2>2, <2>5, <3>1, <3>2, <3>3, InPlaceAnswers DEF Older
  <2>6. CASE ~Live(k)
    <3>1. Store(k, obs, overflowUntil)
      BY <1>2, <1>6, <2>6 DEF obs
    <3>2. overflowUntil >= overflowUntil
      BY <1>1
    <3> HIDE DEF k
    <3> QED
      BY <1>1, <1>3, <2>1, <3>1, <3>2, StoreAnswers
  <2> QED
    BY <2>4, <2>5, <2>6
<1> QED
  BY <1>5, <1>6

-----------------------------------------------------------------------------
(* The invariant *)

LEMMA NumberedKept ==
    ASSUME TablesInv, NEW seq \in Nat, seq <= sequence, sequence' = sequence,
           out' \subseteq out, \A a \in out' : a.sequence # seq,
           \A d \in denied' : d \in denied \/ d.sequence = seq,
           \A t \in Routes : alias'[t].sequence \in {alias[t].sequence, seq, NoSequence},
           \A k \in Keys : refills'[k] \subseteq refills[k]
    PROVE  Numbered'
<1>1. Numbered /\ out \subseteq Attempts
  BY DEF TablesInv, Typed
<1>2. \A a \in out' : a.sequence # NoSequence
  BY <1>1 DEF Attempts, NoSequence
<1>3. \A t \in Routes : \A a \in out' : alias'[t].sequence # a.sequence
  BY <1>1, <1>2 DEF Numbered
<1>4. \A d \in denied' : d.sequence <= sequence /\ \A a \in out' : a.sequence # d.sequence
  BY <1>1 DEF Numbered
<1>5. \A t \in Routes : alias'[t].sequence <= sequence
  <2>1. NoSequence <= sequence
    BY DEF TablesInv, Typed, NoSequence
  <2> QED
    BY <1>1, <2>1 DEF Numbered
<1> QED
  BY <1>1, <1>3, <1>4, <1>5 DEF Numbered

\* An answer keeps the invariant.
LEMMA AnswerHolds ==
    ASSUME TablesInv, NEW seq \in Nat, seq <= sequence, now' = now, sequence' = sequence, Answers(seq),
           Aliases, \A t \in Routes : AliasMoves(t, seq),
           out' \subseteq out, \A a \in out' : a.sequence # seq,
           denied' \subseteq [sequence : Nat, key : Keys \cup {NoKey}],
           \A d \in denied' : d \in denied \/ d.sequence = seq
    PROVE  TablesInv'
<1>1. \A t \in Routes : /\ alias'[t] = NoAlias \/ alias'[t].key \in Keys
                        /\ alias'[t].sequence \in {alias[t].sequence, seq, NoSequence}
  BY MovedIs
<1>2. Numbered'
  BY <1>1, NumberedKept DEF Answers
<1>3. Typed'
  BY <1>1 DEF TablesInv, Typed, Answers, Aliases
<1>4. Probing'
  BY ProbingKept DEF Answers
<1>5. Bounded'
  BY DEF Bounded, Answers, Aliases
<1> QED
  BY <1>2, <1>3, <1>4, <1>5 DEF TablesInv

LEMMA ObserveIs ==
    ASSUME TablesInv, NEW a \in out, Observe(a)
    PROVE  /\ a.sequence \in Nat /\ a.sequence <= sequence /\ now' = now /\ sequence' = sequence
           /\ Answers(a.sequence) /\ Aliases /\ \A t \in Routes : AliasMoves(t, a.sequence)
           /\ out' = out \ {a}
           /\ denied' \subseteq [sequence : Nat, key : Keys \cup {NoKey}]
           /\ \A d \in denied' : d \in denied \/ d.sequence = a.sequence
<1>1. a.sequence \in Nat /\ a.sequence <= sequence /\ a.route \in Routes
  BY DEF TablesInv, Typed, Attempts, Numbered
<1>2. now' = now /\ sequence' = sequence /\ out' = out \ {a}
  BY DEF Observe
<1>3. PICK header \in Headers \cup {NoHeader}, missing \in BOOLEAN, limited \in BOOLEAN :
          LET k == IF header = NoHeader THEN KeyFor(a.route) ELSE KeyOf[<<header, a.route>>] IN
          /\ IF header = NoHeader THEN missing = FALSE /\ alias' = Touched(a.route)
                                  ELSE LearnBucket(a, header, missing)
          /\ ObserveCounts(a, k, missing)
          /\ denied' = IF limited
                       THEN denied \cup {[sequence |-> a.sequence, key |-> IF missing THEN NoKey ELSE k]}
                       ELSE denied
  BY DEF Observe
<1> DEFINE k == IF header = NoHeader THEN KeyFor(a.route) ELSE KeyOf[<<header, a.route>>]
<1>4. k \in Keys
  BY ObservedKey
<1>5. Answers(a.sequence)
  <2>1. ObserveCounts(a, k, missing)
    BY <1>3
  <2> HIDE DEF k
  <2> QED
    BY <1>2, <1>4, <2>1, ObserveAnswers
<1>6. Aliases /\ \A t \in Routes : AliasMoves(t, a.sequence)
  BY <1>1, <1>3, TouchedIs, TouchedMoves, LearnIs
<1>7. /\ denied' \subseteq [sequence : Nat, key : Keys \cup {NoKey}]
      /\ \A d \in denied' : d \in denied \/ d.sequence = a.sequence
  <2>1. denied' \subseteq denied \cup {[sequence |-> a.sequence, key |-> NoKey], [sequence |-> a.sequence, key |-> k]}
    BY <1>3
  <2>2. denied \subseteq [sequence : Nat, key : Keys \cup {NoKey}]
    BY DEF TablesInv, Typed
  <2> HIDE DEF k
  <2> QED
    BY <1>1, <1>4, <2>1, <2>2
<1> QED
  BY <1>1, <1>2, <1>5, <1>6, <1>7

LEMMA ObserveHolds ==
    ASSUME TablesInv, NEW a \in out, Observe(a)
    PROVE  TablesInv'
<1>1. \A b \in out \ {a} : b.sequence # a.sequence
  BY DEF TablesInv, Numbered
<1>2. out' \subseteq out /\ \A b \in out' : b.sequence # a.sequence
  BY <1>1, ObserveIs
<1> QED
  BY <1>2, ObserveIs, AnswerHolds

LEMMA PauseHolds ==
    ASSUME TablesInv, NEW d \in denied, Pause(d)
    PROVE  TablesInv'
<1>1. /\ d.sequence \in Nat /\ d.sequence <= sequence /\ \A a \in out : a.sequence # d.sequence
      /\ now' = now /\ sequence' = sequence /\ alias' = alias /\ out' = out /\ denied' = denied \ {d}
      /\ denied \subseteq [sequence : Nat, key : Keys \cup {NoKey}]
  BY DEF TablesInv, Typed, Numbered, Pause
<1>2. Aliases /\ \A t \in Routes : AliasMoves(t, d.sequence)
  BY <1>1 DEF TablesInv, Typed, Bounded, Aliases, AliasMoves, Aliased
<1> QED
  BY <1>1, <1>2, PauseAnswers, AnswerHolds

\* What leaves buckets alone answers none.
LEMMA NoAnswers ==
    ASSUME TablesInv, NEW seq, bucket' = bucket, overflowUntil' = overflowUntil, now' = now,
           refills' \in [Keys -> SUBSET Nat], \A k \in Keys : refills'[k] \subseteq refills[k]
    PROVE  Answers(seq)
<1>1. /\ bucket \in [Keys -> BucketType] /\ overflowUntil \in Nat
      /\ IsFiniteSet(LiveKeys) /\ Cardinality(LiveKeys) <= BucketCapacity /\ LiveKeys' = LiveKeys
  BY DEF TablesInv, Typed, Bounded, LiveKeys, Live
<1>2. \A x \in Keys : ProbeKept(x, seq) /\ Tightened(x) /\ Live(x)' = Live(x)
  BY <1>1 DEF ProbeKept, Tightened, Protected, Live, BucketType
<1> QED
  BY <1>1, <1>2 DEF Answers

LEMMA QuietHolds ==
    ASSUME TablesInv, \/ \E t \in Routes : Ask(t)
                      \/ \E a \in out : Lost(a)
                      \/ \E d \in denied : NoPause(d)
    PROVE  TablesInv'
<1>1. /\ refills \in [Keys -> SUBSET Nat] /\ sequence \in Nat /\ out \subseteq Attempts
      /\ denied \subseteq [sequence : Nat, key : Keys \cup {NoKey}]
      /\ alias' = alias => \A seq : Aliases /\ \A t \in Routes : AliasMoves(t, seq)
  BY DEF TablesInv, Typed, Bounded, Aliases, AliasMoves, Aliased
<1>2. \A a \in out : a.sequence # 0 /\ a.sequence \in Nat /\ a.sequence <= sequence
  BY <1>1 DEF Attempts, TablesInv, Numbered
<1>3. ASSUME NEW t \in Routes, Ask(t)
      PROVE  TablesInv'
  <2>1. /\ alias' = Touched(t) /\ now' = now /\ bucket' = bucket /\ sequence' = sequence /\ refills' = refills
        /\ overflowUntil' = overflowUntil /\ out' = out /\ denied' = denied
    BY <1>3 DEF Ask
  <2>2. Aliases /\ \A x \in Routes : AliasMoves(x, 0)
    BY <2>1, TouchedIs, TouchedMoves
  <2>3. Answers(0)
    BY <1>1, <2>1, NoAnswers
  <2>4. 0 \in Nat /\ 0 <= sequence
    BY <1>1
  <2> QED
    BY <1>1, <1>2, <2>1, <2>2, <2>3, <2>4, AnswerHolds
<1>4. ASSUME NEW a \in out, Lost(a)
      PROVE  TablesInv'
  <2>1. /\ now' = now /\ alias' = alias /\ bucket' = bucket /\ sequence' = sequence
        /\ overflowUntil' = overflowUntil /\ out' = out \ {a} /\ denied' = denied
        /\ refills' = [k \in Keys |-> refills[k] \ {a.sequence}]
    BY <1>4 DEF Lost, learned
  <2>2. \A b \in out' : b.sequence # a.sequence
    BY <2>1 DEF TablesInv, Numbered
  <2>3. Answers(a.sequence)
    BY <1>1, <2>1, NoAnswers
  <2> QED
    BY <1>1, <1>2, <2>1, <2>2, <2>3, AnswerHolds
<1>5. ASSUME NEW d \in denied, NoPause(d)
      PROVE  TablesInv'
  <2>1. /\ now' = now /\ alias' = alias /\ bucket' = bucket /\ sequence' = sequence
        /\ overflowUntil' = overflowUntil /\ out' = out /\ denied' = denied \ {d} /\ refills' = refills
    BY <1>5 DEF NoPause, learned
  <2>2. Answers(0) /\ 0 \in Nat /\ 0 <= sequence
    BY <1>1, <2>1, NoAnswers
  <2> QED
    BY <1>1, <1>2, <2>1, <2>2, AnswerHolds
<1> QED
  BY <1>3, <1>4, <1>5

-----------------------------------------------------------------------------
(* Entering *)

\* A request enters a bucket that has none left as the probe of its refill only.
LEMMA ReservedIs ==
    ASSUME TablesInv, NEW t \in Routes, Wait(t) = 0, NEW k, k = KeyFor(t), NEW b, b = Reserved(k, t)
    PROVE  /\ k \in Keys /\ b \in BucketType
           /\ b.until = bucket[k].until /\ b.next = bucket[k].next
           /\ b.probeSequence = bucket[k].probeSequence
           /\ Protected(k) => bucket[k].probeRoute = NoRoute /\ b.probeRoute = t /\ b.remaining = 0
           /\ ~Protected(k) => b.probeRoute = bucket[k].probeRoute
<1>1. k \in Keys /\ bucket[k] \in BucketType /\ now \in Nat /\ overflowUntil \in Nat /\ NoRoute # t
  BY AliasIs, RoutesAssumption DEF TablesInv, Typed
<1>2. /\ bucket[k].until \in Nat /\ bucket[k].next \in Nat \cup {NoTime} /\ bucket[k].remaining \in Nat
  BY <1>1 DEF BucketType
<1>3. BucketWait(k, FALSE) <= now
  <2>1. AliasOf(t).carryUntil \in Nat /\ BucketWait(k, FALSE) \in Nat
    BY <1>1, AliasIs, WaitIs
  <2> DEFINE wait == BucketWait(k, FALSE)
             carry == AliasOf(t).carryUntil
             until == Later(overflowUntil, Later(carry, wait))
  <2>2. Wait(t) = IF until > now THEN until ELSE 0
    BY DEF Wait, WaitUntil
  <2> HIDE DEF wait, carry
  <2>3. until \in Nat /\ until >= wait /\ wait \in Nat
    <3>1. wait \in Nat /\ carry \in Nat
      BY <2>1 DEF wait, carry
    <3> QED
      BY <1>1, <3>1 DEF Later
  <2> HIDE DEF until
  <2>4. ~(until > now)
    BY <1>1, <2>2, <2>3
  <2>5. wait <= now
    BY <1>1, <2>3, <2>4
  <2> QED
    BY <2>5 DEF wait
<1>4. Protected(k) => /\ bucket[k].probeRoute = NoRoute /\ bucket[k].next # NoTime /\ bucket[k].next <= now
                      /\ bucket[k].remaining = 0 /\ Live(k)
  BY <1>1, <1>2, <1>3 DEF BucketWait, Protected, Live
<1>5. CASE Protected(k)
  <2>1. b = [bucket[k] EXCEPT !.probeRoute = t]
    BY <1>2, <1>4, <1>5 DEF Reserved
  <2> QED
    BY <1>1, <1>4, <1>5, <2>1 DEF BucketType
<1>6. CASE ~Protected(k)
  <2>1. CASE b = bucket[k]
    BY <1>1, <1>6, <2>1
  <2>2. CASE bucket[k].remaining > 0 /\ b = [bucket[k] EXCEPT !.remaining = @ - 1]
    <3>1. bucket[k].remaining - 1 \in Nat
      BY <1>2, <2>2
    <3> QED
      BY <1>1, <1>6, <2>2, <3>1 DEF BucketType
  <2> QED
    BY <1>2, <1>6, <2>1, <2>2 DEF Reserved, Protected
<1> QED
  BY <1>5, <1>6

\* What a request of a route that enters a bucket does; "sent" when it leaves
Enters(t, k, sent) ==
    /\ k \in Keys /\ sequence' = (IF sent THEN sequence + 1 ELSE sequence)
    /\ sequence + 1 <= MaxSequence /\ alias' = Touched(t)
    /\ now' = now /\ overflowUntil' = overflowUntil /\ denied' = denied
    /\ bucket' \in [Keys -> BucketType] /\ \A x \in Keys : x # k => bucket'[x] = bucket[x]
    /\ bucket'[k].until = bucket[k].until /\ bucket'[k].next = bucket[k].next
    /\ bucket[k].probeRoute # NoRoute => bucket'[k].probeRoute = bucket[k].probeRoute
    /\ bucket[k].probeSequence # NoSequence => bucket'[k].probeSequence = bucket[k].probeSequence
    /\ bucket'[k].probeRoute = NoRoute => bucket'[k].probeSequence = NoSequence
    /\ Protected(k) =>
           /\ bucket[k].probeRoute = NoRoute /\ bucket'[k].probeRoute # NoRoute
           /\ bucket'[k].remaining = 0 /\ (sent => bucket'[k].probeSequence = sequence + 1)
    /\ out' = IF sent THEN out \cup {[route |-> t, sequence |-> sequence + 1]} ELSE out
    /\ refills' = IF sent /\ Protected(k) THEN [refills EXCEPT ![k] = @ \cup {sequence + 1}] ELSE refills

LEMMA EnterIs ==
    ASSUME TablesInv, NEW t \in Routes, Enter(t)
    PROVE  \E sent \in BOOLEAN : Enters(t, KeyFor(t), sent)
<1>1. PICK sent \in BOOLEAN :
          /\ sequence' = IF sent THEN sequence + 1 ELSE sequence
          /\ bucket' = [bucket EXCEPT ![KeyFor(t)] =
                           IF sent THEN Begun(Reserved(KeyFor(t), t), t, sequence + 1)
                           ELSE Reserved(KeyFor(t), t)]
          /\ out' = IF sent THEN out \cup {[route |-> t, sequence |-> sequence + 1]} ELSE out
          /\ refills' = IF sent /\ Protected(KeyFor(t)) THEN [refills EXCEPT ![KeyFor(t)] = @ \cup {sequence + 1}]
                        ELSE refills
  BY DEF Enter
<1>2. Wait(t) = 0 /\ sequence < MaxSequence /\ alias' = Touched(t)
      /\ now' = now /\ overflowUntil' = overflowUntil /\ denied' = denied
  BY DEF Enter
<1> DEFINE k == KeyFor(t)
           b == Reserved(k, t)
           begun == IF sent THEN Begun(b, t, sequence + 1) ELSE b
<1>3. /\ k \in Keys /\ b \in BucketType
      /\ b.until = bucket[k].until /\ b.next = bucket[k].next
      /\ b.probeSequence = bucket[k].probeSequence
      /\ Protected(k) => bucket[k].probeRoute = NoRoute /\ b.probeRoute = t /\ b.remaining = 0
      /\ ~Protected(k) => b.probeRoute = bucket[k].probeRoute
  BY <1>2, ReservedIs
<1>4. bucket \in [Keys -> BucketType] /\ sequence \in Nat /\ MaxSequence \in Nat /\ t # NoRoute
      /\ (bucket[k].probeRoute = NoRoute => bucket[k].probeSequence = NoSequence)
  BY <1>3, RoutesAssumption, AmountsAssumption DEF TablesInv, Typed, Probing
<1>5. bucket' = [bucket EXCEPT ![k] = begun]
  BY <1>1
<1> HIDE DEF k, b
<1>6. /\ begun \in BucketType /\ begun.until = b.until /\ begun.next = b.next /\ begun.probeRoute = b.probeRoute
      /\ begun.remaining = b.remaining
      /\ begun.probeSequence = b.probeSequence
         \/ (sent /\ b.probeRoute = t /\ b.probeSequence = NoSequence /\ begun.probeSequence = sequence + 1)
      /\ sent /\ b.probeRoute = t /\ b.probeSequence = NoSequence => begun.probeSequence = sequence + 1
  <2>1. CASE begun = b /\ ~(sent /\ b.probeRoute = t /\ b.probeSequence = NoSequence)
    BY <1>3, <2>1
  <2>2. CASE /\ begun = [b EXCEPT !.probeSequence = sequence + 1]
             /\ sent /\ b.probeRoute = t /\ b.probeSequence = NoSequence
    <3>1. sequence + 1 \in Nat
      BY <1>4
    <3> QED
      BY <1>3, <2>2, <3>1 DEF BucketType
  <2> QED
    BY <2>1, <2>2 DEF Begun
<1> HIDE DEF begun
<1>7. /\ bucket' \in [Keys -> BucketType] /\ bucket'[k] = begun /\ \A x \in Keys : x # k => bucket'[x] = bucket[x]
  BY <1>3, <1>4, <1>5, <1>6
<1>8. sequence + 1 <= MaxSequence
  BY <1>2, <1>4
<1>9. Protected(k) => /\ bucket[k].probeRoute = NoRoute /\ begun.probeRoute = t /\ begun.remaining = 0
                      /\ (sent => begun.probeSequence = sequence + 1)
  BY <1>3, <1>4, <1>6
<1>10. /\ bucket[k].probeRoute # NoRoute => begun.probeRoute = bucket[k].probeRoute
       /\ bucket[k].probeSequence # NoSequence => begun.probeSequence = bucket[k].probeSequence
       /\ begun.probeRoute = NoRoute => begun.probeSequence = NoSequence
  BY <1>3, <1>4, <1>6
<1>11. /\ sequence' = (IF sent THEN sequence + 1 ELSE sequence)
       /\ out' = IF sent THEN out \cup {[route |-> t, sequence |-> sequence + 1]} ELSE out
       /\ refills' = IF sent /\ Protected(k) THEN [refills EXCEPT ![k] = @ \cup {sequence + 1}] ELSE refills
  BY <1>1 DEF k
<1>12. /\ bucket'[k].until = bucket[k].until /\ bucket'[k].next = bucket[k].next
       /\ bucket[k].probeRoute # NoRoute => bucket'[k].probeRoute = bucket[k].probeRoute
       /\ bucket[k].probeSequence # NoSequence => bucket'[k].probeSequence = bucket[k].probeSequence
       /\ bucket'[k].probeRoute = NoRoute => bucket'[k].probeSequence = NoSequence
       /\ Protected(k) =>
              /\ bucket[k].probeRoute = NoRoute /\ bucket'[k].probeRoute # NoRoute
              /\ bucket'[k].remaining = 0 /\ (sent => bucket'[k].probeSequence = sequence + 1)
  BY <1>3, <1>4, <1>6, <1>7, <1>9, <1>10
<1>13. Enters(t, k, sent)
  BY <1>2, <1>3, <1>7, <1>8, <1>11, <1>12 DEF Enters
<1> QED
  BY <1>13 DEF k

LEMMA EnterHolds ==
    ASSUME TablesInv, NEW t \in Routes, Enter(t)
    PROVE  TablesInv'
<1> DEFINE k == KeyFor(t)
<1>0. PICK sent \in BOOLEAN : Enters(t, k, sent)
  BY EnterIs
<1> HIDE DEF k
<1>1. /\ k \in Keys /\ sequence' = (IF sent THEN sequence + 1 ELSE sequence)
      /\ sequence + 1 <= MaxSequence /\ alias' = Touched(t)
      /\ now' = now /\ overflowUntil' = overflowUntil /\ denied' = denied
      /\ bucket' \in [Keys -> BucketType] /\ \A x \in Keys : x # k => bucket'[x] = bucket[x]
      /\ bucket'[k].until = bucket[k].until /\ bucket'[k].next = bucket[k].next
      /\ bucket[k].probeRoute # NoRoute => bucket'[k].probeRoute = bucket[k].probeRoute
      /\ bucket[k].probeSequence # NoSequence => bucket'[k].probeSequence = bucket[k].probeSequence
      /\ bucket'[k].probeRoute = NoRoute => bucket'[k].probeSequence = NoSequence
      /\ Protected(k) =>
             /\ bucket[k].probeRoute = NoRoute /\ bucket'[k].probeRoute # NoRoute
             /\ bucket'[k].remaining = 0 /\ (sent => bucket'[k].probeSequence = sequence + 1)
      /\ out' = IF sent THEN out \cup {[route |-> t, sequence |-> sequence + 1]} ELSE out
      /\ refills' = IF sent /\ Protected(k) THEN [refills EXCEPT ![k] = @ \cup {sequence + 1}] ELSE refills
  BY <1>0 DEF Enters
<1> DEFINE new == [route |-> t, sequence |-> sequence + 1]
<1>2. Typed /\ Numbered /\ Probing /\ Bounded /\ sequence \in Nat /\ MaxSequence \in Nat
  BY AmountsAssumption DEF TablesInv, Typed
<1>3. Aliases /\ \A x \in Routes : AliasMoves(x, 0)
  BY <1>1, TouchedIs, TouchedMoves
<1>4. \A x \in Routes : /\ alias'[x] = NoAlias \/ alias'[x].key \in Keys
                        /\ alias'[x].sequence \in {alias[x].sequence, 0}
  BY <1>3, MovedIs DEF NoSequence
<1>5. sequence + 1 \in 1..MaxSequence /\ new \in Attempts /\ new.sequence = sequence + 1
  BY <1>1, <1>2 DEF Attempts
<1> HIDE DEF new
<1>6. /\ refills' \in [Keys -> SUBSET Nat]
      /\ \A x \in Keys : \A n \in refills'[x] : n \in refills[x] \/ (sent /\ Protected(k) /\ x = k /\ n = sequence + 1)
      /\ out' \subseteq Attempts /\ \A a \in out' : a \in out \/ (sent /\ a = new)
  BY <1>1, <1>2, <1>5 DEF Typed, new
<1>7. Typed'
  BY <1>1, <1>2, <1>3, <1>4, <1>6 DEF Typed, Aliases
<1>8. Numbered'
  <2>1. sequence' \in Nat /\ sequence' <= MaxSequence /\ sequence <= sequence' /\ (sent => sequence' = sequence + 1)
    BY <1>1, <1>2 DEF Numbered
  <2>2. \A a \in out : a.sequence \in Nat /\ a.sequence >= 1 /\ a.sequence <= sequence /\ a.sequence # sequence + 1
    BY <1>2 DEF Typed, Attempts, Numbered
  <2>3. \A d \in denied : d.sequence \in Nat /\ d.sequence <= sequence /\ d.sequence # sequence + 1
    BY <1>2 DEF Typed, Numbered
  <2>4. \A a \in out' : a.sequence <= sequence'
    BY <1>2, <1>5, <1>6, <2>1, <2>2
  <2>5. \A d \in denied' : d.sequence <= sequence' /\ \A a \in out' : a.sequence # d.sequence
    <3>1. \A d \in denied : d.sequence <= sequence'
      BY <1>2, <2>1, <2>3
    <3> QED
      BY <1>1, <1>2, <1>5, <1>6, <2>3, <3>1 DEF Numbered
  <2>6. \A a, b \in out' : a.sequence = b.sequence => a = b
    BY <1>2, <1>5, <1>6, <2>2 DEF Numbered
  <2>7. \A x \in Routes : \A a \in out' : alias'[x].sequence # a.sequence
    <3>1. \A x \in Routes : alias[x].sequence # sequence + 1 /\ 0 # sequence + 1
      BY <1>2 DEF Typed, AliasType, Numbered
    <3>2. \A a \in out' : a.sequence # 0
      BY <1>2, <1>5, <1>6, <2>2
    <3> QED
      BY <1>2, <1>4, <1>5, <1>6, <3>1, <3>2 DEF Numbered
  <2>8. \A x \in Keys : \A n \in refills'[x] : n <= sequence'
    <3>1. \A x \in Keys : \A n \in refills[x] : n \in Nat /\ n <= sequence
      BY <1>2 DEF Typed, Numbered
    <3> QED
      BY <1>2, <1>6, <2>1, <3>1
  <2>9. \A x \in Routes : alias'[x].sequence <= sequence'
    <3>1. \A x \in Routes : alias[x].sequence \in Nat /\ alias[x].sequence <= sequence
      BY <1>2 DEF Typed, AliasType, Numbered
    <3> QED
      BY <1>2, <1>4, <2>1, <3>1
  <2> QED
    BY <2>1, <2>4, <2>5, <2>6, <2>7, <2>8, <2>9 DEF Numbered
<1>9. Probing'
  <2>1. \A x \in Keys : Live(x)' <=> Live(x)
    BY <1>1 DEF Live
  <2>2. \A a \in out : a.sequence # sequence + 1 /\ a.sequence # NoSequence
    BY <1>2 DEF Typed, Attempts, Numbered, NoSequence
  <2>3. \A x \in Keys : sequence + 1 \notin refills[x]
    <3>1. \A x \in Keys : \A n \in refills[x] : n \in Nat /\ n <= sequence
      BY <1>2 DEF Typed, Numbered
    <3> QED
      BY <1>2, <3>1
  <2>4. ASSUME NEW x \in Keys, Live(x)', NEW a \in out', a.sequence \in refills'[x]
        PROVE  bucket'[x].probeRoute # NoRoute /\ bucket'[x].probeSequence = a.sequence
    <3>1. CASE a \in out /\ a.sequence \in refills[x]
      <4>1. bucket[x].probeRoute # NoRoute /\ bucket[x].probeSequence = a.sequence
        BY <1>2, <2>1, <2>4, <3>1 DEF Probing
      <4> QED
        BY <1>1, <2>2, <3>1, <4>1
    <3>2. CASE sent /\ Protected(k) /\ x = k /\ a = new
      BY <1>1, <1>5, <3>2
    <3> QED
      BY <1>5, <1>6, <2>2, <2>3, <2>4, <3>1, <3>2
  <2>5. \A x \in Keys : bucket'[x].probeRoute = NoRoute => bucket'[x].probeSequence = NoSequence
    BY <1>1, <1>2 DEF Probing
  <2> QED
    BY <2>4, <2>5 DEF Probing
<1>10. Bounded'
  <2>1. LiveKeys' = LiveKeys
    BY <1>1 DEF LiveKeys, Live
  <2> QED
    BY <1>2, <1>3, <2>1 DEF Bounded, Aliases
<1> QED
  BY <1>7, <1>8, <1>9, <1>10 DEF TablesInv

-----------------------------------------------------------------------------

LEMMA ClearHolds ==
    ASSUME TablesInv, Clear
    PROVE  TablesInv'
<1>1. Typed /\ Numbered /\ now \in Nat /\ sequence \in Nat /\ MaxSequence \in Nat
  BY AmountsAssumption DEF TablesInv, Typed
<1>2. /\ alias' = [t \in Routes |-> NoAlias] /\ bucket' = [k \in Keys |-> Blank] /\ overflowUntil' = 0
      /\ sequence' = MaxSequence /\ refills' = [k \in Keys |-> {}]
      /\ now' = now /\ out' = out /\ denied' = denied
  BY DEF Clear
<1>3. Typed'
  BY <1>1, <1>2, BlankIs, NoAliasIs DEF Typed
<1>4. Numbered'
  <2>1. \A a \in out : a.sequence \in Nat /\ a.sequence # 0 /\ a.sequence <= MaxSequence
    BY <1>1 DEF Typed, Attempts
  <2>2. \A d \in denied : d.sequence <= MaxSequence
    BY <1>1 DEF Typed, Numbered
  <2> QED
    BY <1>1, <1>2, <2>1, <2>2, NoAliasIs DEF Numbered
<1>5. Probing'
  BY <1>2, BlankIs DEF Probing
<1>6. Bounded'
  <2>1. LiveKeys' = {} /\ Aliased' = {}
    BY <1>1, <1>2, BlankIs DEF LiveKeys, Live, Aliased
  <2> QED
    BY <2>1, FS_EmptySet, AmountsAssumption DEF Bounded
<1> QED
  BY <1>3, <1>4, <1>5, <1>6 DEF TablesInv

LEMMA TickIs ==
    ASSUME TablesInv, Tick
    PROVE  /\ now' = now + 1 /\ now \in Nat
           /\ alias' = alias /\ sequence' = sequence /\ overflowUntil' = overflowUntil
           /\ out' = out /\ denied' = denied
           /\ \A k \in Keys : \/ bucket[k].until <= now + 1 /\ bucket'[k] = Blank /\ refills'[k] = {}
                              \/ bucket[k].until > now + 1 /\ bucket'[k] = bucket[k] /\ refills'[k] = refills[k]
           /\ bucket' \in [Keys -> BucketType] /\ refills' \in [Keys -> SUBSET Nat]
<1>1. /\ bucket \in [Keys -> BucketType] /\ refills \in [Keys -> SUBSET Nat] /\ now \in Nat
      /\ \A k \in Keys : bucket[k].until \in Nat
  BY DEF TablesInv, Typed, BucketType
<1>2. /\ now' = now + 1 /\ UNCHANGED <<alias, sequence, overflowUntil, out, denied>>
      /\ bucket' = [k \in Keys |-> IF bucket[k].until <= now + 1 THEN Blank ELSE bucket[k]]
      /\ refills' = [k \in Keys |-> IF bucket[k].until <= now + 1 THEN {} ELSE refills[k]]
  BY DEF Tick
<1> QED
  BY <1>1, <1>2, BlankIs

LEMMA TickHolds ==
    ASSUME TablesInv, Tick
    PROVE  TablesInv'
<1>1. Typed /\ Numbered /\ Probing /\ Bounded
  BY DEF TablesInv
<1>2. Typed'
  BY <1>1, TickIs DEF Typed
<1>3. Numbered'
  BY <1>1, TickIs DEF Numbered
<1>4. \A k \in Keys : bucket[k].until \in Nat /\ (Live(k)' => Live(k) /\ bucket'[k] = bucket[k])
  <2>1. \A k \in Keys : bucket[k].until \in Nat
    BY <1>1 DEF Typed, BucketType
  <2> QED
    BY <2>1, TickIs, BlankIs DEF Live
<1>5. Probing'
  BY <1>1, <1>4, TickIs, BlankIs DEF Probing
<1>6. Bounded'
  <2>1. Aliased' = Aliased /\ LiveKeys' \subseteq LiveKeys
    BY <1>4, TickIs DEF Aliased, LiveKeys
  <2>2. IsFiniteSet(LiveKeys') /\ Cardinality(LiveKeys') <= Cardinality(LiveKeys)
    BY <1>1, <2>1, FS_Subset DEF Bounded
  <2>3. Cardinality(LiveKeys) \in Nat /\ Cardinality(LiveKeys') \in Nat /\ BucketCapacity \in Nat
    BY <1>1, <2>2, FS_CardinalityType, AmountsAssumption DEF Bounded
  <2> QED
    BY <1>1, <2>1, <2>2, <2>3 DEF Bounded
<1> QED
  BY <1>2, <1>3, <1>5, <1>6 DEF TablesInv

LEMMA InitTables == Init => TablesInv
<1> SUFFICES ASSUME Init
             PROVE  TablesInv
  OBVIOUS
<1>1. Typed
  BY BlankIs, NoAliasIs DEF Init, Typed
<1>2. Numbered /\ Probing
  BY AmountsAssumption, NoAliasIs, BlankIs DEF Init, Numbered, Probing
<1>3. LiveKeys = {} /\ Aliased = {}
  BY BlankIs DEF Init, LiveKeys, Live, Aliased
<1>4. Bounded
  BY <1>3, FS_EmptySet, AmountsAssumption DEF Bounded
<1> QED
  BY <1>1, <1>2, <1>4 DEF TablesInv

LEMMA TablesKept ==
    ASSUME TablesInv, [Next]_vars
    PROVE  TablesInv'
<1>1. CASE UNCHANGED vars
  BY <1>1 DEF vars, learned, TablesInv, Typed, Numbered, Probing, Bounded, LiveKeys, Live, Aliased
<1>2. CASE Next
  BY <1>2, QuietHolds, EnterHolds, ObserveHolds, PauseHolds, ClearHolds, TickHolds DEF Next
<1> QED
  BY <1>1, <1>2

LEMMA InvSound ==
    ASSUME TablesInv
    PROVE  TablesSound
<1>1. TypeOK
  BY DEF TablesInv, Typed, Bounded, TypeOK, AliasType, LiveKeys
<1>2. OneRefillProbe
  <2> SUFFICES ASSUME NEW k \in Keys, Live(k)
               PROVE  Cardinality({a \in out : a.sequence \in refills[k]}) <= 1
    BY DEF OneRefillProbe
  <2> DEFINE probes == {a \in out : a.sequence \in refills[k]}
  <2>1. \A a, b \in probes : a = b
    BY DEF TablesInv, Probing, Numbered
  <2>2. CASE probes = {}
    BY <2>2, FS_EmptySet
  <2>3. ASSUME NEW a \in probes
        PROVE  Cardinality(probes) <= 1
    <3>1. probes = {a}
      BY <2>1
    <3>2. Cardinality({a}) = 1
      BY FS_Singleton
    <3> HIDE DEF probes
    <3> QED
      BY <3>1, <3>2
  <2> QED
    BY <2>2, <2>3
<1> QED
  BY <1>1, <1>2 DEF TablesSound

\* However responses are reordered and routes move between buckets, the learned tables stay within
\* their capacity and no two requests test the refill of one bucket, for any number of routes,
\* buckets and headers and any capacities (#store, #roomFor, #learnBucket and reserve of RateLimits).
THEOREM TablesStaySound == Spec => []TablesSound
<1>1. Init => TablesInv
  BY InitTables
<1>2. TablesInv /\ [Next]_vars => TablesInv'
  BY TablesKept
<1>3. TablesInv => TablesSound
  BY InvSound
<1> QED
  BY <1>1, <1>2, <1>3, PTL DEF Spec

-----------------------------------------------------------------------------
(* What the steps keep *)

\* Only the answer of a newer attempt moves a route that has a bucket to another one.
LEMMA NewestStep ==
    ASSUME TablesInv, Next, NEW t \in Routes,
           AliasOf(t) # NoAlias, alias'[t].key # AliasOf(t).key, alias'[t] # NoAlias
    PROVE  alias'[t].sequence > alias[t].sequence
<1>1. AliasOf(t) = alias[t] /\ alias[t] \in AliasType /\ alias \in [Routes -> AliasType]
  BY AliasIs DEF TablesInv, Typed
<1>2. alias'[t] # alias[t]
  BY <1>1
<1>3. ASSUME NEW a \in out, Observe(a)
      PROVE  alias'[t].sequence > alias[t].sequence
  <2>1. AliasMoves(t, a.sequence) /\ a.sequence \in Nat /\ alias[t].sequence # a.sequence
    BY <1>3, ObserveIs DEF TablesInv, Numbered
  <2>2. alias[t].sequence \in Nat
    BY <1>1 DEF AliasType
  <2>3. CASE alias'[t] = [AliasOf(t) EXCEPT !.expires = now + AliasIdle]
    BY <1>1, <2>3 DEF AliasType
  <2>4. CASE a.sequence >= AliasOf(t).sequence /\ \E k \in Keys : alias'[t] = Learnt(t, k, a.sequence)
    <3>1. alias'[t].sequence = a.sequence
      BY <2>4 DEF Learnt
    <3> QED
      BY <1>1, <2>1, <2>2, <2>4, <3>1
  <2> QED
    BY <1>2, <2>1, <2>3, <2>4 DEF AliasMoves
<1>4. ASSUME NEW x \in Routes, alias' = Touched(x)
      PROVE  FALSE
  <2>1. AliasMoves(t, 0) /\ (alias'[t] = alias[t] \/ alias'[t] = NoAlias
                             \/ alias'[t] = [AliasOf(t) EXCEPT !.expires = now + AliasIdle])
    BY <1>1, <1>4, TouchedMoves DEF Touched
  <2> QED
    BY <1>1, <1>2, <2>1 DEF AliasType
<1>5. CASE Clear
  BY <1>5 DEF Clear
<1>6. alias' # alias
  BY <1>2
<1> QED
  BY <1>3, <1>4, <1>5, <1>6 DEF Next, Ask, Enter, Lost, Pause, NoPause, Tick, learned

\* A newer response's mapping of a route to a bucket is not undone by an older one, however many
\* answers are under way and in whatever order they come (#learnBucket).
THEOREM NewestMappingsKept == Spec => NewestMappingKept
<1> DEFINE Newest == \A t \in Routes :
               AliasOf(t) # NoAlias /\ alias'[t].key # AliasOf(t).key /\ alias'[t] # NoAlias
                   => alias'[t].sequence > alias[t].sequence
<1>1. Init => TablesInv
  BY InitTables
<1>2. TablesInv /\ [Next]_vars => TablesInv'
  BY TablesKept
<1>3. TablesInv /\ [Next]_vars => [Newest]_vars
  BY NewestStep
<1> QED
  BY <1>1, <1>2, <1>3, PTL DEF Spec, NewestMappingKept

-----------------------------------------------------------------------------
(* Denials *)

LEMMA DenialIs ==
    ASSUME TablesInv, NEW k \in Keys
    PROVE  Denial(k) \in Nat /\ (~Protected(k) => Denial(k) = 0)
BY WaitIs DEF Denial

\* A bucket's wait is not shortened, and it goes on denying.
LEMMA WaitKept ==
    ASSUME TablesInv, TablesInv', NEW k \in Keys, now' = now, Tightened(k)
    PROVE  /\ Denial(k)' >= Denial(k)
           /\ Protected(k) => Protected(k)'
<1>1. /\ bucket[k] \in BucketType /\ bucket'[k] \in BucketType /\ now \in Nat
  BY DEF TablesInv, Typed
<1>2. /\ bucket[k].until \in Nat /\ bucket[k].next \in Nat \cup {-1}
      /\ bucket'[k].until \in Nat /\ bucket'[k].next \in Nat \cup {-1}
  BY <1>1 DEF BucketType, NoTime
<1>3. Denial(k)' >= 0
  BY <1>1, <1>2 DEF Denial, BucketWait, NoTime
<1>4. CASE ~Protected(k)
  <2>1. Denial(k) = 0
    BY <1>4 DEF Denial, BucketWait
  <2> QED
    BY <1>3, <1>4, <2>1
<1>5. CASE Protected(k)
  <2>1. /\ bucket'[k].remaining = 0 /\ bucket'[k].until >= bucket[k].until
        /\ bucket'[k].next = bucket[k].next
        /\ bucket[k].probeRoute # NoRoute => bucket'[k].probeRoute # NoRoute
    BY <1>5 DEF Tightened
  <2>2. Protected(k)'
    BY <1>1, <1>2, <1>5, <2>1 DEF Protected, Live
  <2>3. Denial(k)' >= Denial(k)
    BY <1>2, <1>5, <2>1, <2>2 DEF Denial, BucketWait, NoTime
  <2> QED
    BY <2>2, <2>3
<1> QED
  BY <1>4, <1>5

\* A route waits as long as before when what it waited for is still there, or taken along.
LEMMA WaitParts ==
    ASSUME TablesInv, TablesInv', NEW t \in Routes, now' >= now, overflowUntil' >= overflowUntil,
           Wait(t) > now', NEW w \in Nat, w = Denial(KeyFor(t)),
           NEW c \in Nat, c = AliasOf(t).carryUntil,
           c <= now' \/ AliasOf(t)'.carryUntil >= c,
           w <= now' \/ Denial(KeyFor(t))' >= w \/ AliasOf(t)'.carryUntil >= w
    PROVE  Wait(t)' >= Wait(t)
<1>1. now \in Nat /\ now' \in Nat /\ overflowUntil \in Nat /\ overflowUntil' \in Nat
  BY DEF TablesInv, Typed
<1>2. AliasOf(t)'.carryUntil \in Nat /\ Denial(KeyFor(t))' \in Nat
  <2>1. alias'[t] \in AliasType /\ (alias'[t] = NoAlias \/ alias'[t].key \in Keys)
    BY DEF TablesInv, Typed
  <2>2. AliasOf(t)' \in {alias'[t], NoAlias}
    BY DEF AliasOf
  <2>3. AliasOf(t)'.carryUntil \in Nat
    BY <2>1, <2>2, NoAliasIs DEF AliasType
  <2>4. KeyFor(t)' \in Keys
    BY <2>1, <2>2, RoutesAssumption DEF KeyFor
  <2>5. bucket'[KeyFor(t)'].until \in Nat /\ bucket'[KeyFor(t)'].next \in Nat \cup {NoTime}
    BY <2>4 DEF TablesInv, Typed, BucketType
  <2>6. Denial(KeyFor(t))' \in Nat
    BY <2>5 DEF Denial, BucketWait, NoTime
  <2> QED
    BY <2>3, <2>6
<1>3. PICK c1 \in Nat, w1 \in Nat : c1 = AliasOf(t)'.carryUntil /\ w1 = Denial(KeyFor(t))'
  BY <1>2
<1>4. Wait(t) = IF Later(overflowUntil, Later(c, w)) > now THEN Later(overflowUntil, Later(c, w)) ELSE 0
  BY DEF Wait, WaitUntil, Denial
<1>5. Wait(t)' = IF Later(overflowUntil', Later(c1, w1)) > now' THEN Later(overflowUntil', Later(c1, w1)) ELSE 0
  BY <1>3 DEF Wait, WaitUntil, Denial
<1>6. (c <= now' \/ c1 >= c) /\ (w <= now' \/ w1 >= w \/ c1 >= w)
  BY <1>3
<1> QED
  BY <1>1, <1>4, <1>5, <1>6 DEF Later

\* However a step moves the route's alias, the route waits as long as before while its bucket
\* denies as before: a new alias takes the wait along, and what is dropped had none.
LEMMA RouteStays ==
    ASSUME TablesInv, TablesInv', NEW t \in Routes, NEW seq \in Nat, now' = now,
           AliasMoves(t, seq), ~Revived(t),
           NEW k \in Keys, k = KeyFor(t), Tightened(k),
           NEW w \in Nat, w = Denial(k), NEW c \in Nat, c = AliasOf(t).carryUntil
    PROVE  /\ c <= now \/ AliasOf(t)'.carryUntil >= c
           /\ w <= now \/ Denial(KeyFor(t))' >= w \/ AliasOf(t)'.carryUntil >= w
<1>1. /\ alias[t] \in AliasType /\ AliasOf(t) \in {alias[t], NoAlias}
      /\ AliasOf(t) # NoAlias => AliasOf(t) = alias[t] /\ ~AliasGone(t) /\ alias[t].key = k /\ k # NoKey
  BY AliasIs, RoutesAssumption DEF KeyFor
<1>2. now \in Nat /\ now' = now /\ ~(now + AliasIdle <= now') /\ alias[t].expires \in Nat
  BY <1>1, AmountsAssumption DEF TablesInv, Typed, AliasType
<1>3. Denial(k)' >= w /\ (Protected(k) => Protected(k)')
  BY WaitKept
<1>4. KeyFor(t)' = k => Denial(KeyFor(t))' >= w
  BY <1>3 DEF Denial, BucketWait, Protected, Live
<1>5. CASE alias'[t] = alias[t] /\ AliasOf(t) # NoAlias
  <2>1. ~AliasGone(t)' /\ alias[t] # NoAlias
    BY <1>1, <1>2, <1>3, <1>5 DEF AliasGone
  <2>2. AliasOf(t)' = AliasOf(t)
    BY <1>1, <1>5, <2>1 DEF AliasOf
  <2>3. KeyFor(t)' = k
    BY <1>5, <2>2 DEF KeyFor
  <2> QED
    BY <1>4, <2>2, <2>3
<1>6. CASE AliasOf(t) = NoAlias /\ (alias'[t] = alias[t] \/ alias'[t] = NoAlias)
  <2>1. AliasOf(t)' = NoAlias
    BY <1>6 DEF Revived, AliasOf
  <2>2. AliasOf(t)' = AliasOf(t) /\ KeyFor(t)' = k
    BY <1>6, <2>1 DEF KeyFor
  <2> QED
    BY <1>4, <2>2
<1>7. CASE AliasOf(t) # NoAlias /\ alias'[t] = [AliasOf(t) EXCEPT !.expires = now + AliasIdle]
  <2>1. /\ alias'[t].expires = now + AliasIdle /\ alias'[t].key = k
        /\ alias'[t].carryUntil = c
    BY <1>1, <1>7 DEF AliasType
  <2>2. alias'[t] # NoAlias
    BY <1>1, <1>7, <2>1, NoAliasIs
  <2>3. ~AliasGone(t)'
    BY <1>2, <2>1 DEF AliasGone
  <2>4. AliasOf(t)' = alias'[t]
    BY <2>2, <2>3 DEF AliasOf
  <2>5. KeyFor(t)' = k
    BY <2>1, <2>2, <2>4 DEF KeyFor
  <2> QED
    BY <1>4, <2>1, <2>4, <2>5
<1>8. CASE \E x \in Keys : alias'[t] = Learnt(t, x, seq)
  <2>1. PICK x \in Keys : alias'[t] = Learnt(t, x, seq)
    BY <1>8
  <2>2. /\ alias'[t].key = x /\ alias'[t] # NoAlias /\ alias'[t].expires = now + AliasIdle
        /\ alias'[t].carryUntil >= c /\ (k # x => alias'[t].carryUntil >= w)
    BY <2>1, LearntIs
  <2>3. ~AliasGone(t)'
    BY <1>2, <2>2 DEF AliasGone
  <2>4. AliasOf(t)' = alias'[t]
    BY <2>2, <2>3 DEF AliasOf
  <2>5. KeyFor(t)' = x
    BY <2>2, <2>4 DEF KeyFor
  <2> QED
    BY <1>4, <2>2, <2>4, <2>5
<1>9. CASE t \in Droppable /\ alias'[t] = NoAlias
  <2>1. ~Protected(alias[t].key) /\ alias[t].carryUntil <= now
    BY <1>9 DEF Droppable
  <2>2. AliasOf(t)' = NoAlias
    BY <1>9 DEF AliasOf
  <2>3. CASE AliasOf(t) = NoAlias
    <3>1. AliasOf(t)' = AliasOf(t) /\ KeyFor(t)' = k
      BY <2>2, <2>3 DEF KeyFor
    <3> QED
      BY <1>4, <3>1
  <2>4. CASE AliasOf(t) # NoAlias
    <3>1. w = 0 /\ c <= now
      BY <1>1, <2>1, <2>4, DenialIs
    <3> QED
      BY <1>2, <3>1
  <2> QED
    BY <2>3, <2>4
<1> QED
  BY <1>5, <1>6, <1>7, <1>8, <1>9 DEF AliasMoves

\* Such a step keeps the route's wait.
LEMMA RouteKept ==
    ASSUME TablesInv, TablesInv', NEW t \in Routes, NEW seq \in Nat, now' = now,
           overflowUntil' >= overflowUntil, AliasMoves(t, seq), Tightened(KeyFor(t)),
           Wait(t) > now, ~Revived(t)
    PROVE  Wait(t)' >= Wait(t)
<1>1. PICK k \in Keys : k = KeyFor(t)
  BY AliasIs
<1>2. PICK w \in Nat, c \in Nat : w = Denial(k) /\ c = AliasOf(t).carryUntil
  BY <1>1, AliasIs, DenialIs
<1>3. Tightened(k)
  BY <1>1
<1>4. /\ c <= now \/ AliasOf(t)'.carryUntil >= c
      /\ w <= now \/ Denial(KeyFor(t))' >= w \/ AliasOf(t)'.carryUntil >= w
  BY <1>1, <1>2, <1>3, RouteStays
<1>5. w = Denial(KeyFor(t)) /\ now' >= now /\ now \in Nat
  BY <1>1, <1>2 DEF TablesInv, Typed
<1> QED
  BY <1>2, <1>4, <1>5, WaitParts

\* Time only ends waits that are over.
LEMMA TimeKeeps ==
    ASSUME TablesInv, TablesInv', NEW t \in Routes, Tick, Wait(t) > now', ~Revived(t)
    PROVE  Wait(t)' >= Wait(t)
<1>1. PICK k \in Keys : k = KeyFor(t)
  BY AliasIs
<1>2. PICK w \in Nat, c \in Nat : w = Denial(k) /\ c = AliasOf(t).carryUntil
  BY <1>1, AliasIs, DenialIs
<1>3. /\ now' = now + 1 /\ now \in Nat
      /\ alias' = alias /\ overflowUntil' = overflowUntil /\ overflowUntil \in Nat
      /\ bucket[k].until <= now' \/ bucket'[k] = bucket[k]
      /\ bucket[k].until \in Nat /\ bucket[k].next \in Nat \cup {-1}
  BY TickIs DEF TablesInv, Typed, BucketType, NoTime
<1>4. /\ AliasOf(t) \in {alias[t], NoAlias} /\ alias[t].expires \in Nat
      /\ AliasOf(t) # NoAlias => AliasOf(t) = alias[t] /\ ~AliasGone(t) /\ alias[t].key = k
  BY <1>1, AliasIs DEF KeyFor, AliasType
<1>5. w > now' => Denial(k)' = w /\ Protected(k)'
  <2>1. ASSUME w > now'
        PROVE  Protected(k) /\ bucket[k].until > now'
    BY <1>2, <1>3, <2>1 DEF Denial, BucketWait, NoTime
  <2>2. ASSUME w > now'
        PROVE  Protected(k)' /\ bucket'[k] = bucket[k]
    BY <1>3, <2>1, <2>2 DEF Protected, Live
  <2> QED
    BY <1>2, <2>1, <2>2 DEF Denial, BucketWait
<1>6. w > now' /\ KeyFor(t)' = k => Denial(KeyFor(t))' >= w
  BY <1>5 DEF Denial, BucketWait, Protected, Live
<1>7. (c <= now' /\ w <= now') \/ (AliasOf(t)' = AliasOf(t) /\ KeyFor(t)' = k)
  <2>1. CASE AliasOf(t) = NoAlias
    <3>1. AliasOf(t)' = NoAlias
      BY <1>3, <2>1 DEF Revived
    <3> QED
      BY <1>1, <2>1, <3>1 DEF KeyFor
  <2>2. CASE AliasOf(t) # NoAlias /\ (c > now' \/ w > now')
    <3>1. ~AliasGone(t)'
      BY <1>2, <1>3, <1>4, <1>5, <2>2 DEF AliasGone
    <3>2. AliasOf(t)' = AliasOf(t)
      BY <1>3, <1>4, <2>2, <3>1 DEF AliasOf
    <3> QED
      BY <1>4, <2>2, <3>2 DEF KeyFor
  <2>3. c > now' \/ w > now' \/ (c <= now' /\ w <= now')
    BY <1>3
  <2> QED
    BY <2>1, <2>2, <2>3
<1>8. /\ c <= now' \/ AliasOf(t)'.carryUntil >= c
      /\ w <= now' \/ Denial(KeyFor(t))' >= w \/ AliasOf(t)'.carryUntil >= w
  BY <1>2, <1>3, <1>6, <1>7
<1>9. w = Denial(KeyFor(t)) /\ now' >= now /\ overflowUntil' >= overflowUntil
  BY <1>1, <1>2, <1>3
<1> QED
  BY <1>2, <1>8, <1>9, WaitParts

\* Buckets that stay as they are, or that a request enters, deny as before.
LEMMA SameTightened ==
    ASSUME TablesInv, NEW k \in Keys, bucket'[k] = bucket[k]
    PROVE  Tightened(k)
<1>1. bucket[k].until \in Nat
  BY DEF TablesInv, Typed, BucketType
<1> QED
  BY <1>1 DEF Tightened, Protected

LEMMA EnterTightened ==
    ASSUME TablesInv, NEW x \in Routes, Enter(x), NEW k \in Keys
    PROVE  Tightened(k)
<1> DEFINE e == KeyFor(x)
<1>1. PICK sent \in BOOLEAN : Enters(x, e, sent)
  BY EnterIs
<1> HIDE DEF e
<1>2. CASE k # e
  BY <1>1, <1>2, SameTightened DEF Enters
<1>3. CASE k = e
  <2>1. bucket[k].until \in Nat
    BY DEF TablesInv, Typed, BucketType
  <2>2. /\ bucket'[k].until = bucket[k].until /\ bucket'[k].next = bucket[k].next
        /\ Protected(k) => bucket'[k].remaining = 0 /\ bucket'[k].probeRoute # NoRoute
    BY <1>1, <1>3 DEF Enters
  <2> QED
    BY <2>1, <2>2 DEF Tightened
<1> QED
  BY <1>2, <1>3

\* An answer that may not decide over the route's bucket is older than what the bucket knows.
LEMMA NotNewer ==
    ASSUME TablesInv, NEW t \in Routes, ~Newer(t), NEW answer \in out \cup denied,
           answer \in (out \ out') \cup (denied \ denied')
    PROVE  Older(KeyFor(t), answer.sequence)
<1>1. PICK k \in Keys : k = KeyFor(t)
  BY AliasIs
<1>2. answer.sequence \in Nat /\ bucket[k].sequence \in Nat
  BY DEF TablesInv, Typed, Attempts, BucketType
<1>3. ~(answer.sequence >= bucket[k].sequence) /\ answer.sequence # bucket[k].probeSequence
  BY <1>1 DEF Newer
<1>4. Older(k, answer.sequence)
  BY <1>2, <1>3 DEF Older
<1> QED
  BY <1>1, <1>4

\* Only time, closure, or an answer that may decide over it shortens a route's wait.
LEMMA DenialStep ==
    ASSUME TablesInv, Next, ~Clear, NEW t \in Routes,
           Wait(t) > now', ~Newer(t), ~Revived(t)
    PROVE  Wait(t)' >= Wait(t)
<1>1. TablesInv'
  BY TablesKept
<1>2. KeyFor(t) \in Keys /\ overflowUntil \in Nat
  BY AliasIs DEF TablesInv, Typed
<1>3. ASSUME now' = now, overflowUntil' = overflowUntil, NEW seq \in Nat, AliasMoves(t, seq), Tightened(KeyFor(t))
      PROVE  Wait(t)' >= Wait(t)
  <2>1. Wait(t) > now /\ overflowUntil' >= overflowUntil
    BY <1>2, <1>3
  <2> QED
    BY <1>1, <1>3, <2>1, RouteKept
<1>4. bucket' = bucket => Tightened(KeyFor(t))
  BY <1>2, SameTightened
<1>5. alias' = alias => AliasMoves(t, 0)
  BY DEF AliasMoves
<1>6. ASSUME NEW x \in Routes, Ask(x)
      PROVE  Wait(t)' >= Wait(t)
  <2>1. now' = now /\ overflowUntil' = overflowUntil /\ bucket' = bucket /\ alias' = Touched(x)
    BY <1>6 DEF Ask
  <2>2. AliasMoves(t, 0)
    BY <2>1, TouchedMoves
  <2> QED
    BY <1>3, <1>4, <2>1, <2>2
<1>7. ASSUME NEW x \in Routes, Enter(x)
      PROVE  Wait(t)' >= Wait(t)
  <2>1. now' = now /\ overflowUntil' = overflowUntil /\ alias' = Touched(x)
    BY <1>7 DEF Enter
  <2>2. AliasMoves(t, 0)
    BY <2>1, TouchedMoves
  <2>3. Tightened(KeyFor(t))
    BY <1>2, <1>7, EnterTightened
  <2> QED
    BY <1>3, <2>1, <2>2, <2>3
<1>8. ASSUME UNCHANGED <<now, learned>>
      PROVE  Wait(t)' >= Wait(t)
  BY <1>3, <1>4, <1>5, <1>8 DEF learned
<1>9. ASSUME NEW seq \in Nat, now' = now, Answers(seq), AliasMoves(t, seq), Older(KeyFor(t), seq)
      PROVE  Wait(t)' >= Wait(t)
  <2>1. Tightened(KeyFor(t)) /\ overflowUntil' >= overflowUntil
    BY <1>2, <1>9 DEF Answers
  <2>2. Wait(t) > now
    BY <1>9
  <2> QED
    BY <1>1, <1>9, <2>1, <2>2, RouteKept
<1>10. ASSUME NEW a \in out, Observe(a)
       PROVE  Wait(t)' >= Wait(t)
  <2>1. /\ a.sequence \in Nat /\ now' = now /\ Answers(a.sequence) /\ AliasMoves(t, a.sequence)
        /\ a \in out \ out'
    BY <1>10, ObserveIs
  <2>2. Older(KeyFor(t), a.sequence)
    BY <2>1, NotNewer
  <2> QED
    BY <1>9, <2>1, <2>2
<1>11. ASSUME NEW d \in denied, Pause(d)
       PROVE  Wait(t)' >= Wait(t)
  <2>1. /\ d.sequence \in Nat /\ now' = now /\ Answers(d.sequence) /\ alias' = alias
        /\ d \in denied \ denied'
    BY <1>11, PauseAnswers DEF Pause, TablesInv, Typed
  <2>2. Older(KeyFor(t), d.sequence) /\ AliasMoves(t, d.sequence)
    BY <2>1, NotNewer DEF AliasMoves
  <2> QED
    BY <1>9, <2>1, <2>2
<1>12. CASE Tick
  BY <1>1, <1>12, TimeKeeps
<1> QED
  BY <1>6, <1>7, <1>8, <1>10, <1>11, <1>12 DEF Next, Lost, NoPause

\* A known wait survives remapping, eviction, idle aliases and the answers of older attempts, for
\* any number of routes, buckets and answers under way (observe, pause and #learnBucket): only
\* time, closure, or an answer that may decide over it shortens it.
THEOREM DenialsAreKept == Spec => DenialKept
<1> DEFINE Kept == \A t \in Routes :
               Wait(t) > now' /\ ~Newer(t) /\ ~Clear /\ ~Revived(t) => Wait(t)' >= Wait(t)
<1>1. Init => TablesInv
  BY InitTables
<1>2. TablesInv /\ [Next]_vars => TablesInv'
  BY TablesKept
<1>3. TablesInv /\ [Next]_vars => [Kept]_vars
  BY DenialStep
<1> QED
  BY <1>1, <1>2, <1>3, PTL DEF Spec, DenialKept

=============================================================================
