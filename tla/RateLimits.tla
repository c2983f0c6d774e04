----------------------------- MODULE RateLimits -----------------------------
(***************************************************************************)
(* Learned rate limits of one client (projects/sdk/src/internal/           *)
(* rate-limits.ts).  A route belongs to a provisional bucket until a       *)
(* response names one; buckets remember how many requests are left and     *)
(* until when, and let one probe test the next refill.  Responses arrive   *)
(* in any order, and the body of a 429 is read after its headers.          *)
(*                                                                         *)
(* A bucket whose time has passed is the same as none: the code removes it *)
(* before it can matter.  Which entry a full table drops is left open.     *)
(***************************************************************************)
EXTENDS Integers, FiniteSets

CONSTANTS
    Routes, NoRoute,
    Keys, NoKey,        \* buckets
    ProvisionalOf,      \* route -> bucket it uses until a response names one
    Headers, NoHeader,  \* values of x-ratelimit-bucket
    KeyOf,              \* <<header, route>> -> the bucket it names
    Unbound,            \* <<header, route>> whose parameters the route lacks
    AliasCapacity, BucketCapacity,
    AliasIdle,          \* aliasIdleMs
    Counts,             \* x-ratelimit-remaining, safe integers
    Limits,             \* x-ratelimit-limit
    Delays,             \* x-ratelimit-reset-after and 429 waits
    \* bounds of the exploration
    MaxSequence, Horizon

NoLimit == 0
NoSequence == 0
NoCount == -1
NoTime == -1

ASSUME RoutesAssumption ==
    /\ NoRoute \notin Routes /\ NoKey \notin Keys /\ NoHeader \notin Headers
    /\ ProvisionalOf \in [Routes -> Keys]
    /\ KeyOf \in [Headers \X Routes -> Keys]
    /\ Unbound \subseteq Headers \X Routes
ASSUME AmountsAssumption ==
    /\ AliasCapacity \in Nat \ {0} /\ BucketCapacity \in Nat \ {0} /\ AliasIdle \in Nat \ {0}
    /\ IsFiniteSet(Counts) /\ Counts \subseteq Nat /\ Limits \subseteq Nat \ {0} /\ Delays \subseteq Nat \ {0}
    /\ MaxSequence \in Nat /\ Horizon \in Nat

VARIABLES
    now,
    alias,          \* #aliases: route -> alias, NoAlias when absent
    bucket,         \* #buckets: key -> bucket, Blank when absent
    sequence, overflowUntil,
    out,            \* attempts that were sent and not answered
    denied,         \* attempts whose 429 body is being read
    refills         \* history: key -> attempts sent on its drained bucket

learned == <<alias, bucket, sequence, overflowUntil>>
vars == <<now, learned, out, denied, refills>>

Unlimited == 1 + MaxSequence + (IF Counts = {} THEN 0 ELSE CHOOSE c \in Counts : \A d \in Counts : d <= c)
Blank == [remaining |-> Unlimited, until |-> 0, limit |-> NoLimit, next |-> NoTime,
          sequence |-> NoSequence, probeRoute |-> NoRoute, probeSequence |-> NoSequence,
          probeRemaining |-> NoCount, probeIncomplete |-> FALSE]
NoAlias == [key |-> NoKey, sequence |-> NoSequence, expires |-> 0, carryUntil |-> 0]

Later(s, t) == IF s >= t THEN s ELSE t
Earlier(s, t) == IF s <= t THEN s ELSE t

-----------------------------------------------------------------------------
(* Waits *)

Live(k) == bucket[k].until > now
\* #protected
Protected(k) == Live(k) /\ bucket[k].remaining = 0

\* Mutant of BucketWait: others do not wait for the probe that tests the refill.
ProbeIgnored(k, firm) ==
    IF ~Protected(k) THEN 0
    ELSE IF bucket[k].next # NoTime /\ bucket[k].next < bucket[k].until THEN bucket[k].next
    ELSE bucket[k].until
\* #wait
BucketWait(k, firm) ==
    IF ~Protected(k) THEN 0
    ELSE IF bucket[k].probeRoute # NoRoute /\ ~firm THEN bucket[k].until
    ELSE IF bucket[k].next # NoTime /\ bucket[k].next < bucket[k].until THEN bucket[k].next
    ELSE bucket[k].until

AliasGone(t) == alias[t].expires <= now /\ ~Protected(alias[t].key) /\ alias[t].carryUntil <= now
AliasOf(t) == IF alias[t] = NoAlias THEN NoAlias ELSE IF AliasGone(t) THEN NoAlias ELSE alias[t]
KeyFor(t) == IF AliasOf(t) = NoAlias THEN ProvisionalOf[t] ELSE AliasOf(t).key

\* wait
WaitUntil(t, firm) ==
    LET until == Later(overflowUntil, Later(AliasOf(t).carryUntil, BucketWait(KeyFor(t), firm)))
    IN IF until > now THEN until ELSE 0
Wait(t) == WaitUntil(t, FALSE)

\* #alias: asking for a route's alias drops it or keeps it for another while.
Touched(t) ==
    [alias EXCEPT ![t] = IF AliasOf(t) = NoAlias THEN NoAlias
                         ELSE [AliasOf(t) EXCEPT !.expires = now + AliasIdle]]

-----------------------------------------------------------------------------
Init ==
    /\ now = 0
    /\ alias = [t \in Routes |-> NoAlias]
    /\ bucket = [k \in Keys |-> Blank]
    /\ sequence = 0 /\ overflowUntil = 0
    /\ out = {} /\ denied = {}
    /\ refills = [k \in Keys |-> {}]

\* wait, as a pump asks it of every queued request
Ask(t) ==
    /\ alias' = Touched(t)
    /\ UNCHANGED <<now, bucket, sequence, overflowUntil, out, denied, refills>>

\* reserve: the request takes one of what is left, or becomes the refill's probe.
Reserved(k, t) ==
    IF ~Live(k) THEN bucket[k]
    ELSE IF bucket[k].remaining > 0 THEN [bucket[k] EXCEPT !.remaining = @ - 1]
    ELSE IF bucket[k].next # NoTime /\ bucket[k].next <= now /\ bucket[k].probeRoute = NoRoute
         THEN [bucket[k] EXCEPT !.probeRoute = t]
    ELSE bucket[k]

\* begin: the probe learns its sequence when it is sent.
Begun(b, t, seq) ==
    IF b.probeRoute = t /\ b.probeSequence = NoSequence THEN [b EXCEPT !.probeSequence = seq] ELSE b

\* A request enters and is sent; "sent" is false when it fails before it leaves.
Enter(t) ==
    /\ Wait(t) = 0 /\ sequence < MaxSequence
    /\ LET k == KeyFor(t) IN
       \E sent \in BOOLEAN :
        /\ alias' = Touched(t)
        /\ sequence' = IF sent THEN sequence + 1 ELSE sequence
        /\ bucket' = [bucket EXCEPT ![k] = IF sent THEN Begun(Reserved(k, t), t, sequence + 1)
                                                   ELSE Reserved(k, t)]
        /\ out' = IF sent THEN out \cup {[route |-> t, sequence |-> sequence + 1]} ELSE out
        /\ refills' = IF sent /\ Protected(k) THEN [refills EXCEPT ![k] = @ \cup {sequence + 1}] ELSE refills
    /\ UNCHANGED <<now, overflowUntil, denied>>

\* The attempt ends without an answer.
Lost(a) ==
    /\ a \in out
    /\ out' = out \ {a}
    /\ refills' = [k \in Keys |-> refills[k] \ {a.sequence}]
    /\ UNCHANGED <<now, learned, denied>>

-----------------------------------------------------------------------------
(* Applying a response *)

\* Mutant of LaterUntil: the newest response decides how long a bucket denies.
NewestUntil(b, until) == until
LaterUntil(b, until) == Later(b.until, until)

\* mergedBucket
Merged(b, obs) ==
    LET newest == obs.sequence >= b.sequence
        changedLimit == b.limit # NoLimit /\ obs.limit # NoLimit /\ b.limit # obs.limit
        refreshedProbe == b.probeSequence # NoSequence /\ obs.sequence = b.probeSequence
        probing == b.probeRoute # NoRoute
        probeLeft == IF b.probeRemaining = NoCount THEN obs.remaining
                     ELSE Earlier(b.probeRemaining, obs.remaining)
        conservative == b.probeIncomplete \/ (probing /\ changedLimit)
        refreshes == newest \/ refreshedProbe
        keepsProbe == probing /\ ~refreshedProbe
    IN [remaining |-> IF ~refreshedProbe THEN Earlier(b.remaining, obs.remaining)
                      ELSE IF conservative THEN 0 ELSE probeLeft,
        until |-> LaterUntil(b, obs.until),
        limit |-> IF ~newest THEN b.limit
                  ELSE IF changedLimit THEN Earlier(b.limit, obs.limit)
                  ELSE IF obs.limit # NoLimit THEN obs.limit ELSE b.limit,
        next |-> IF refreshes /\ ~changedLimit /\ ~conservative /\ obs.next # NoTime
                 THEN Later(b.next, obs.next)
                 ELSE IF ~refreshes THEN b.next ELSE NoTime,
        sequence |-> Later(b.sequence, obs.sequence),
        probeRoute |-> IF keepsProbe THEN b.probeRoute ELSE NoRoute,
        probeSequence |-> IF keepsProbe THEN b.probeSequence ELSE NoSequence,
        probeRemaining |-> IF keepsProbe THEN probeLeft ELSE NoCount,
        probeIncomplete |-> keepsProbe /\ conservative]

Evictable == {k \in Keys : Live(k) /\ bucket[k].remaining > 0}
Full == Cardinality({k \in Keys : Live(k)}) >= BucketCapacity

\* #store and #roomFor.  "overflow" is overflowUntil so far.
Store(k, obs, overflow) ==
    IF Live(k) \/ ~Full
    THEN /\ bucket' = [bucket EXCEPT ![k] = Merged(IF Live(k) THEN bucket[k] ELSE Blank, obs)]
         /\ refills' = IF Live(k) THEN refills ELSE [refills EXCEPT ![k] = {}]
         /\ overflowUntil' = overflow
    ELSE IF Evictable # {}
    THEN /\ \E victim \in Evictable :
              /\ bucket' = [bucket EXCEPT ![victim] = Blank, ![k] = Merged(Blank, obs)]
              /\ refills' = [refills EXCEPT ![victim] = {}, ![k] = {}]
         /\ overflowUntil' = overflow
    ELSE /\ overflowUntil' = Later(overflow, obs.until)
         /\ UNCHANGED <<bucket, refills>>

\* Mutant of Carry: what the route waited for under its old bucket is forgotten.
CarryNothing(t, k) == AliasOf(t).carryUntil
\* The wait a route takes along to the bucket it turns out to have.
Carry(t, k) ==
    LET previous == AliasOf(t)
        before == IF previous = NoAlias \/ previous.key = k THEN 0 ELSE BucketWait(previous.key, FALSE)
    IN Later(previous.carryUntil, Later(before, BucketWait(ProvisionalOf[t], FALSE)))

\* Mutant of NamesBucket: a response of an older attempt renames the route's bucket.
NamesAnyway(a) == TRUE
\* An older attempt's response does not undo a newer mapping.
NamesBucket(a) == AliasOf(a.route) = NoAlias \/ a.sequence >= AliasOf(a.route).sequence

Aliased == {t \in Routes : alias[t] # NoAlias}
Droppable == {t \in Aliased : ~Protected(alias[t].key) /\ alias[t].carryUntil <= now}

\* #learnBucket.  "missing": the response cannot be held to one bucket of this client.
LearnBucket(a, header, missing) ==
    LET t == a.route
        k == KeyOf[<<header, t>>]
        unbound == <<header, t>> \in Unbound
        learnt == [key |-> k, sequence |-> a.sequence, expires |-> now + AliasIdle, carryUntil |-> Carry(t, k)]
        free == Cardinality(Aliased \ {t}) < AliasCapacity
    IN IF ~NamesBucket(a) THEN missing = unbound /\ alias' = Touched(t)
       ELSE IF AliasOf(t) # NoAlias \/ free THEN missing = unbound /\ alias' = [alias EXCEPT ![t] = learnt]
       ELSE IF Droppable \ {t} = {} THEN missing = TRUE /\ alias' = Touched(t)
       ELSE /\ missing = unbound
            /\ \E victim \in Droppable \ {t} : alias' = [alias EXCEPT ![victim] = NoAlias, ![t] = learnt]

\* A response without usable counts: a refill schedule it makes doubtful is dropped.
Doubted(b, seq) ==
    LET incomplete == b.probeIncomplete \/ (b.probeRoute # NoRoute /\ seq # b.probeSequence)
    IN IF seq >= b.sequence
       THEN [b EXCEPT !.probeIncomplete = incomplete, !.next = NoTime, !.sequence = seq]
       ELSE [b EXCEPT !.probeIncomplete = incomplete]

\* With none left, the first instant one whole request fits again is no later than this.
Refill(delay, limit) == now + (delay + limit - 1) \div limit

Counted(seq, remaining, delay, limit) ==
    LET complete == limit # NoLimit /\ remaining <= limit
    IN [remaining |-> remaining, until |-> now + delay, sequence |-> seq,
        limit |-> IF complete THEN limit ELSE NoLimit,
        next |-> IF complete /\ remaining = 0 THEN Refill(delay, limit) ELSE NoTime]

\* observe, for the key and the overflow that learning the bucket left
ObserveCounts(a, k, missing) ==
    \/ \E remaining \in Counts : \E delay \in Delays : \E limit \in Limits \cup {NoLimit} :
        /\ now + delay <= Horizon
        /\ Store(k, Counted(a.sequence, remaining, delay, limit),
                 IF missing THEN Later(overflowUntil, now + delay) ELSE overflowUntil)
    \/ /\ bucket' = [bucket EXCEPT ![k] = IF Live(k) THEN Doubted(bucket[k], a.sequence) ELSE @]
       /\ UNCHANGED <<overflowUntil, refills>>

\* Headers of a response arrive; a 429 is paused for once its body was read.
Observe(a) ==
    /\ a \in out
    /\ out' = out \ {a}
    /\ \E header \in Headers \cup {NoHeader} : \E missing, limited \in BOOLEAN :
        LET k == IF header = NoHeader THEN KeyFor(a.route) ELSE KeyOf[<<header, a.route>>] IN
        /\ IF header = NoHeader THEN missing = FALSE /\ alias' = Touched(a.route)
                                ELSE LearnBucket(a, header, missing)
        /\ ObserveCounts(a, k, missing)
        /\ denied' = IF limited
                     THEN denied \cup {[sequence |-> a.sequence, key |-> IF missing THEN NoKey ELSE k]}
                     ELSE denied
    /\ UNCHANGED <<now, sequence>>

\* A confirmed 429 names the first admission precisely, for its own observation's schedule.
Confirmed(b, until, seq) ==
    LET refreshed == b.probeSequence # NoSequence /\ seq = b.probeSequence
    IN [b EXCEPT !.remaining = 0, !.until = Later(@, until), !.next = until, !.sequence = seq,
                 !.probeRoute = IF refreshed THEN NoRoute ELSE @,
                 !.probeSequence = IF refreshed THEN NoSequence ELSE @,
                 !.probeRemaining = IF refreshed THEN NoCount ELSE @,
                 !.probeIncomplete = IF refreshed THEN FALSE ELSE @]

\* A 429 that is not the probe's spends what the probe's answer would give.
ProbeSpent(b, seq) ==
    IF b.probeRoute # NoRoute /\ seq # b.probeSequence THEN [b EXCEPT !.probeRemaining = 0] ELSE b

\* pause
Pause(d) ==
    /\ d \in denied
    /\ denied' = denied \ {d}
    /\ \E delay \in Delays :
        LET until == now + delay
            spent == ProbeSpent(bucket[d.key], d.sequence)
        IN
        /\ until <= Horizon
        /\ IF d.key = NoKey
           THEN overflowUntil' = Later(overflowUntil, until) /\ UNCHANGED <<bucket, refills>>
           ELSE IF Live(d.key) /\ bucket[d.key].limit # NoLimit /\ d.sequence >= bucket[d.key].sequence
           THEN /\ bucket' = [bucket EXCEPT ![d.key] = Confirmed(spent, until, d.sequence)]
                /\ UNCHANGED <<overflowUntil, refills>>
           ELSE IF Live(d.key)
           THEN /\ bucket' = [bucket EXCEPT ![d.key] = Merged(spent, Counted(d.sequence, 0, delay, NoLimit))]
                /\ UNCHANGED <<overflowUntil, refills>>
           ELSE Store(d.key, Counted(d.sequence, 0, delay, NoLimit), overflowUntil)
    /\ UNCHANGED <<now, alias, sequence, out>>

\* The body of a 429 fails to arrive, or names no wait.
NoPause(d) ==
    /\ d \in denied
    /\ denied' = denied \ {d}
    /\ UNCHANGED <<now, learned, out, refills>>

\* clear, when admission closes
Clear ==
    /\ alias' = [t \in Routes |-> NoAlias]
    /\ bucket' = [k \in Keys |-> Blank]
    /\ overflowUntil' = 0
    /\ sequence' = MaxSequence       \* nothing enters after closure
    /\ refills' = [k \in Keys |-> {}]
    /\ UNCHANGED <<now, out, denied>>

Tick ==
    /\ now < Horizon
    /\ now' = now + 1
    /\ bucket' = [k \in Keys |-> IF bucket[k].until <= now + 1 THEN Blank ELSE bucket[k]]
    /\ refills' = [k \in Keys |-> IF bucket[k].until <= now + 1 THEN {} ELSE refills[k]]
    /\ UNCHANGED <<alias, sequence, overflowUntil, out, denied>>

Next ==
    \/ \E t \in Routes : Ask(t) \/ Enter(t)
    \/ \E a \in out : Lost(a) \/ Observe(a)
    \/ \E d \in denied : Pause(d) \/ NoPause(d)
    \/ Clear \/ Tick

Spec == Init /\ [][Next]_vars

-----------------------------------------------------------------------------
Attempts == [route : Routes, sequence : 1..MaxSequence]
BucketType ==
    [remaining : Nat, until : Nat, limit : Nat, next : Nat \cup {NoTime}, sequence : Nat,
     probeRoute : Routes \cup {NoRoute}, probeSequence : Nat, probeRemaining : Nat \cup {NoCount},
     probeIncomplete : BOOLEAN]

\* Every variable has its type, and both tables stay within their capacity.
TypeOK ==
    /\ now \in Nat /\ sequence \in Nat /\ overflowUntil \in Nat
    /\ alias \in [Routes -> [key : Keys \cup {NoKey}, sequence : Nat, expires : Nat, carryUntil : Nat]]
    /\ bucket \in [Keys -> BucketType]
    /\ out \subseteq Attempts /\ denied \subseteq [sequence : Nat, key : Keys \cup {NoKey}]
    /\ Cardinality(Aliased) <= AliasCapacity
    /\ Cardinality({k \in Keys : Live(k)}) <= BucketCapacity

\* While a bucket has none left, one request at most is out to test its refill.
OneRefillProbe ==
    \A k \in Keys : Live(k) => Cardinality({a \in out : a.sequence \in refills[k]}) <= 1

\* However responses are reordered and routes move, the learned tables stay well typed and within
\* their capacity, and no two requests test the refill of one bucket.
TablesSound == TypeOK /\ OneRefillProbe

\* A response of this step may decide over what the route waits for: it is not older than
\* what its bucket knows, or it answers the bucket's probe.
Newer(t) ==
    \E answer \in (out \ out') \cup (denied \ denied') :
        \/ answer.sequence >= bucket[KeyFor(t)].sequence
        \/ answer.sequence = bucket[KeyFor(t)].probeSequence

\* An idle alias nobody asked for is used again, because a 429 it led to closes its bucket.
Revived(t) == AliasOf(t) = NoAlias /\ AliasOf(t)' # NoAlias /\ alias'[t] = alias[t]

\* A known wait survives remapping, eviction, idle aliases and responses of older attempts:
\* only time, closure, or a response that may decide over it shortens it.
DenialKept ==
    [][\A t \in Routes :
        Wait(t) > now' /\ ~Newer(t) /\ ~Clear /\ ~Revived(t) => Wait(t)' >= Wait(t)]_vars

\* A newer response's mapping of a route to a bucket is not undone by an older one, unless
\* the route was idle so long that its alias is dropped.
NewestMappingKept ==
    [][\A t \in Routes : AliasOf(t) # NoAlias /\ alias'[t].key # AliasOf(t).key /\ alias'[t] # NoAlias
                         => alias'[t].sequence > alias[t].sequence]_vars

=============================================================================
