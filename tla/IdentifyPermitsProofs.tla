----------------------- MODULE IdentifyPermitsProofs -----------------------
(* Proofs about IdentifyPermits, for all children, spacings, supervisors and requests *)
EXTENDS IdentifyPermits, SequenceTheorems, FiniteSetTheorems, TLAPS

Entries == [child : Children, request : Requests]

\* The invariant is about what is queued and under way, in whatever order: it is stated over the set
\* Q of queued requests, the outstanding request o, the permits p that have not settled, the sets
\* D[c] and U[c] of messages from and to the parent, its age a, the waiting requests k, the number n
\* of requests made, the age sa of the last Identify, and st: the supervisor stops.
Typed(Q, o, p, D, a, U, k, n, sa, st) ==
    /\ Q \subseteq Entries /\ o \in Outstanding \cup {None} /\ p \subseteq Requests
    /\ D \in [Children -> SUBSET Messages] /\ U \in [Children -> SUBSET Messages]
    /\ k \in [Children -> 0..MaxRequests] /\ n \in 0..MaxRequests
    /\ a \in 0..Spacing /\ sa \in 0..Spacing /\ st \in BOOLEAN

\* Requests are numbered as they are made.
Numbered(Q, o, D, U, k, n) ==
    /\ \A e \in Q : e.request <= n
    /\ o # None => o.request <= n
    /\ \A c \in Children : k[c] <= n
    /\ \A c \in Children : \A m \in U[c] :
           m.request <= n /\ (m.type \in {"identify", "cancel", "sent"} => m.request >= 1)
    /\ \A c \in Children : \A m \in D[c] : m.type = "grant" => m.request >= 1 /\ m.request <= n

\* A grant on its way to the request that waits for it is of the outstanding one.
GrantsCurrent(o, D, k) ==
    \A c \in Children : \A m \in D[c] :
        m.type = "grant" /\ m.request = k[c] => o # None /\ o.child = c /\ o.request = k[c] /\ o.granted

\* While the outstanding request may not have identified, the last Identify is the spacing ago.
Unsent(o, U, k, sa) ==
    (o # None /\ (\/ k[o.child] = o.request
                  \/ Message("cancel", o.request) \in U[o.child]
                  \/ ~o.granted)) => sa = Spacing

\* The parent counts from the last Identify, or from a later time.
Counted(o, a, sa, st) == ~st /\ o = None => a <= sa

\* What a child reported or withdrew, it does not wait for any more.
NotWaiting(U, k) ==
    \A c \in Children : \A m \in U[c] : m.type \in {"sent", "cancel"} => m.request # k[c]

\* The outstanding request whose permit has not settled is not granted.
NotGranted(o, p) == (o # None /\ o.request \in p) => ~o.granted

Halted(Q, o, U, st) ==
    st => Q = {} /\ (o = None \/ o.muted) /\ \A c \in Children : U[c] = {}

Good(Q, o, p, D, a, U, k, n, sa, st) ==
    /\ Typed(Q, o, p, D, a, U, k, n, sa, st)
    /\ Numbered(Q, o, D, U, k, n) /\ GrantsCurrent(o, D, k) /\ Unsent(o, U, k, sa)
    /\ Counted(o, a, sa, st) /\ NotWaiting(U, k) /\ NotGranted(o, p) /\ Halted(Q, o, U, st)

Contents(channels) == [c \in Children |-> ToSet(channels[c])]
Channels == [Children -> Seq(Messages)]

\* A process that is gone waits for nothing, there are permits under a coordinator only, and a
\* supervisor that stops grants no more.
Rest ==
    /\ coordinated \in BOOLEAN /\ grantTimer \in BOOLEAN /\ (coordinated => socketAge = Spacing)
    /\ pending \in Seq(Entries) /\ up \in Channels /\ down \in Channels
    /\ process \in [Children -> Processes]
    /\ \A c \in Children : process[c] = "none" => asking[c] = 0
    /\ ~coordinated => permits = {}
    /\ stopping => ~grantTimer

\* The inductive invariant
PermitsInv ==
    /\ Rest
    /\ Good(ToSet(pending), outstanding, permits, Contents(down), age, Contents(up), asking,
            requests, socketAge, stopping)

-----------------------------------------------------------------------------
(* Sequences as sets *)

LEMMA AppendSet ==
    ASSUME NEW S, NEW s \in Seq(S), NEW e \in S
    PROVE  Append(s, e) \in Seq(S) /\ ToSet(Append(s, e)) = ToSet(s) \cup {e}
<1>1. /\ Append(s, e) \in Seq(S) /\ Len(Append(s, e)) = Len(s) + 1 /\ Len(s) \in Nat
      /\ \A i \in 1..Len(s) : Append(s, e)[i] = s[i]
      /\ Append(s, e)[Len(s) + 1] = e
  OBVIOUS
<1>2. DOMAIN Append(s, e) = 1..(Len(s) + 1) /\ DOMAIN s = 1..Len(s)
  BY <1>1
<1> QED
  BY <1>1, <1>2 DEF ToSet

LEMMA TailSet ==
    ASSUME NEW S, NEW s \in Seq(S), s # <<>>
    PROVE  /\ Tail(s) \in Seq(S) /\ ToSet(Tail(s)) \subseteq ToSet(s)
           /\ Head(s) \in S /\ Head(s) \in ToSet(s)
<1>1. /\ Tail(s) \in Seq(S) /\ Len(Tail(s)) = Len(s) - 1 /\ Len(s) \in Nat /\ Len(s) >= 1
      /\ \A i \in 1..(Len(s) - 1) : Tail(s)[i] = s[i + 1]
      /\ Head(s) = s[1] /\ s[1] \in S
  OBVIOUS
<1>2. DOMAIN Tail(s) = 1..(Len(s) - 1) /\ DOMAIN s = 1..Len(s)
  BY <1>1
<1>3. 1 \in DOMAIN s /\ \A i \in 1..(Len(s) - 1) : i + 1 \in DOMAIN s
  BY <1>1, <1>2
<1> QED
  BY <1>1, <1>2, <1>3 DEF ToSet

LEMMA EmptySet == ToSet(<<>>) = {}
BY DEF ToSet

LEMMA OnlyEmpty ==
    ASSUME NEW S, NEW s \in Seq(S), ToSet(s) = {}
    PROVE  s = <<>>
<1>1. Len(s) \in Nat /\ DOMAIN s = 1..Len(s)
  OBVIOUS
<1>2. Len(s) = 0
  <2>1. ASSUME Len(s) >= 1
        PROVE  FALSE
    <3>1. 1 \in DOMAIN s
      BY <1>1, <2>1
    <3> QED
      BY <3>1 DEF ToSet
  <2> QED
    BY <1>1, <2>1
<1> QED
  BY <1>2

LEMMA MembersIn ==
    ASSUME NEW S, NEW s \in Seq(S)
    PROVE  ToSet(s) \subseteq S
BY DEF ToSet

LEMMA ContentsAre ==
    ASSUME NEW ch \in Channels
    PROVE  /\ Contents(ch) \in [Children -> SUBSET Messages]
           /\ \A c \in Children : Contents(ch)[c] = ToSet(ch[c]) /\ ch[c] \in Seq(Messages)
<1>1. \A c \in Children : ch[c] \in Seq(Messages)
  BY DEF Channels
<1>2. \A c \in Children : ToSet(ch[c]) \in SUBSET Messages
  BY <1>1, MembersIn
<1> QED
  BY <1>1, <1>2 DEF Contents

\* A message sent reaches no other child.
LEMMA SentIs ==
    ASSUME NEW ch \in Channels, NEW c \in Children, NEW m \in Messages
    PROVE  /\ Sent(ch, c, m) \in Channels
           /\ \A x \in Children :
                  Contents(Sent(ch, c, m))[x] \subseteq Contents(ch)[x] \cup (IF x = c THEN {m} ELSE {})
<1> DEFINE more == [ch EXCEPT ![c] = Append(@, m)]
<1>1. ch[c] \in Seq(Messages)
  BY DEF Channels
<1>2. Append(ch[c], m) \in Seq(Messages) /\ ToSet(Append(ch[c], m)) = ToSet(ch[c]) \cup {m}
  BY <1>1, AppendSet
<1>3. more \in Channels /\ more[c] = Append(ch[c], m) /\ \A x \in Children : x # c => more[x] = ch[x]
  BY <1>2 DEF Channels
<1> HIDE DEF more
<1>4. \A x \in Children : Contents(more)[x] \subseteq Contents(ch)[x] \cup (IF x = c THEN {m} ELSE {})
  BY <1>2, <1>3 DEF Contents
<1>5. Sent(ch, c, m) = more \/ Sent(ch, c, m) = ch
  BY DEF Sent, more
<1> QED
  BY <1>3, <1>4, <1>5

\* What is left of the queue was in it.
LEMMA LeftIs ==
    ASSUME NEW gone, pending \in Seq(Entries), NEW queue \in Left(gone)
    PROVE  queue \in Seq(Entries) /\ ToSet(queue) \subseteq ToSet(pending)
<1> DEFINE kept == {i \in DOMAIN pending : pending[i] \notin gone}
           n == Cardinality(kept)
<1>1. DOMAIN pending = 1..Len(pending) /\ Len(pending) \in Nat
  OBVIOUS
<1>2. n \in Nat
  <2>1. IsFiniteSet(1..Len(pending))
    BY <1>1, FS_Interval
  <2>2. kept \subseteq 1..Len(pending)
    BY <1>1
  <2>3. IsFiniteSet(kept)
    BY <2>1, <2>2, FS_Subset
  <2> QED
    BY <2>3, FS_CardinalityType
<1>3. PICK at \in [1..n -> kept] : queue = [i \in DOMAIN at |-> pending[at[i]]]
  BY DEF Left
<1> HIDE DEF n
<1>4. queue = [i \in 1..n |-> pending[at[i]]] /\ DOMAIN queue = 1..n
  BY <1>3
<1>5. \A i \in 1..n : at[i] \in DOMAIN pending /\ queue[i] = pending[at[i]] /\ queue[i] \in Entries
  BY <1>1, <1>4
<1>6. queue \in [1..n -> Entries]
  BY <1>4, <1>5
<1>7. queue \in Seq(Entries)
  BY <1>2, <1>6, SeqDef
<1> QED
  BY <1>4, <1>5, <1>7 DEF ToSet

-----------------------------------------------------------------------------
(* What keeps the invariant *)

LEMMA OutstandingIs ==
    ASSUME NEW o \in Outstanding
    PROVE  /\ o # None /\ o.child \in Children /\ o.request \in Requests /\ o.request >= 1
           /\ o.granted \in BOOLEAN /\ o.muted \in BOOLEAN /\ o.stalled \in BOOLEAN
<1>1. /\ o.child \in Children /\ o.request \in Requests
      /\ o.granted \in BOOLEAN /\ o.muted \in BOOLEAN /\ o.stalled \in BOOLEAN
  BY DEF Outstanding
<1>2. o.request \in Nat /\ o.request >= 1
  BY <1>1, PermitsAssumption DEF Requests
<1>3. o \in [child : Children, request : Nat, granted : BOOLEAN, muted : BOOLEAN, stalled : BOOLEAN]
  BY <1>2 DEF Outstanding
<1> QED
  BY <1>1, <1>2, <1>3, PermitsAssumption

LEMMA MessageIs ==
    ASSUME NEW m \in Messages
    PROVE  m.request \in 0..MaxRequests /\ m = Message(m.type, m.request)
BY DEF Messages, Message

\* The same request is outstanding, muted or stalled meanwhile at most.
Same(o, w) ==
    IF o = None THEN w = None
    ELSE /\ w \in Outstanding /\ w.child = o.child /\ w.request = o.request /\ w.granted = o.granted
         /\ o.muted => w.muted

\* Fewer requests and messages, others that grant, report and withdraw nothing, and fewer that wait.
LEMMA QuieterHolds ==
    ASSUME NEW Q, NEW o, NEW p, NEW D, NEW a, NEW U, NEW k, NEW n, NEW sa, NEW st,
           Good(Q, o, p, D, a, U, k, n, sa, st),
           NEW P, P \subseteq Q, NEW w, Same(o, w), NEW q, q \subseteq p,
           NEW E \in [Children -> SUBSET Messages],
           \A c \in Children : \A m \in E[c] : m \in D[c] \/ m.type # "grant",
           NEW V \in [Children -> SUBSET Messages],
           \A c \in Children : \A m \in V[c] :
               m \in U[c] \/ (m.type \notin {"identify", "cancel", "sent"} /\ m.request = 0),
           st => \A c \in Children : V[c] = {},
           NEW l \in [Children -> 0..MaxRequests], \A c \in Children : l[c] \in {0, k[c]}
    PROVE  Good(P, w, q, E, a, V, l, n, sa, st)
<1> USE PermitsAssumption
<1>1. /\ Q \subseteq Entries /\ o \in Outstanding \cup {None} /\ p \subseteq Requests
      /\ D \in [Children -> SUBSET Messages] /\ U \in [Children -> SUBSET Messages]
      /\ k \in [Children -> 0..MaxRequests] /\ n \in 0..MaxRequests
      /\ a \in 0..Spacing /\ sa \in 0..Spacing /\ st \in BOOLEAN
  BY DEF Good, Typed
<1>2. /\ o # None => o \in Outstanding /\ o.request >= 1 /\ o.child \in Children
      /\ w # None => o # None /\ w.child = o.child /\ w.request = o.request /\ w.granted = o.granted
      /\ w = None => o = None
  BY <1>1, OutstandingIs DEF Same
<1>3. Typed(P, w, q, E, a, V, l, n, sa, st)
  BY <1>1 DEF Typed, Same
<1>4. \A c \in Children : l[c] = 0 \/ l[c] = k[c]
  OBVIOUS
<1>5. Numbered(P, w, E, V, l, n)
  <2>1. /\ \A e \in P : e.request <= n
        /\ w # None => w.request <= n
    BY <1>2 DEF Good, Numbered
  <2>2. \A c \in Children : l[c] <= n
    BY <1>1, <1>4 DEF Good, Numbered
  <2>3. \A c \in Children : \A m \in V[c] :
            m.request <= n /\ (m.type \in {"identify", "cancel", "sent"} => m.request >= 1)
    BY <1>1 DEF Good, Numbered
  <2>4. \A c \in Children : \A m \in E[c] : m.type = "grant" => m.request >= 1 /\ m.request <= n
    BY DEF Good, Numbered
  <2> QED
    BY <2>1, <2>2, <2>3, <2>4 DEF Numbered
<1>6. GrantsCurrent(w, E, l)
  <2> SUFFICES ASSUME NEW c \in Children, NEW m \in E[c], m.type = "grant", m.request = l[c]
               PROVE  w # None /\ w.child = c /\ w.request = l[c] /\ w.granted
    BY DEF GrantsCurrent
  <2>1. m \in D[c] /\ m.request >= 1
    BY DEF Good, Numbered
  <2>2. l[c] = k[c]
    BY <2>1, <1>4
  <2>3. o # None /\ o.child = c /\ o.request = k[c] /\ o.granted
    BY <2>1, <2>2 DEF Good, GrantsCurrent
  <2> QED
    BY <2>2, <2>3, <1>2 DEF Same
<1>7. Unsent(w, V, l, sa)
  <2> SUFFICES ASSUME w # None,
                      \/ l[w.child] = w.request
                      \/ Message("cancel", w.request) \in V[w.child]
                      \/ ~w.granted
               PROVE  sa = Spacing
    BY DEF Unsent
  <2>1. Message("cancel", o.request) \in V[o.child] => Message("cancel", o.request) \in U[o.child]
    BY <1>2 DEF Message
  <2>2. l[o.child] = o.request => k[o.child] = o.request
    BY <1>2, <1>4
  <2> QED
    BY <1>2, <2>1, <2>2 DEF Good, Unsent
<1>8. Counted(w, a, sa, st)
  BY <1>2 DEF Good, Counted
<1>9. NotWaiting(V, l)
  BY <1>1, <1>4 DEF Good, NotWaiting, Numbered
<1>10. NotGranted(w, q)
  BY <1>2 DEF Good, NotGranted
<1>11. Halted(P, w, V, st)
  BY <1>2 DEF Good, Halted, Same
<1> QED
  BY <1>3, <1>5, <1>6, <1>7, <1>8, <1>9, <1>10, <1>11 DEF Good

\* The turn is given up: the request that had it may not identify any more, and the age of the last
\* Identify is counted.
LEMMA GivenUpHolds ==
    ASSUME NEW Q, NEW o, NEW p, NEW D, NEW a, NEW U, NEW k, NEW n, NEW sa, NEW st,
           Good(Q, o, p, D, a, U, k, n, sa, st),
           NEW b \in 0..Spacing, st \/ b <= sa,
           \A c \in Children : \A m \in D[c] : ~(m.type = "grant" /\ m.request = k[c])
    PROVE  Good(Q, None, p, D, b, U, k, n, sa, st)
<1>1. Typed(Q, None, p, D, b, U, k, n, sa, st)
  BY DEF Good, Typed
<1>2. Numbered(Q, None, D, U, k, n)
  BY DEF Good, Numbered
<1>3. GrantsCurrent(None, D, k)
  BY DEF GrantsCurrent
<1>4. Unsent(None, U, k, sa) /\ NotGranted(None, p)
  BY DEF Unsent, NotGranted
<1>5. Counted(None, b, sa, st)
  BY DEF Counted
<1>6. NotWaiting(U, k) /\ Halted(Q, None, U, st)
  BY DEF Good, Halted
<1> QED
  BY <1>1, <1>2, <1>3, <1>4, <1>5, <1>6 DEF Good

\* The next request has its turn once the spacing is over, and is not granted yet.
LEMMA TurnHolds ==
    ASSUME NEW Q, NEW p, NEW D, NEW U, NEW k, NEW n, NEW sa, NEW st, st = FALSE,
           Good(Q, None, p, D, Spacing, U, k, n, sa, st),
           NEW P, P \subseteq Q, NEW q, q \subseteq Requests, NEW w \in Outstanding, ~w.granted, w.request <= n
    PROVE  Good(P, w, q, D, Spacing, U, k, n, sa, st)
<1>1. sa = Spacing
  BY PermitsAssumption DEF Good, Typed, Counted
<1>2. Typed(P, w, q, D, Spacing, U, k, n, sa, st)
  BY DEF Good, Typed
<1>3. Numbered(P, w, D, U, k, n)
  BY DEF Good, Numbered
<1>4. GrantsCurrent(w, D, k)
  BY DEF Good, GrantsCurrent
<1>5. Unsent(w, U, k, sa) /\ NotGranted(w, q)
  BY <1>1 DEF Unsent, NotGranted
<1>6. Counted(w, Spacing, sa, st)
  BY <1>1, PermitsAssumption DEF Counted
<1>7. NotWaiting(U, k) /\ Halted(P, w, U, st)
  BY DEF Good, Halted
<1> QED
  BY <1>1, <1>2, <1>3, <1>4, <1>5, <1>6, <1>7 DEF Good

\* The outstanding request is granted, when the last Identify is the spacing ago.
LEMMA GrantedHolds ==
    ASSUME NEW Q, NEW o, NEW p, NEW D, NEW a, NEW U, NEW k, NEW n,
           Good(Q, o, p, D, a, U, k, n, Spacing, FALSE), o # None,
           NEW w \in Outstanding, w.child = o.child, w.request = o.request, w.granted,
           NEW q, q \subseteq p, o.request \notin q,
           NEW E \in [Children -> SUBSET Messages],
           \A c \in Children : \A m \in E[c] :
               m \in D[c] \/ (c = o.child /\ m = Message("grant", o.request))
    PROVE  Good(Q, w, q, E, a, U, k, n, Spacing, FALSE)
<1>1. o \in Outstanding /\ o.request >= 1 /\ o.request <= n
  BY OutstandingIs DEF Good, Typed, Numbered
<1>2. Typed(Q, w, q, E, a, U, k, n, Spacing, FALSE)
  BY DEF Good, Typed
<1>3. Numbered(Q, w, E, U, k, n)
  <2>1. \A c \in Children : \A m \in E[c] : m.type = "grant" => m.request >= 1 /\ m.request <= n
    BY <1>1 DEF Good, Numbered, Message
  <2> QED
    BY <1>1, <2>1 DEF Good, Numbered
<1>4. GrantsCurrent(w, E, k)
  <2> SUFFICES ASSUME NEW c \in Children, NEW m \in E[c], m.type = "grant", m.request = k[c]
               PROVE  w # None /\ w.child = c /\ w.request = k[c] /\ w.granted
    BY DEF GrantsCurrent
  <2>1. w # None
    BY OutstandingIs
  <2>2. CASE m \in D[c]
    BY <2>1, <2>2 DEF Good, GrantsCurrent
  <2>3. CASE c = o.child /\ m = Message("grant", o.request)
    BY <2>1, <2>3 DEF Message
  <2> QED
    BY <2>2, <2>3
<1>5. Unsent(w, U, k, Spacing)
  BY DEF Unsent
<1>6. Counted(w, a, Spacing, FALSE)
  BY OutstandingIs DEF Counted
<1>7. NotGranted(w, q) /\ NotWaiting(U, k) /\ Halted(Q, w, U, FALSE)
  BY DEF Good, NotGranted, Halted
<1> QED
  BY <1>2, <1>3, <1>4, <1>5, <1>6, <1>7 DEF Good

\* The supervisor stops: nothing is queued or heard any more, and what was granted is muted.
LEMMA HaltedHolds ==
    ASSUME NEW Q, NEW o, NEW p, NEW D, NEW a, NEW U, NEW k, NEW n, NEW sa, NEW st,
           Good(Q, o, p, D, a, U, k, n, sa, st), o = None \/ o.muted,
           NEW V \in [Children -> SUBSET Messages], \A c \in Children : V[c] = {}
    PROVE  Good({}, o, p, D, a, V, k, n, sa, TRUE)
<1>1. Typed({}, o, p, D, a, V, k, n, sa, TRUE)
  BY DEF Good, Typed
<1>2. Numbered({}, o, D, V, k, n) /\ NotWaiting(V, k)
  BY DEF Good, Numbered, NotWaiting
<1>3. GrantsCurrent(o, D, k) /\ NotGranted(o, p)
  BY DEF Good
<1>4. Unsent(o, V, k, sa)
  <2>1. o # None => o.child \in Children
    BY OutstandingIs DEF Good, Typed
  <2> QED
    BY <2>1 DEF Good, Unsent
<1>5. Counted(o, a, sa, TRUE) /\ Halted({}, o, V, TRUE)
  BY DEF Counted, Halted
<1> QED
  BY <1>1, <1>2, <1>3, <1>4, <1>5 DEF Good

\* A child that waits for nothing makes a request of a new number.
LEMMA AskedHolds ==
    ASSUME NEW Q, NEW o, NEW p, NEW D, NEW a, NEW U, NEW k, NEW n, NEW sa,
           Good(Q, o, p, D, a, U, k, n, sa, FALSE), n < MaxRequests,
           NEW c \in Children, k[c] = 0,
           NEW V \in [Children -> SUBSET Messages],
           \A x \in Children : \A m \in V[x] :
               m \in U[x] \/ (x = c /\ m = Message("identify", n + 1))
    PROVE  Good(Q, o, p, D, a, V, [k EXCEPT ![c] = n + 1], n + 1, sa, FALSE)
<1> DEFINE l == [k EXCEPT ![c] = n + 1]
<1>1. /\ n \in 0..MaxRequests /\ n + 1 \in 0..MaxRequests /\ k \in [Children -> 0..MaxRequests]
      /\ U \in [Children -> SUBSET Messages]
  BY PermitsAssumption DEF Good, Typed
<1>2. l \in [Children -> 0..MaxRequests] /\ l[c] = n + 1 /\ \A x \in Children : x # c => l[x] = k[x]
  BY <1>1
<1> HIDE DEF l
<1>3. Typed(Q, o, p, D, a, V, l, n + 1, sa, FALSE)
  BY <1>1, <1>2 DEF Good, Typed
<1>4. o # None => o \in Outstanding /\ o.child \in Children /\ o.request \in Nat /\ o.request <= n
  BY OutstandingIs, PermitsAssumption DEF Good, Typed, Numbered, Requests
<1>5. \A x \in Children : k[x] \in Nat /\ k[x] <= n
  BY <1>1 DEF Good, Numbered
<1>6. \A x \in Children : \A m \in U[x] : m.request \in Nat /\ m.request <= n
  <2>1. \A x \in Children : \A m \in U[x] : m \in Messages
    BY <1>1
  <2> QED
    BY <2>1, MessageIs DEF Good, Numbered
<1>7. Numbered(Q, o, D, V, l, n + 1)
  <2>1. \A e \in Q : e.request <= n + 1
    <3>1. \A e \in Q : e.request \in Requests /\ e.request <= n
      BY DEF Good, Typed, Numbered, Entries
    <3> QED
      BY <1>1, <3>1, PermitsAssumption DEF Requests
  <2>2. o # None => o.request <= n + 1
    BY <1>1, <1>4
  <2>3. \A x \in Children : l[x] <= n + 1
    BY <1>1, <1>2, <1>5
  <2>4. \A x \in Children : \A m \in V[x] :
            m.request <= n + 1 /\ (m.type \in {"identify", "cancel", "sent"} => m.request >= 1)
    <3> SUFFICES ASSUME NEW x \in Children, NEW m \in V[x]
                 PROVE  m.request <= n + 1 /\ (m.type \in {"identify", "cancel", "sent"} => m.request >= 1)
      OBVIOUS
    <3>1. CASE m \in U[x]
      BY <3>1, <1>1, <1>6 DEF Good, Numbered
    <3>2. CASE m = Message("identify", n + 1)
      BY <3>2, <1>1 DEF Message
    <3> QED
      BY <3>1, <3>2
  <2>5. \A x \in Children : \A m \in D[x] : m.type = "grant" => m.request >= 1 /\ m.request <= n + 1
    <3>1. \A x \in Children : \A m \in D[x] : m \in Messages
      BY DEF Good, Typed
    <3>2. \A x \in Children : \A m \in D[x] :
              m.request \in Nat /\ (m.type = "grant" => m.request >= 1 /\ m.request <= n)
      BY <3>1, MessageIs DEF Good, Numbered
    <3> QED
      BY <1>1, <3>2
  <2> QED
    BY <2>1, <2>2, <2>3, <2>4, <2>5 DEF Numbered
<1>8. GrantsCurrent(o, D, l)
  <2> SUFFICES ASSUME NEW x \in Children, NEW m \in D[x], m.type = "grant", m.request = l[x]
               PROVE  o # None /\ o.child = x /\ o.request = l[x] /\ o.granted
    BY DEF GrantsCurrent
  <2>1. m.request <= n
    BY DEF Good, Numbered
  <2>2. x # c
    BY <1>1, <1>2, <2>1
  <2> QED
    BY <1>2, <2>2 DEF Good, GrantsCurrent
<1>9. Unsent(o, V, l, sa)
  <2> SUFFICES ASSUME o # None, \/ l[o.child] = o.request
                                \/ Message("cancel", o.request) \in V[o.child]
                                \/ ~o.granted
               PROVE  sa = Spacing
    BY DEF Unsent
  <2>1. l[o.child] = o.request => k[o.child] = o.request
    BY <1>1, <1>2, <1>4
  <2>2. Message("cancel", o.request) \in V[o.child] => Message("cancel", o.request) \in U[o.child]
    BY <1>4 DEF Message
  <2> QED
    BY <2>1, <2>2 DEF Good, Unsent
<1>10. NotWaiting(V, l)
  <2> SUFFICES ASSUME NEW x \in Children, NEW m \in V[x], m.type \in {"sent", "cancel"}
               PROVE  m.request # l[x]
    BY DEF NotWaiting
  <2>1. m \in U[x]
    BY DEF Message
  <2> QED
    BY <2>1, <1>1, <1>2, <1>6 DEF Good, NotWaiting
<1>11. Counted(o, a, sa, FALSE) /\ NotGranted(o, p) /\ Halted(Q, o, V, FALSE)
  BY DEF Good, Halted
<1>12. Good(Q, o, p, D, a, V, l, n + 1, sa, FALSE)
  BY <1>3, <1>7, <1>8, <1>9, <1>10, <1>11 DEF Good
<1> QED
  BY <1>12 DEF l

\* A child withdraws the request it waits for, and says so.
LEMMA WithdrawnHolds ==
    ASSUME NEW Q, NEW o, NEW p, NEW D, NEW a, NEW U, NEW k, NEW n, NEW sa, NEW st,
           Good(Q, o, p, D, a, U, k, n, sa, st),
           NEW c \in Children, k[c] # 0,
           NEW E \in [Children -> SUBSET Messages], \A x \in Children : E[x] \subseteq D[x],
           NEW V \in [Children -> SUBSET Messages], st => \A x \in Children : V[x] = {},
           \A x \in Children : \A m \in V[x] :
               \/ m \in U[x]
               \/ m.type \notin {"identify", "cancel", "sent"} /\ m.request = 0
               \/ x = c /\ m = Message("cancel", k[c])
    PROVE  Good(Q, o, p, E, a, V, [k EXCEPT ![c] = 0], n, sa, st)
<1> DEFINE l == [k EXCEPT ![c] = 0]
<1>1. /\ n \in 0..MaxRequests /\ k \in [Children -> 0..MaxRequests] /\ 0 \in 0..MaxRequests
      /\ U \in [Children -> SUBSET Messages] /\ MaxRequests \in Nat
  BY PermitsAssumption DEF Good, Typed
<1>2. l \in [Children -> 0..MaxRequests] /\ l[c] = 0 /\ \A x \in Children : x # c => l[x] = k[x]
  BY <1>1
<1> HIDE DEF l
<1>3. k[c] \in Nat /\ k[c] >= 1 /\ k[c] <= n
  BY <1>1 DEF Good, Numbered
<1>4. o # None => o \in Outstanding /\ o.child \in Children /\ o.request >= 1
  BY OutstandingIs DEF Good, Typed
<1>5. Typed(Q, o, p, E, a, V, l, n, sa, st)
  BY <1>2 DEF Good, Typed
<1>6. \A x \in Children : l[x] = k[x] \/ l[x] = 0
  BY <1>2
<1>7. Numbered(Q, o, E, V, l, n)
  <2>1. \A x \in Children : l[x] <= n
    BY <1>1, <1>6 DEF Good, Numbered
  <2>2. \A x \in Children : \A m \in V[x] :
            m.request <= n /\ (m.type \in {"identify", "cancel", "sent"} => m.request >= 1)
    <3> SUFFICES ASSUME NEW x \in Children, NEW m \in V[x]
                 PROVE  m.request <= n /\ (m.type \in {"identify", "cancel", "sent"} => m.request >= 1)
      OBVIOUS
    <3>1. CASE m \in U[x]
      BY <3>1 DEF Good, Numbered
    <3>2. CASE m.type \notin {"identify", "cancel", "sent"} /\ m.request = 0
      BY <3>2, <1>1
    <3>3. CASE m = Message("cancel", k[c])
      BY <3>3, <1>3 DEF Message
    <3> QED
      BY <3>1, <3>2, <3>3
  <2> QED
    BY <2>1, <2>2 DEF Good, Numbered
<1>8. GrantsCurrent(o, E, l)
  <2> SUFFICES ASSUME NEW x \in Children, NEW m \in E[x], m.type = "grant", m.request = l[x]
               PROVE  o # None /\ o.child = x /\ o.request = l[x] /\ o.granted
    BY DEF GrantsCurrent
  <2>1. m \in D[x] /\ m.request >= 1
    BY DEF Good, Numbered
  <2>2. l[x] = k[x]
    BY <2>1, <1>6
  <2> QED
    BY <2>1, <2>2 DEF Good, GrantsCurrent
<1>9. Unsent(o, V, l, sa)
  <2> SUFFICES ASSUME o # None, \/ l[o.child] = o.request
                                \/ Message("cancel", o.request) \in V[o.child]
                                \/ ~o.granted
               PROVE  sa = Spacing
    BY DEF Unsent
  <2>1. l[o.child] = o.request => k[o.child] = o.request
    BY <1>4, <1>6
  <2>2. ASSUME Message("cancel", o.request) \in V[o.child]
        PROVE  Message("cancel", o.request) \in U[o.child] \/ k[o.child] = o.request
    BY <2>2, <1>4 DEF Message
  <2> QED
    BY <2>1, <2>2 DEF Good, Unsent
<1>10. NotWaiting(V, l)
  <2> SUFFICES ASSUME NEW x \in Children, NEW m \in V[x], m.type \in {"sent", "cancel"}
               PROVE  m.request # l[x]
    BY DEF NotWaiting
  <2>1. CASE m \in U[x]
    <3>1. m.request # k[x] /\ m.request >= 1
      BY <2>1 DEF Good, NotWaiting, Numbered
    <3> QED
      BY <3>1, <1>6
  <2>2. CASE x = c /\ m = Message("cancel", k[c])
    BY <2>2, <1>2 DEF Message
  <2> QED
    BY <2>1, <2>2
<1>11. Counted(o, a, sa, st) /\ NotGranted(o, p) /\ Halted(Q, o, V, st)
  BY DEF Good, Halted
<1>12. Good(Q, o, p, E, a, V, l, n, sa, st)
  BY <1>5, <1>7, <1>8, <1>9, <1>10, <1>11 DEF Good
<1> QED
  BY <1>12 DEF l

\* The request that waits takes its grant: the last Identify is the spacing ago.
LEMMA IdentifiedHolds ==
    ASSUME NEW Q, NEW o, NEW p, NEW D, NEW a, NEW U, NEW k, NEW n, NEW sa, NEW st,
           Good(Q, o, p, D, a, U, k, n, sa, st),
           NEW c \in Children, Message("grant", k[c]) \in D[c],
           NEW E \in [Children -> SUBSET Messages], \A x \in Children : E[x] \subseteq D[x],
           NEW V \in [Children -> SUBSET Messages], st => \A x \in Children : V[x] = {},
           \A x \in Children : \A m \in V[x] : m \in U[x] \/ (x = c /\ m = Message("sent", k[c])),
           NEW b \in 0..Spacing
    PROVE  sa = Spacing /\ Good(Q, o, p, E, a, V, [k EXCEPT ![c] = 0], n, b, st)
<1> DEFINE l == [k EXCEPT ![c] = 0]
<1>1. /\ n \in 0..MaxRequests /\ k \in [Children -> 0..MaxRequests] /\ 0 \in 0..MaxRequests
      /\ U \in [Children -> SUBSET Messages] /\ MaxRequests \in Nat
  BY PermitsAssumption DEF Good, Typed
<1>2. l \in [Children -> 0..MaxRequests] /\ l[c] = 0 /\ \A x \in Children : x # c => l[x] = k[x]
  BY <1>1
<1> HIDE DEF l
<1>3. k[c] \in Nat /\ k[c] >= 1 /\ k[c] <= n
  BY <1>1 DEF Good, Numbered, Message
<1>4. o # None /\ o.child = c /\ o.request = k[c] /\ o.granted
  BY DEF Good, GrantsCurrent, Message
<1>5. sa = Spacing
  BY <1>4 DEF Good, Unsent
<1>6. Typed(Q, o, p, E, a, V, l, n, b, st)
  BY <1>1, <1>2 DEF Good, Typed
<1>7. \A x \in Children : l[x] = k[x] \/ l[x] = 0
  BY <1>2
<1>8. Numbered(Q, o, E, V, l, n)
  <2>1. \A x \in Children : l[x] <= n
    BY <1>1, <1>7 DEF Good, Numbered
  <2>2. \A x \in Children : \A m \in V[x] :
            m.request <= n /\ (m.type \in {"identify", "cancel", "sent"} => m.request >= 1)
    BY <1>3 DEF Good, Numbered, Message
  <2> QED
    BY <2>1, <2>2 DEF Good, Numbered
<1>9. GrantsCurrent(o, E, l)
  <2> SUFFICES ASSUME NEW x \in Children, NEW m \in E[x], m.type = "grant", m.request = l[x]
               PROVE  o # None /\ o.child = x /\ o.request = l[x] /\ o.granted
    BY DEF GrantsCurrent
  <2>1. m \in D[x] /\ m.request >= 1
    BY DEF Good, Numbered
  <2>2. l[x] = k[x]
    BY <2>1, <1>7
  <2> QED
    BY <2>1, <2>2 DEF Good, GrantsCurrent
<1>10. Unsent(o, V, l, b)
  <2>1. l[o.child] # o.request
    BY <1>2, <1>3, <1>4
  <2>2. Message("cancel", o.request) \notin V[o.child]
    BY <1>4 DEF Good, NotWaiting, Message
  <2> QED
    BY <1>4, <2>1, <2>2 DEF Unsent
<1>11. NotWaiting(V, l)
  <2> SUFFICES ASSUME NEW x \in Children, NEW m \in V[x], m.type \in {"sent", "cancel"}
               PROVE  m.request # l[x]
    BY DEF NotWaiting
  <2>1. CASE m \in U[x]
    <3>1. m.request # k[x] /\ m.request >= 1
      BY <2>1 DEF Good, NotWaiting, Numbered
    <3> QED
      BY <3>1, <1>7
  <2>2. CASE x = c /\ m = Message("sent", k[c])
    BY <2>2, <1>2, <1>3 DEF Message
  <2> QED
    BY <2>1, <2>2
<1>12. Counted(o, a, b, st)
  BY <1>4 DEF Counted
<1>13. NotGranted(o, p) /\ Halted(Q, o, V, st)
  BY DEF Good, Halted
<1>14. Good(Q, o, p, E, a, V, l, n, b, st)
  BY <1>6, <1>8, <1>9, <1>10, <1>11, <1>12, <1>13 DEF Good
<1> QED
  BY <1>5, <1>14 DEF l

\* Time passes for both.
LEMMA OlderHolds ==
    ASSUME NEW Q, NEW o, NEW p, NEW D, NEW a, NEW U, NEW k, NEW n, NEW sa, NEW st,
           Good(Q, o, p, D, a, U, k, n, sa, st)
    PROVE  Good(Q, o, p, D, IF a < Spacing THEN a + 1 ELSE a, U, k, n,
                IF sa < Spacing THEN sa + 1 ELSE sa, st)
<1> DEFINE b == IF a < Spacing THEN a + 1 ELSE a
           sb == IF sa < Spacing THEN sa + 1 ELSE sa
<1>1. a \in 0..Spacing /\ sa \in 0..Spacing /\ Spacing \in Nat
  BY PermitsAssumption DEF Good, Typed
<1>2. b \in 0..Spacing /\ sb \in 0..Spacing /\ (sa = Spacing => sb = Spacing) /\ (a <= sa => b <= sb)
  BY <1>1
<1> HIDE DEF b, sb
<1>3. Typed(Q, o, p, D, b, U, k, n, sb, st)
  BY <1>2 DEF Good, Typed
<1>4. Unsent(o, U, k, sb) /\ Counted(o, b, sb, st)
  BY <1>2 DEF Good, Unsent, Counted
<1>5. Good(Q, o, p, D, b, U, k, n, sb, st)
  BY <1>3, <1>4 DEF Good
<1> QED
  BY <1>5 DEF b, sb

-----------------------------------------------------------------------------
(* What the actions share *)

LEMMA ScheduleHolds ==
    ASSUME NEW queue \in Seq(Entries), NEW current, NEW timer \in BOOLEAN, NEW since, NEW unsettled,
           NEW channels \in Channels, NEW U, NEW k, NEW n, NEW sa, NEW st, st = FALSE,
           Good(ToSet(queue), current, unsettled, Contents(channels), since, U, k, n, sa, st),
           coordinated \in BOOLEAN, ~coordinated => unsettled = {},
           Schedule(queue, current, timer, since, unsettled, channels)
    PROVE  /\ pending' \in Seq(Entries) /\ down' \in Channels /\ grantTimer' \in BOOLEAN
           /\ ~coordinated => permits' = {}
           /\ Good(ToSet(pending'), outstanding', permits', Contents(down'), since, U, k, n, sa, st)
<1>1. CASE timer \/ current # None \/ queue = <<>> \/ since < Spacing
  <2>1. pending' = queue /\ outstanding' = current /\ permits' = unsettled /\ down' = channels
    BY <1>1 DEF Schedule
  <2>2. grantTimer' \in BOOLEAN
    BY <1>1, Zenon DEF Schedule
  <2> QED
    BY <2>1, <2>2
<1>2. CASE ~timer /\ current = None /\ queue # <<>> /\ ~(since < Spacing)
  <2> DEFINE next == Head(queue)
             rest == Tail(queue)
             turn == [child |-> next.child, request |-> next.request,
                   granted |-> ~coordinated, muted |-> FALSE, stalled |-> FALSE]
  <2>1. /\ rest \in Seq(Entries) /\ ToSet(rest) \subseteq ToSet(queue)
        /\ next \in Entries /\ next \in ToSet(queue)
    BY <1>2, TailSet
  <2>2. next.child \in Children /\ next.request \in Requests
    BY <2>1 DEF Entries
  <2>3. /\ pending' = rest /\ grantTimer' = FALSE /\ outstanding' = turn
        /\ IF coordinated
           THEN permits' = unsettled \cup {next.request} /\ down' = channels
           ELSE /\ permits' = unsettled
                /\ down' = Sent(channels, next.child, Message("grant", next.request))
    BY <1>2 DEF Schedule
  <2>4. since = Spacing
    BY <1>2, PermitsAssumption DEF Good, Typed
  <2>5. turn \in Outstanding
    BY <2>2 DEF Outstanding
  <2>6. turn.child = next.child /\ turn.request = next.request /\ turn.granted = ~coordinated
    OBVIOUS
  <2> HIDE DEF turn, next, rest
  <2>7. Good(ToSet(queue), None, unsettled, Contents(channels), Spacing, U, k, n, sa, st)
    BY <1>2, <2>4
  <2>8. unsettled \subseteq Requests
    BY DEF Good, Typed
  <2>9. CASE coordinated
    <3>1. permits' \subseteq Requests
      BY <2>2, <2>3, <2>8, <2>9
    <3>2. ~turn.granted
      BY <2>6, <2>9
    <3>3. turn.request <= n
      BY <2>1, <2>6 DEF Good, Numbered
    <3>4. Good(ToSet(rest), turn, permits', Contents(channels), Spacing, U, k, n, sa, st)
      BY <2>1, <2>5, <2>7, <3>1, <3>2, <3>3, TurnHolds
    <3> QED
      BY <2>1, <2>3, <2>4, <2>9, <3>1, <3>4
  <2>10. CASE ~coordinated
    <3> DEFINE early == [turn EXCEPT !.granted = FALSE]
               grant == Message("grant", next.request)
    <3>1. early \in Outstanding /\ ~early.granted
      BY <2>5 DEF Outstanding
    <3>2. early.child = turn.child /\ early.request = turn.request
      BY <2>5 DEF Outstanding
    <3> HIDE DEF early
    <3>3. Good(ToSet(rest), early, permits', Contents(channels), Spacing, U, k, n, sa, st)
      <4>1. early.request <= n
        BY <2>1, <2>6, <3>2 DEF Good, Numbered
      <4>2. permits' \subseteq Requests
        BY <2>3, <2>8, <2>10
      <4> QED
        BY <2>1, <2>7, <3>1, <4>1, <4>2, TurnHolds
    <3>4. permits' = {} /\ down' = Sent(channels, next.child, grant)
      BY <2>3, <2>10
    <3>5. grant \in Messages /\ grant.type = "grant"
      <4>1. next.request \in 0..MaxRequests
        BY <2>2, PermitsAssumption DEF Requests
      <4> QED
        BY <4>1 DEF Messages, Message
    <3>6. /\ down' \in Channels
          /\ \A x \in Children : Contents(down')[x] \subseteq
                 Contents(channels)[x] \cup (IF x = next.child THEN {grant} ELSE {})
      BY <2>2, <3>4, <3>5, SentIs
    <3>7. Contents(down') \in [Children -> SUBSET Messages]
      BY <3>6, ContentsAre
    <3>8. \A x \in Children : \A m \in Contents(down')[x] :
              m \in Contents(channels)[x] \/ (x = early.child /\ m = Message("grant", early.request))
      BY <2>6, <3>2, <3>6
    <3>9. early # None /\ turn.granted
      BY <2>6, <2>10, <3>1, OutstandingIs
    <3>10. sa = Spacing
      BY <2>7, PermitsAssumption DEF Good, Typed, Counted
    <3>11. Good(ToSet(rest), turn, {}, Contents(down'), Spacing, U, k, n, Spacing, FALSE)
      <4> DEFINE D == Contents(channels)
                 E == Contents(down')
      <4>1. Good(ToSet(rest), early, permits', D, Spacing, U, k, n, Spacing, FALSE)
        BY <3>3, <3>10
      <4>2. {} \subseteq permits' /\ early.request \notin {}
        OBVIOUS
      <4>3. /\ E \in [Children -> SUBSET Messages]
            /\ \A x \in Children : \A m \in E[x] :
                  m \in D[x] \/ (x = early.child /\ m = Message("grant", early.request))
        BY <3>7, <3>8
      <4>4. turn.child = early.child /\ turn.request = early.request
        BY <3>2
      <4> HIDE DEF D, E
      <4>5. Good(ToSet(rest), turn, {}, E, Spacing, U, k, n, Spacing, FALSE)
        BY <2>5, <3>9, <4>1, <4>2, <4>3, <4>4, GrantedHolds, ZenonT(60)
      <4> QED
        BY <4>5 DEF E
    <3> QED
      BY <2>1, <2>3, <2>4, <3>4, <3>6, <3>10, <3>11
  <2> QED
    BY <2>9, <2>10
<1> QED
  BY <1>1, <1>2

LEMMA StopsIs ==
    ASSUME NEW children, NEW channels \in Channels, Stops(children, channels)
    PROVE  /\ down' \in Channels
           /\ \A x \in Children : \A m \in Contents(down')[x] :
                  m \in Contents(channels)[x] \/ m.type # "grant"
<1> DEFINE stop == Message("shutdown", 0)
<1>1. stop \in Messages /\ stop.type = "shutdown"
  BY PermitsAssumption DEF Message, Messages
<1>2. \A x \in Children : channels[x] \in Seq(Messages)
  BY DEF Channels
<1> HIDE DEF stop
<1>3. \A x \in Children :
          /\ Append(channels[x], stop) \in Seq(Messages)
          /\ ToSet(Append(channels[x], stop)) = ToSet(channels[x]) \cup {stop}
  BY <1>1, <1>2, AppendSet
<1>4. down' = [c \in Children |-> IF c \in (children \ stopTimer) \cap Reached
                   THEN Append(channels[c], stop) ELSE channels[c]]
  BY DEF Stops, stop
<1>5. \A x \in Children : down'[x] = Append(channels[x], stop) \/ down'[x] = channels[x]
  BY <1>4
<1>6. down' \in Channels
  BY <1>2, <1>3, <1>4 DEF Channels
<1>7. ASSUME NEW x \in Children, NEW m \in ToSet(down'[x])
      PROVE  m \in ToSet(channels[x]) \/ m.type # "grant"
  BY <1>1, <1>3, <1>5
<1> QED
  BY <1>6, <1>7 DEF Contents

LEMMA ShutdownHolds ==
    ASSUME NEW left, NEW current, NEW channels \in Channels,
           NEW Q, NEW a, NEW U, NEW k, NEW n, NEW sa, NEW st,
           Good(Q, current, permits, Contents(channels), a, U, k, n, sa, st),
           \A c \in Children : c \notin left => k[c] = 0,
           BeginsShutdown(left, current, channels)
    PROVE  /\ pending' = <<>> /\ up' \in Channels /\ down' \in Channels
           /\ grantTimer' = FALSE /\ stopping' = TRUE
           /\ permits' = permits /\ coordinated' = coordinated
           /\ Good(ToSet(pending'), outstanding', permits', Contents(down'), a, Contents(up'),
                   k, n, sa, stopping')
<1>1. /\ pending' = <<>> /\ grantTimer' = FALSE /\ stopping' = TRUE
      /\ permits' = permits /\ coordinated' = coordinated
      /\ up' = [c \in Children |-> <<>>]
      /\ outstanding' = IF current = None \/ left = {} THEN None ELSE [current EXCEPT !.muted = TRUE]
      /\ Stops(left, channels)
  BY DEF BeginsShutdown
<1>2. /\ down' \in Channels /\ Contents(down') \in [Children -> SUBSET Messages]
      /\ \A x \in Children : \A m \in Contents(down')[x] :
             m \in Contents(channels)[x] \/ m.type # "grant"
  BY <1>1, StopsIs, ContentsAre
<1>3. up' \in Channels
  BY <1>1 DEF Channels
<1>4. Contents(up') \in [Children -> SUBSET Messages] /\ \A c \in Children : Contents(up')[c] = {}
  BY <1>1, <1>3, ContentsAre, EmptySet
<1>5. current \in Outstanding \cup {None} /\ k \in [Children -> 0..MaxRequests] /\ a \in 0..Spacing
  BY DEF Good, Typed
<1>6. \A x \in Children : \A m \in Contents(down')[x] :
          m.type = "grant" => m \in Contents(channels)[x] /\ m.request >= 1
  BY <1>2 DEF Good, Numbered
<1>7. Good({}, outstanding', permits, Contents(down'), a, Contents(up'), k, n, sa, TRUE)
  <2>1. CASE outstanding' # None
    <3>1. current \in Outstanding /\ outstanding' = [current EXCEPT !.muted = TRUE]
      BY <1>1, <1>5, <2>1
    <3>2. Same(current, outstanding') /\ outstanding'.muted
      BY <3>1, OutstandingIs DEF Same, Outstanding
    <3>3. Good(Q, outstanding', permits, Contents(down'), a, Contents(up'), k, n, sa, st)
      BY <1>2, <1>4, <1>5, <3>2, QuieterHolds
    <3>4. Good({}, outstanding', permits, Contents(down'), a, Contents(up'), k, n, sa, TRUE)
      BY <1>4, <3>2, <3>3, HaltedHolds
    <3> QED
      BY <3>4
  <2>2. CASE outstanding' = None
    <3>1. current = None \/ left = {}
      BY <1>1, <1>5, <2>2, OutstandingIs DEF Outstanding
    <3>2. \A c \in Children : \A m \in Contents(down')[c] : ~(m.type = "grant" /\ m.request = k[c])
      BY <1>6, <3>1 DEF Good, GrantsCurrent
    <3>3. Good(Q, current, permits, Contents(down'), a, Contents(up'), k, n, sa, st)
      <4>1. Same(current, current)
        BY <1>5 DEF Same
      <4> QED
        BY <1>2, <1>4, <1>5, <4>1, QuieterHolds
    <3>4. CASE current = None
      BY <2>2, <3>3, <3>4, <1>4, HaltedHolds
    <3>5. CASE current # None
      <4> DEFINE w == [current EXCEPT !.muted = TRUE]
      <4>1. Same(current, w) /\ w.muted
        BY <1>5, <3>5, OutstandingIs DEF Same, Outstanding
      <4> HIDE DEF w
      <4>2. Good(Q, w, permits, Contents(down'), a, Contents(up'), k, n, sa, st)
        BY <1>2, <1>4, <1>5, <4>1, QuieterHolds
      <4>3. Good({}, w, permits, Contents(down'), a, Contents(up'), k, n, sa, TRUE)
        BY <1>4, <4>1, <4>2, HaltedHolds
      <4>4. Good({}, None, permits, Contents(down'), a, Contents(up'), k, n, sa, TRUE)
        BY <1>5, <3>2, <4>3, GivenUpHolds
      <4> QED
        BY <2>2, <4>4
    <3> QED
      BY <2>2, <3>4, <3>5
  <2> QED
    BY <2>1, <2>2
<1> QED
  BY <1>1, <1>2, <1>3, <1>7, EmptySet

LEMMA ConcatSet ==
    ASSUME NEW S, NEW s \in Seq(S), NEW t \in Seq(S)
    PROVE  s \o t \in Seq(S) /\ ToSet(s \o t) \subseteq ToSet(s) \cup ToSet(t)
<1>1. /\ s \o t \in Seq(S) /\ Len(s \o t) = Len(s) + Len(t) /\ Len(s) \in Nat /\ Len(t) \in Nat
      /\ \A i \in 1..Len(s) : (s \o t)[i] = s[i]
      /\ \A i \in (Len(s) + 1)..(Len(s) + Len(t)) : (s \o t)[i] = t[i - Len(s)]
  BY ConcatProperties
<1>2. /\ DOMAIN (s \o t) = 1..(Len(s) + Len(t)) /\ DOMAIN s = 1..Len(s) /\ DOMAIN t = 1..Len(t)
  BY <1>1
<1>3. ASSUME NEW i \in 1..(Len(s) + Len(t))
      PROVE  (s \o t)[i] \in ToSet(s) \cup ToSet(t)
  <2>1. CASE i <= Len(s)
    <3>1. i \in 1..Len(s)
      BY <1>1, <2>1
    <3> QED
      BY <3>1, <1>1, <1>2 DEF ToSet
  <2>2. CASE i > Len(s)
    <3>1. i \in (Len(s) + 1)..(Len(s) + Len(t)) /\ i - Len(s) \in 1..Len(t)
      BY <1>1, <2>2
    <3> QED
      BY <3>1, <1>1, <1>2 DEF ToSet
  <2> QED
    BY <1>1, <2>1, <2>2
<1>4. ToSet(s \o t) = {(s \o t)[i] : i \in 1..(Len(s) + Len(t))}
  BY <1>2 DEF ToSet
<1> QED
  BY <1>1, <1>3, <1>4

LEMMA OneMessage ==
    ASSUME NEW S, NEW m \in S
    PROVE  <<m>> \in Seq(S) /\ ToSet(<<m>>) = {m}
BY DEF ToSet

LEMMA TellsIs ==
    ASSUME up \in Channels, NEW c \in Children, NEW messages \in Seq(Messages), Tells(c, messages)
    PROVE  /\ up' \in Channels
           /\ stopping => up' = up
           /\ \A x \in Children : \A m \in Contents(up')[x] :
                  m \in Contents(up)[x] \/ (x = c /\ m \in ToSet(messages))
<1> DEFINE more == [up EXCEPT ![c] = @ \o messages]
<1>1. \A x \in Children : up[x] \in Seq(Messages)
  BY DEF Channels
<1>2. /\ up[c] \o messages \in Seq(Messages)
      /\ ToSet(up[c] \o messages) \subseteq ToSet(up[c]) \cup ToSet(messages)
  BY <1>1, ConcatSet
<1>3. more \in Channels /\ more[c] = up[c] \o messages /\ \A x \in Children : x # c => more[x] = up[x]
  BY <1>2 DEF Channels
<1>4. up' = more \/ up' = up
  BY DEF Tells
<1>5. stopping => up' = up
  BY DEF Tells
<1> HIDE DEF more
<1>6. \A x \in Children : \A m \in ToSet(more[x]) :
          m \in ToSet(up[x]) \/ (x = c /\ m \in ToSet(messages))
  BY <1>2, <1>3
<1> QED
  BY <1>3, <1>4, <1>5, <1>6 DEF Contents

LEMMA ShorterIs ==
    ASSUME NEW ch \in Channels, NEW c \in Children, ch[c] # <<>>,
           NEW rest, rest = [ch EXCEPT ![c] = Tail(@)]
    PROVE  /\ rest \in Channels /\ \A x \in Children : Contents(rest)[x] \subseteq Contents(ch)[x]
           /\ Head(ch[c]) \in Messages /\ Head(ch[c]) \in Contents(ch)[c]
<1>1. \A x \in Children : ch[x] \in Seq(Messages)
  BY DEF Channels
<1>2. /\ Tail(ch[c]) \in Seq(Messages) /\ ToSet(Tail(ch[c])) \subseteq ToSet(ch[c])
      /\ Head(ch[c]) \in Messages /\ Head(ch[c]) \in ToSet(ch[c])
  BY <1>1, TailSet
<1>3. rest \in Channels /\ rest[c] = Tail(ch[c]) /\ \A x \in Children : x # c => rest[x] = ch[x]
  BY <1>2 DEF Channels
<1> QED
  BY <1>2, <1>3 DEF Contents

LEMMA ClearedIs ==
    ASSUME NEW ch \in Channels, NEW c \in Children, NEW rest, rest = [ch EXCEPT ![c] = <<>>]
    PROVE  /\ rest \in Channels /\ \A x \in Children : Contents(rest)[x] \subseteq Contents(ch)[x]
           /\ Contents(rest)[c] = {}
<1>1. rest \in Channels /\ rest[c] = <<>> /\ \A x \in Children : x # c => rest[x] = ch[x]
  BY DEF Channels
<1> QED
  BY <1>1, EmptySet DEF Contents

\* A step that asks, grants, reports and withdraws nothing
LEMMA QuietStep ==
    ASSUME PermitsInv,
           pending' \in Seq(Entries), ToSet(pending') \subseteq ToSet(pending),
           Same(outstanding, outstanding'), permits' \subseteq permits,
           down' \in Channels,
           \A c \in Children : \A m \in Contents(down')[c] : m \in Contents(down)[c] \/ m.type # "grant",
           up' \in Channels,
           \A c \in Children : \A m \in Contents(up')[c] :
               \/ m \in Contents(up)[c]
               \/ m.type \notin {"identify", "cancel", "sent"} /\ m.request = 0 /\ ~stopping,
           asking' \in [Children -> 0..MaxRequests], \A c \in Children : asking'[c] \in {0, asking[c]},
           process' \in [Children -> Processes],
           \A c \in Children : process'[c] = "none" => asking'[c] = 0,
           age' = age, requests' = requests, socketAge' = socketAge, stopping' = stopping,
           coordinated' = coordinated, grantTimer' = grantTimer
    PROVE  PermitsInv'
<1>1. /\ Contents(down') \in [Children -> SUBSET Messages]
      /\ Contents(up') \in [Children -> SUBSET Messages]
  BY ContentsAre
<1>2. stopping => \A c \in Children : Contents(up')[c] = {}
  BY DEF PermitsInv, Good, Halted
<1>3. Good(ToSet(pending'), outstanding', permits', Contents(down'), age, Contents(up'), asking',
           requests, socketAge, stopping)
  <2>1. Good(ToSet(pending), outstanding, permits, Contents(down), age, Contents(up), asking,
             requests, socketAge, stopping)
    BY DEF PermitsInv
  <2> QED
    BY <1>1, <1>2, <2>1, QuieterHolds
<1>4. Rest'
  BY DEF PermitsInv, Rest
<1> QED
  BY <1>3, <1>4 DEF PermitsInv

-----------------------------------------------------------------------------
(* The steps of the parent *)

LEMMA InvIs ==
    ASSUME PermitsInv
    PROVE  /\ coordinated \in BOOLEAN /\ stopping \in BOOLEAN /\ grantTimer \in BOOLEAN
           /\ pending \in Seq(Entries) /\ outstanding \in Outstanding \cup {None}
           /\ permits \subseteq Requests /\ up \in Channels /\ down \in Channels
           /\ age \in 0..Spacing /\ socketAge \in 0..Spacing
           /\ asking \in [Children -> 0..MaxRequests] /\ requests \in 0..MaxRequests
           /\ process \in [Children -> Processes]
           /\ Same(outstanding, outstanding)
           /\ \A c \in Children : up[c] # <<>> => ~stopping
<1>1. /\ coordinated \in BOOLEAN /\ stopping \in BOOLEAN /\ grantTimer \in BOOLEAN
      /\ pending \in Seq(Entries) /\ outstanding \in Outstanding \cup {None}
      /\ permits \subseteq Requests /\ up \in Channels /\ down \in Channels
      /\ age \in 0..Spacing /\ socketAge \in 0..Spacing
      /\ asking \in [Children -> 0..MaxRequests] /\ requests \in 0..MaxRequests
      /\ process \in [Children -> Processes]
  BY DEF PermitsInv, Rest, Good, Typed
<1>2. Same(outstanding, outstanding)
  BY <1>1 DEF Same
<1>3. ASSUME NEW c \in Children, up[c] # <<>>, stopping
      PROVE  FALSE
  <2>1. up[c] \in Seq(Messages)
    BY <1>1 DEF Channels
  <2>2. ToSet(up[c]) = {}
    BY <1>3 DEF PermitsInv, Good, Halted, Contents
  <2> QED
    BY <1>3, <2>1, <2>2, OnlyEmpty
<1> QED
  BY <1>1, <1>2, <1>3

LEMMA InitHolds == Init => PermitsInv
<1> SUFFICES ASSUME Init
             PROVE  PermitsInv
  OBVIOUS
<1>1. /\ coordinated \in BOOLEAN /\ requests \in 0..MaxRequests
      /\ age \in 0..Spacing /\ socketAge \in 0..Spacing
      /\ pending \in Seq(Entries) /\ up \in Channels /\ down \in Channels
      /\ process \in [Children -> Processes]
      /\ asking \in [Children -> 0..MaxRequests]
  BY PermitsAssumption DEF Init, Channels, Processes
<1>2. /\ Contents(up) \in [Children -> SUBSET Messages] /\ Contents(down) \in [Children -> SUBSET Messages]
      /\ \A c \in Children : Contents(up)[c] = {} /\ Contents(down)[c] = {}
  BY <1>1, ContentsAre, EmptySet DEF Init
<1>3. ToSet(pending) = {} /\ outstanding = None /\ permits = {} /\ stopping = FALSE /\ grantTimer = FALSE
  BY EmptySet DEF Init
<1>4. \A c \in Children : asking[c] = 0
  BY DEF Init
<1>5. Rest
  BY <1>1, <1>3, <1>4 DEF Rest, Init
<1>6. Typed(ToSet(pending), outstanding, permits, Contents(down), age, Contents(up), asking, requests,
            socketAge, stopping)
  BY <1>1, <1>2, <1>3 DEF Typed
<1>7. Numbered(ToSet(pending), outstanding, Contents(down), Contents(up), asking, requests)
  BY <1>1, <1>2, <1>3, <1>4, PermitsAssumption DEF Numbered
<1>8. GrantsCurrent(outstanding, Contents(down), asking) /\ NotWaiting(Contents(up), asking)
  BY <1>2 DEF GrantsCurrent, NotWaiting
<1>9. Unsent(outstanding, Contents(up), asking, socketAge) /\ NotGranted(outstanding, permits)
  BY <1>3 DEF Unsent, NotGranted
<1>10. Counted(outstanding, age, socketAge, stopping)
  BY PermitsAssumption DEF Counted, Init
<1>11. Halted(ToSet(pending), outstanding, Contents(up), stopping)
  BY <1>2, <1>3 DEF Halted
<1> QED
  BY <1>5, <1>6, <1>7, <1>8, <1>9, <1>10, <1>11 DEF PermitsInv, Good

LEMMA GrantTimerFiresHolds ==
    ASSUME PermitsInv, GrantTimerFires
    PROVE  PermitsInv'
<1>1. /\ Schedule(pending, outstanding, FALSE, age, permits, down)
      /\ coordinated' = coordinated /\ stopping' = stopping /\ age' = age
      /\ process' = process /\ asking' = asking /\ up' = up
      /\ requests' = requests /\ socketAge' = socketAge
  <2>1. /\ Schedule(pending, outstanding, FALSE, age, permits, down)
        /\ UNCHANGED <<parentVars, age, childVars, up, history>>
    BY Zenon DEF GrantTimerFires
  <2>2. /\ coordinated' = coordinated /\ stopping' = stopping /\ age' = age
        /\ process' = process /\ asking' = asking /\ up' = up
        /\ requests' = requests /\ socketAge' = socketAge
    BY <2>1, Zenon DEF parentVars, childVars, history
  <2> QED
    BY <2>1, <2>2, Zenon
<1>2. stopping = FALSE
  BY InvIs DEF GrantTimerFires, PermitsInv, Rest
<1>3. /\ pending' \in Seq(Entries) /\ down' \in Channels /\ grantTimer' \in BOOLEAN
      /\ ~coordinated => permits' = {}
      /\ Good(ToSet(pending'), outstanding', permits', Contents(down'), age, Contents(up), asking,
              requests, socketAge, stopping)
  <2>1. /\ coordinated \in BOOLEAN /\ pending \in Seq(Entries) /\ down \in Channels /\ FALSE \in BOOLEAN
        /\ ~coordinated => permits = {}
    BY InvIs DEF PermitsInv, Rest
  <2>2. Good(ToSet(pending), outstanding, permits, Contents(down), age, Contents(up), asking,
             requests, socketAge, stopping)
    BY DEF PermitsInv
  <2> QED
    BY <1>1, <1>2, <2>1, <2>2, ScheduleHolds
<1>4. Rest'
  BY <1>1, <1>2, <1>3 DEF PermitsInv, Rest
<1> QED
  BY <1>1, <1>3, <1>4 DEF PermitsInv

LEMMA PermitGivenHolds ==
    ASSUME PermitsInv, NEW r \in permits, PermitGiven(r)
    PROVE  PermitsInv'
<1>1. /\ permits' = permits \ {r} /\ permits' \subseteq permits /\ r \in Requests
      /\ coordinated' = coordinated /\ stopping' = stopping /\ pending' = pending
      /\ grantTimer' = grantTimer /\ age' = age
      /\ process' = process /\ asking' = asking /\ up' = up
      /\ requests' = requests /\ socketAge' = socketAge
  BY InvIs DEF PermitGiven, parentVars, childVars, history
<1>2. CASE ~Current(r)
  <2>1. outstanding' = outstanding /\ down' = down
    BY <1>2 DEF PermitGiven
  <2> QED
    BY <1>1, <2>1, InvIs, QuietStep DEF PermitsInv, Rest
<1>3. CASE Current(r)
  <2>1. /\ outstanding # None /\ outstanding.request = r /\ ~outstanding.muted
        /\ outstanding \in Outstanding /\ outstanding.child \in Children
    BY <1>3, InvIs, OutstandingIs DEF Current
  <2>2. /\ outstanding' = [outstanding EXCEPT !.granted = TRUE]
        /\ down' = Sent(down, outstanding.child, Message("grant", r))
    BY <1>3 DEF PermitGiven
  <2>3. stopping = FALSE
    BY <2>1, InvIs DEF PermitsInv, Good, Halted
  <2>4. socketAge = Spacing
    BY <2>1 DEF PermitsInv, Good, NotGranted, Unsent
  <2>5. outstanding' \in Outstanding /\ outstanding'.granted
    BY <2>1, <2>2 DEF Outstanding
  <2>6. outstanding'.child = outstanding.child /\ outstanding'.request = outstanding.request
    BY <2>1, <2>2 DEF Outstanding
  <2>7. Message("grant", r) \in Messages
    <3>1. r \in 0..MaxRequests
      BY <1>1, PermitsAssumption DEF Requests
    <3> QED
      BY <3>1 DEF Message, Messages
  <2>8. /\ down' \in Channels
        /\ \A x \in Children : Contents(down')[x] \subseteq
               Contents(down)[x] \cup (IF x = outstanding.child THEN {Message("grant", r)} ELSE {})
    BY <2>1, <2>2, <2>7, InvIs, SentIs
  <2>9. Contents(down') \in [Children -> SUBSET Messages]
    BY <2>8, ContentsAre
  <2>10. \A x \in Children : \A m \in Contents(down')[x] :
             \/ m \in Contents(down)[x]
             \/ x = outstanding.child /\ m = Message("grant", outstanding.request)
    BY <2>1, <2>8
  <2>11. outstanding.request \notin permits'
    BY <1>1, <2>1
  <2>12. permits' \subseteq permits
    BY <1>1
  <2>13. Good(ToSet(pending), outstanding, permits, Contents(down), age, Contents(up), asking,
              requests, Spacing, FALSE)
    BY <2>3, <2>4 DEF PermitsInv
  <2>14. Good(ToSet(pending), outstanding', permits', Contents(down'), age, Contents(up), asking,
              requests, Spacing, FALSE)
    BY <2>1, <2>5, <2>6, <2>9, <2>10, <2>11, <2>12, <2>13, GrantedHolds
  <2>15. Rest'
    BY <1>1, <2>8 DEF PermitsInv, Rest
  <2> QED
    BY <1>1, <2>3, <2>4, <2>14, <2>15 DEF PermitsInv
<1> QED
  BY <1>2, <1>3

\* The outstanding request is nobody's that waits: its turn can pass on.
LEMMA TurnPasses ==
    ASSUME PermitsInv, NEW b \in 0..Spacing, stopping \/ b <= socketAge,
           NEW channels \in Channels,
           \A c \in Children : \A m \in Contents(channels)[c] : m \in Contents(down)[c] \/ m.type # "grant",
           NEW ups \in Channels, \A c \in Children : Contents(ups)[c] \subseteq Contents(up)[c],
           NEW q, q \subseteq permits,
           \A c \in Children : \A m \in Contents(down)[c] : ~(m.type = "grant" /\ m.request = asking[c])
    PROVE  Good(ToSet(pending), None, q, Contents(channels), b, Contents(ups), asking, requests,
                socketAge, stopping)
<1>1. /\ Contents(channels) \in [Children -> SUBSET Messages]
      /\ Contents(ups) \in [Children -> SUBSET Messages]
  BY ContentsAre
<1>2. Good(ToSet(pending), outstanding, permits, Contents(down), age, Contents(up), asking, requests,
           socketAge, stopping)
  BY DEF PermitsInv
<1>3. /\ Same(outstanding, outstanding) /\ asking \in [Children -> 0..MaxRequests]
      /\ \A c \in Children : asking[c] \in {0, asking[c]}
  BY InvIs
<1>4. stopping => \A c \in Children : Contents(ups)[c] = {}
  BY <1>2 DEF Good, Halted
<1>5. \A c \in Children : \A m \in Contents(ups)[c] :
          m \in Contents(up)[c] \/ (m.type \notin {"identify", "cancel", "sent"} /\ m.request = 0)
  OBVIOUS
<1>6. Good(ToSet(pending), outstanding, q, Contents(channels), age, Contents(ups), asking, requests,
           socketAge, stopping)
  BY <1>1, <1>2, <1>3, <1>4, <1>5, QuieterHolds
<1>7. \A c \in Children : \A m \in Contents(channels)[c] : ~(m.type = "grant" /\ m.request = asking[c])
  OBVIOUS
<1> QED
  BY <1>6, <1>7, GivenUpHolds

LEMMA AnswerIs ==
    ASSUME NEW r \in 0..MaxRequests, NEW type \in {"denied", "cancelled"},
           NEW channels \in Channels, NEW c \in Children
    PROVE  /\ Sent(channels, c, Message(type, r)) \in Channels
           /\ \A x \in Children : \A m \in Contents(Sent(channels, c, Message(type, r)))[x] :
                  m \in Contents(channels)[x] \/ m.type # "grant"
<1> DEFINE answer == Message(type, r)
<1>1. answer \in Messages /\ answer.type # "grant"
  BY DEF Message, Messages
<1> HIDE DEF answer
<1>2. /\ Sent(channels, c, answer) \in Channels
      /\ \A x \in Children : Contents(Sent(channels, c, answer))[x] \subseteq
             Contents(channels)[x] \cup (IF x = c THEN {answer} ELSE {})
  BY <1>1, SentIs
<1>3. \A x \in Children : \A m \in Contents(Sent(channels, c, answer))[x] :
          m \in Contents(channels)[x] \/ m = answer
  BY <1>2
<1> QED
  BY <1>1, <1>2, <1>3 DEF answer

LEMMA PermitRefusedHolds ==
    ASSUME PermitsInv, NEW r \in permits, PermitRefused(r)
    PROVE  PermitsInv'
<1>1. /\ coordinated' = coordinated /\ stopping' = stopping /\ age' = age
      /\ process' = process /\ asking' = asking /\ up' = up /\ r \in 0..MaxRequests
      /\ requests' = requests /\ socketAge' = socketAge
  BY InvIs, PermitsAssumption DEF PermitRefused, parentVars, childVars, history, Requests
<1>2. CASE ~Current(r)
  <2>1. /\ outstanding' = outstanding /\ down' = down /\ pending' = pending /\ grantTimer' = grantTimer
        /\ permits' \subseteq permits
    BY <1>2 DEF PermitRefused
  <2> QED
    BY <1>1, <2>1, InvIs, QuietStep DEF PermitsInv, Rest
<1>3. CASE Current(r)
  <2> DEFINE answered == Sent(down, outstanding.child, Message("denied", r))
             unsettled == permits \ {r}
  <2>1. /\ outstanding # None /\ outstanding.request = r /\ ~outstanding.muted
        /\ outstanding.child \in Children
    BY <1>3, InvIs, OutstandingIs DEF Current
  <2>2. Schedule(pending, None, grantTimer, age, unsettled, answered)
    BY <1>3 DEF PermitRefused
  <2>3. stopping = FALSE
    BY <2>1, InvIs DEF PermitsInv, Good, Halted
  <2>4. ~outstanding.granted
    BY <2>1 DEF PermitsInv, Good, NotGranted
  <2>5. socketAge = Spacing
    BY <2>1, <2>4 DEF PermitsInv, Good, Unsent
  <2>6. age \in 0..Spacing /\ (stopping \/ age <= socketAge)
    BY <2>5, InvIs, PermitsAssumption
  <2>7. /\ answered \in Channels
        /\ \A x \in Children : \A m \in Contents(answered)[x] : m \in Contents(down)[x] \/ m.type # "grant"
    BY <1>1, <2>1, InvIs, AnswerIs
  <2>8. \A c \in Children : \A m \in Contents(down)[c] : ~(m.type = "grant" /\ m.request = asking[c])
    BY <2>4 DEF PermitsInv, Good, GrantsCurrent
  <2>9. unsettled \subseteq permits
    OBVIOUS
  <2>10. /\ coordinated \in BOOLEAN /\ pending \in Seq(Entries) /\ grantTimer \in BOOLEAN
         /\ up \in Channels
    BY InvIs
  <2>11. ~coordinated => unsettled = {}
    <3>1. ~coordinated => permits = {}
      BY DEF PermitsInv, Rest
    <3> QED
      BY <2>9, <3>1
  <2> HIDE DEF answered, unsettled
  <2>12. \A c \in Children : Contents(up)[c] \subseteq Contents(up)[c]
    OBVIOUS
  <2>13. Good(ToSet(pending), None, unsettled, Contents(answered), age, Contents(up), asking, requests,
              socketAge, stopping)
    BY <2>6, <2>7, <2>8, <2>9, <2>10, <2>12, TurnPasses
  <2>14. /\ pending' \in Seq(Entries) /\ down' \in Channels /\ grantTimer' \in BOOLEAN
         /\ ~coordinated => permits' = {}
         /\ Good(ToSet(pending'), outstanding', permits', Contents(down'), age, Contents(up), asking,
                 requests, socketAge, stopping)
    BY <2>2, <2>3, <2>7, <2>10, <2>11, <2>13, ScheduleHolds
  <2>15. Rest'
    BY <1>1, <2>3, <2>14 DEF PermitsInv, Rest
  <2> QED
    BY <1>1, <2>14, <2>15 DEF PermitsInv
<1> QED
  BY <1>2, <1>3

LEMMA AckExpiresHolds ==
    ASSUME PermitsInv, AckExpires
    PROVE  PermitsInv'
<1>1. /\ coordinated' = coordinated /\ stopping' = stopping /\ age' = age /\ pending' = pending
      /\ grantTimer' = grantTimer /\ permits' = permits
      /\ process' = process /\ asking' = asking /\ up' = up
      /\ requests' = requests /\ socketAge' = socketAge
  BY DEF AckExpires, childVars, history
<1>2. /\ down' \in Channels
      /\ \A x \in Children : \A m \in Contents(down')[x] : m \in Contents(down)[x] \/ m.type # "grant"
  BY InvIs, StopsIs DEF AckExpires
<1>3. Same(outstanding, outstanding')
  <2>1. outstanding \in Outstanding /\ outstanding' = [outstanding EXCEPT !.stalled = TRUE]
    BY InvIs DEF AckExpires
  <2> QED
    BY <2>1, OutstandingIs DEF Same, Outstanding
<1> QED
  BY <1>1, <1>2, <1>3, InvIs, QuietStep DEF PermitsInv, Rest

\* A shutdown that begins while every process that runs is stopped
LEMMA ShutdownBegins ==
    ASSUME PermitsInv, BeginsShutdown(Running, outstanding, down),
           UNCHANGED <<restarts, age, childVars, history>>
    PROVE  PermitsInv'
<1>1. /\ age' = age /\ process' = process /\ asking' = asking
      /\ requests' = requests /\ socketAge' = socketAge
  BY DEF childVars, history
<1>2. \A c \in Children : c \notin Running => asking[c] = 0
  BY DEF Running, Alive, PermitsInv, Rest
<1>3. /\ pending' = <<>> /\ up' \in Channels /\ down' \in Channels
      /\ grantTimer' = FALSE /\ stopping' = TRUE
      /\ permits' = permits /\ coordinated' = coordinated
      /\ Good(ToSet(pending'), outstanding', permits', Contents(down'), age, Contents(up'), asking,
              requests, socketAge, stopping')
  <2>1. Good(ToSet(pending), outstanding, permits, Contents(down), age, Contents(up), asking,
             requests, socketAge, stopping)
    BY DEF PermitsInv
  <2>2. down \in Channels
    BY InvIs
  <2> QED
    BY <1>2, <2>1, <2>2, ShutdownHolds
<1>4. pending' \in Seq(Entries)
  BY <1>3
<1>5. Rest'
  BY <1>1, <1>3, <1>4 DEF PermitsInv, Rest
<1> QED
  BY <1>1, <1>3, <1>5 DEF PermitsInv

LEMMA DisconnectsHolds ==
    ASSUME PermitsInv, NEW c \in Children, Disconnects(c)
    PROVE  PermitsInv'
<1>1. /\ coordinated' = coordinated /\ stopping' = stopping /\ age' = age
      /\ grantTimer' = grantTimer /\ permits' = permits /\ down' = down
      /\ process' = process /\ asking' = asking
      /\ requests' = requests /\ socketAge' = socketAge
  BY DEF Disconnects, history
<1>2. /\ up' \in Channels /\ \A x \in Children : Contents(up')[x] \subseteq Contents(up)[x]
  BY InvIs, ClearedIs DEF Disconnects
<1>3. pending' \in Seq(Entries) /\ ToSet(pending') \subseteq ToSet(pending)
  <2>1. pending \in Seq(Entries)
    BY InvIs
  <2>2. pending' = pending \/ pending' \in Left(RequestsOf(c))
    BY DEF Disconnects
  <2> QED
    BY <2>1, <2>2, LeftIs
<1>4. Same(outstanding, outstanding')
  <2>1. CASE outstanding' = outstanding
    BY <2>1, InvIs
  <2>2. CASE outstanding' # outstanding
    <3>1. outstanding' = [outstanding EXCEPT !.muted = TRUE] /\ outstanding \in Outstanding
      BY <2>2, InvIs DEF Disconnects, Holds
    <3> QED
      BY <3>1, OutstandingIs DEF Same, Outstanding
  <2> QED
    BY <2>1, <2>2
<1> QED
  BY <1>1, <1>2, <1>3, <1>4, InvIs, QuietStep DEF PermitsInv, Rest

LEMMA SpawnsHolds ==
    ASSUME PermitsInv, NEW c \in Children, Spawns(c)
    PROVE  PermitsInv'
<1>1. /\ coordinated' = coordinated /\ stopping' = stopping /\ age' = age /\ pending' = pending
      /\ outstanding' = outstanding /\ grantTimer' = grantTimer /\ permits' = permits /\ down' = down
      /\ process' = [process EXCEPT ![c] = "booting"] /\ asking' = asking /\ up' = up
      /\ requests' = requests /\ socketAge' = socketAge
  BY DEF Spawns, grantVars, history
<1>2. /\ process' \in [Children -> Processes]
      /\ \A x \in Children : process'[x] = "none" => process[x] = "none"
  BY <1>1, InvIs DEF Processes
<1> QED
  BY <1>1, <1>2, InvIs, QuietStep DEF PermitsInv, Rest

\* What an exit leaves: the child waits for nothing, and the turn it may have had is given up.
\* From an Identify on, the parent counts from the last one.
LEMMA SpacingIs ==
    ASSUME PermitsInv
    PROVE  FromIdentify \in 0..Spacing /\ FromIdentify <= socketAge
<1>1. Spacing \in Nat /\ socketAge \in 0..Spacing /\ (coordinated => socketAge = Spacing)
  BY InvIs, PermitsAssumption DEF PermitsInv, Rest
<1> QED
  BY <1>1 DEF FromIdentify

LEMMA ExitLeaves ==
    ASSUME PermitsInv, NEW c \in Children,
           NEW rest \in Channels, \A x \in Children : Contents(rest)[x] \subseteq Contents(down)[x],
           Contents(rest)[c] = {},
           NEW waits \in [Children -> 0..MaxRequests], \A x \in Children : waits[x] \in {0, asking[x]}
    PROVE  Good(ToSet(pending), AfterExit(c), permits, Contents(rest), SinceExit(c), Contents(up),
                waits, requests, socketAge, stopping)
<1>1. Good(ToSet(pending), outstanding, permits, Contents(rest), age, Contents(up), waits, requests,
           socketAge, stopping)
  <2>1. Good(ToSet(pending), outstanding, permits, Contents(down), age, Contents(up), asking,
             requests, socketAge, stopping)
    BY DEF PermitsInv
  <2>2. /\ Contents(rest) \in [Children -> SUBSET Messages] /\ Contents(up) \in [Children -> SUBSET Messages]
        /\ Same(outstanding, outstanding)
    BY InvIs, ContentsAre
  <2>3. \A x \in Children : \A m \in Contents(rest)[x] : m \in Contents(down)[x] \/ m.type # "grant"
    OBVIOUS
  <2>4. \A x \in Children : \A m \in Contents(up)[x] :
            m \in Contents(up)[x] \/ (m.type \notin {"identify", "cancel", "sent"} /\ m.request = 0)
    OBVIOUS
  <2>5. stopping => \A x \in Children : Contents(up)[x] = {}
    BY <2>1 DEF Good, Halted
  <2> QED
    BY <2>1, <2>2, <2>3, <2>4, <2>5, QuieterHolds
<1>2. CASE Holds(c)
  <2>1. AfterExit(c) = None /\ SinceExit(c) = FromIdentify
    BY <1>2 DEF AfterExit, SinceExit
  <2>2. \A x \in Children : \A m \in Contents(rest)[x] : ~(m.type = "grant" /\ m.request = waits[x])
    BY <1>1, <1>2 DEF Good, GrantsCurrent, Holds
  <2>3. FromIdentify \in 0..Spacing /\ (stopping \/ FromIdentify <= socketAge)
    BY SpacingIs
  <2> QED
    BY <1>1, <2>1, <2>2, <2>3, GivenUpHolds
<1>3. CASE ~Holds(c)
  BY <1>1, <1>3 DEF AfterExit, SinceExit
<1> QED
  BY <1>2, <1>3

LEMMA ExitsHolds ==
    ASSUME PermitsInv, NEW c \in Children, Exits(c)
    PROVE  PermitsInv'
<1> DEFINE rest == [down EXCEPT ![c] = <<>>]
           waits == [asking EXCEPT ![c] = 0]
           current == AfterExit(c)
           since == SinceExit(c)
           left == Running \ {c}
<1>1. /\ process' = [process EXCEPT ![c] = "none"] /\ asking' = waits /\ age' = since
      /\ requests' = requests /\ socketAge' = socketAge
  BY DEF Exits, history
<1>2. /\ waits \in [Children -> 0..MaxRequests] /\ waits[c] = 0 /\ rest \in Channels
      /\ \A x \in Children : waits[x] \in {0, asking[x]}
      /\ Good(ToSet(pending), current, permits, Contents(rest), since, Contents(up),
              waits, requests, socketAge, stopping)
  <2>1. /\ rest \in Channels /\ \A x \in Children : Contents(rest)[x] \subseteq Contents(down)[x]
        /\ Contents(rest)[c] = {}
    BY InvIs, ClearedIs
  <2>2. /\ waits \in [Children -> 0..MaxRequests] /\ waits[c] = 0
        /\ \A x \in Children : waits[x] \in {0, asking[x]}
    BY InvIs, PermitsAssumption
  <2> HIDE DEF rest, waits
  <2> QED
    BY <2>1, <2>2, ExitLeaves
<1>3. /\ process' \in [Children -> Processes]
      /\ \A x \in Children : process'[x] = "none" => waits[x] = 0
  <2>1. \A x \in Children : process[x] = "none" => asking[x] = 0
    BY DEF PermitsInv, Rest
  <2> QED
    BY <1>1, <1>2, <2>1, InvIs DEF Processes
<1>4. \A x \in Children : x \notin left => waits[x] = 0
  <2>1. \A x \in Children : x \notin Running => asking[x] = 0
    BY DEF Running, Alive, PermitsInv, Rest
  <2> QED
    BY <1>2, <2>1
<1> HIDE DEF rest, waits, current, since, left
<1>5. CASE stopping
  <2>1. /\ outstanding' = (IF left = {} THEN None ELSE current) /\ down' = rest
        /\ coordinated' = coordinated /\ stopping' = stopping /\ pending' = pending
        /\ grantTimer' = grantTimer /\ permits' = permits /\ up' = up
    BY <1>5, Zenon DEF Exits, rest, current, left
  <2>2. Good(ToSet(pending), outstanding', permits, Contents(rest), since, Contents(up),
             waits, requests, socketAge, stopping)
    <3>1. CASE left = {}
      <4>1. \A x \in Children : waits[x] = 0
        BY <1>4, <3>1
      <4>2. \A x \in Children : \A m \in Contents(rest)[x] : ~(m.type = "grant" /\ m.request = waits[x])
        BY <1>2, <4>1 DEF Good, Numbered
      <4>3. since \in 0..Spacing
        BY <1>2 DEF Good, Typed
      <4>4. stopping \/ since <= socketAge
        BY <1>5
      <4>5. Good(ToSet(pending), None, permits, Contents(rest), since, Contents(up),
                 waits, requests, socketAge, stopping)
        BY <1>2, <4>2, <4>3, <4>4, GivenUpHolds
      <4> QED
        BY <2>1, <3>1, <4>5
    <3>2. CASE left # {}
      BY <1>2, <2>1, <3>2
    <3> QED
      BY <3>1, <3>2
  <2>3. Rest'
    BY <1>1, <1>2, <1>3, <2>1 DEF PermitsInv, Rest
  <2> QED
    BY <1>1, <2>1, <2>2, <2>3 DEF PermitsInv
<1>6. CASE BeginsShutdown(left, current, rest)
  <2>1. /\ pending' = <<>> /\ up' \in Channels /\ down' \in Channels
        /\ grantTimer' = FALSE /\ stopping' = TRUE
        /\ permits' = permits /\ coordinated' = coordinated
        /\ Good(ToSet(pending'), outstanding', permits', Contents(down'), since, Contents(up'),
                waits, requests, socketAge, stopping')
    BY <1>2, <1>4, <1>6, ShutdownHolds
  <2>2. pending' \in Seq(Entries)
    BY <2>1
  <2>3. Rest'
    BY <1>1, <1>2, <1>3, <2>1, <2>2 DEF PermitsInv, Rest
  <2> QED
    BY <1>1, <2>1, <2>3 DEF PermitsInv
<1>7. CASE /\ ~stopping /\ coordinated' = coordinated /\ stopping' = stopping
           /\ up' = [up EXCEPT ![c] = <<>>]
           /\ \E queue \in Left(RequestsOf(c)) :
                  Schedule(queue, current, grantTimer, since, permits, rest)
  <2>1. PICK queue \in Left(RequestsOf(c)) : Schedule(queue, current, grantTimer, since, permits, rest)
    BY <1>7
  <2>2. queue \in Seq(Entries) /\ ToSet(queue) \subseteq ToSet(pending)
    BY InvIs, LeftIs
  <2>3. up' \in Channels /\ \A x \in Children : Contents(up')[x] \subseteq Contents(up)[x]
    BY <1>7, InvIs, ClearedIs
  <2>4. stopping = FALSE
    BY <1>7, InvIs
  <2>5. Good(ToSet(queue), current, permits, Contents(rest), since, Contents(up'), waits, requests,
             socketAge, stopping)
    <3>1. /\ Contents(rest) \in [Children -> SUBSET Messages]
          /\ Contents(up') \in [Children -> SUBSET Messages]
      BY <1>2, <2>3, ContentsAre
    <3>2. Same(current, current)
      BY <1>2 DEF Good, Typed, Same
    <3>3. \A x \in Children : \A m \in Contents(rest)[x] : m \in Contents(rest)[x] \/ m.type # "grant"
      OBVIOUS
    <3>4. \A x \in Children : \A m \in Contents(up')[x] :
              m \in Contents(up)[x] \/ (m.type \notin {"identify", "cancel", "sent"} /\ m.request = 0)
      BY <2>3
    <3>5. stopping => \A x \in Children : Contents(up')[x] = {}
      BY <1>7
    <3>6. \A x \in Children : waits[x] \in {0, waits[x]}
      OBVIOUS
    <3> QED
      BY <1>2, <2>2, <3>1, <3>2, <3>3, <3>4, <3>5, <3>6, QuieterHolds
  <2>6. coordinated \in BOOLEAN /\ grantTimer \in BOOLEAN
    BY InvIs
  <2>7. ~coordinated => permits = {}
    BY DEF PermitsInv, Rest
  <2>8. /\ pending' \in Seq(Entries) /\ down' \in Channels /\ grantTimer' \in BOOLEAN
        /\ ~coordinated => permits' = {}
        /\ Good(ToSet(pending'), outstanding', permits', Contents(down'), since, Contents(up'), waits,
                requests, socketAge, stopping)
    BY <1>2, <2>1, <2>2, <2>4, <2>5, <2>6, <2>7, ScheduleHolds
  <2>9. Rest'
    BY <1>1, <1>2, <1>3, <1>7, <2>3, <2>4, <2>8 DEF PermitsInv, Rest
  <2> QED
    BY <1>1, <1>7, <2>8, <2>9 DEF PermitsInv
<1> QED
  BY <1>5, <1>6, <1>7 DEF Exits, rest, current, since, left

\* A request is queued.
LEMMA QueuedHolds ==
    ASSUME NEW Q, NEW o, NEW p, NEW D, NEW a, NEW U, NEW k, NEW n, NEW sa, NEW st, st = FALSE,
           Good(Q, o, p, D, a, U, k, n, sa, st),
           NEW e \in Entries, e.request <= n, NEW P, P \subseteq Q \cup {e},
           NEW V \in [Children -> SUBSET Messages], \A c \in Children : V[c] \subseteq U[c]
    PROVE  Good(P, o, p, D, a, V, k, n, sa, st)
<1>1. Typed(P, o, p, D, a, V, k, n, sa, st)
  BY DEF Good, Typed
<1>2. Numbered(P, o, D, V, k, n)
  BY DEF Good, Numbered
<1>3. GrantsCurrent(o, D, k) /\ Counted(o, a, sa, st) /\ NotGranted(o, p)
  BY DEF Good
<1>4. Unsent(o, V, k, sa)
  <2>1. o # None => o.child \in Children
    BY OutstandingIs DEF Good, Typed
  <2> QED
    BY <2>1 DEF Good, Unsent
<1>5. NotWaiting(V, k) /\ Halted(P, o, V, st)
  BY DEF Good, NotWaiting, Halted
<1> QED
  BY <1>1, <1>2, <1>3, <1>4, <1>5 DEF Good

\* What a parent that listens takes off the channel of a child
LEMMA HeardIs ==
    ASSUME PermitsInv, NEW c \in Children, NEW type, Hears(c, type), Takes(c)
    PROVE  /\ up' \in Channels /\ \A x \in Children : Contents(up')[x] \subseteq Contents(up)[x]
           /\ First(up, c) \in Messages /\ First(up, c) \in Contents(up)[c] /\ First(up, c).type = type
           /\ First(up, c) = Message(type, First(up, c).request)
           /\ stopping = FALSE
<1>1. up[c] # <<>> /\ Head(up[c]).type = type /\ up' = [up EXCEPT ![c] = Tail(@)]
  BY DEF Hears, Takes, Listens, First
<1>2. /\ up' \in Channels /\ \A x \in Children : Contents(up')[x] \subseteq Contents(up)[x]
      /\ Head(up[c]) \in Messages /\ Head(up[c]) \in Contents(up)[c]
  BY <1>1, InvIs, ShorterIs
<1>3. stopping = FALSE
  BY <1>1, InvIs
<1> QED
  BY <1>1, <1>2, <1>3, MessageIs DEF First

LEMMA HearsIdentifyHolds ==
    ASSUME PermitsInv, NEW c \in Children, HearsIdentify(c)
    PROVE  PermitsInv'
<1> DEFINE m == First(up, c)
           e == [child |-> c, request |-> m.request]
           queue == Append(pending, e)
<1>1. /\ up' \in Channels /\ \A x \in Children : Contents(up')[x] \subseteq Contents(up)[x]
      /\ m \in Messages /\ m \in Contents(up)[c] /\ m.type = "identify" /\ stopping = FALSE
  BY HeardIs DEF HearsIdentify
<1>2. /\ Schedule(queue, outstanding, grantTimer, age, permits, down)
      /\ coordinated' = coordinated /\ stopping' = stopping /\ age' = age
      /\ process' = process /\ asking' = asking
      /\ requests' = requests /\ socketAge' = socketAge
  BY DEF HearsIdentify, parentVars, childVars, history
<1>3. m.request <= requests /\ m.request >= 1 /\ m.request \in Requests
  <2>1. m.request <= requests /\ m.request >= 1
    BY <1>1 DEF PermitsInv, Good, Numbered
  <2>2. m.request \in 0..MaxRequests
    BY <1>1, MessageIs
  <2> QED
    BY <2>1, <2>2, PermitsAssumption DEF Requests
<1>4. e \in Entries /\ e.request <= requests
  BY <1>3 DEF Entries
<1>5. queue \in Seq(Entries) /\ ToSet(queue) = ToSet(pending) \cup {e}
  BY <1>4, InvIs, AppendSet
<1> HIDE DEF m, e, queue
<1>6. Good(ToSet(queue), outstanding, permits, Contents(down), age, Contents(up'), asking, requests,
           socketAge, stopping)
  <2>1. Good(ToSet(pending), outstanding, permits, Contents(down), age, Contents(up), asking,
             requests, socketAge, stopping)
    BY DEF PermitsInv
  <2>2. ToSet(queue) \subseteq ToSet(pending) \cup {e}
    BY <1>5
  <2>3. Contents(up') \in [Children -> SUBSET Messages]
    BY <1>1, ContentsAre
  <2> QED
    BY <1>1, <1>4, <2>1, <2>2, <2>3, QueuedHolds
<1>7. /\ coordinated \in BOOLEAN /\ grantTimer \in BOOLEAN /\ down \in Channels
  BY InvIs
<1>8. ~coordinated => permits = {}
  BY DEF PermitsInv, Rest
<1>9. /\ pending' \in Seq(Entries) /\ down' \in Channels /\ grantTimer' \in BOOLEAN
      /\ ~coordinated => permits' = {}
      /\ Good(ToSet(pending'), outstanding', permits', Contents(down'), age, Contents(up'), asking,
              requests, socketAge, stopping)
  BY <1>1, <1>2, <1>5, <1>6, <1>7, <1>8, ScheduleHolds
<1>10. Rest'
  BY <1>1, <1>2, <1>9 DEF PermitsInv, Rest
<1> QED
  BY <1>2, <1>9, <1>10 DEF PermitsInv

\* The turn of the outstanding request passes on when the parent hears of it from its child.
LEMMA HeardTurnPasses ==
    ASSUME PermitsInv, NEW c \in Children, NEW type \in {"cancel", "sent"}, Hears(c, type), Takes(c),
           HoldsRequest(c, First(up, c).request),
           NEW channels \in Channels,
           \A x \in Children : \A m \in Contents(channels)[x] : m \in Contents(down)[x] \/ m.type # "grant",
           NEW since \in 0..Spacing, since <= socketAge,
           Schedule(pending, None, grantTimer, since, permits, channels),
           age' = since, UNCHANGED <<parentVars, childVars, history>>
    PROVE  PermitsInv'
<1> DEFINE m == First(up, c)
<1>1. /\ up' \in Channels /\ \A x \in Children : Contents(up')[x] \subseteq Contents(up)[x]
      /\ m \in Messages /\ m \in Contents(up)[c] /\ m.type = type /\ stopping = FALSE
  BY HeardIs
<1>2. /\ coordinated' = coordinated /\ stopping' = stopping
      /\ process' = process /\ asking' = asking
      /\ requests' = requests /\ socketAge' = socketAge
  BY DEF parentVars, childVars, history
<1>3. outstanding # None /\ outstanding.child = c /\ outstanding.request = m.request
  BY DEF HoldsRequest, Holds
<1>4. m.request # asking[c]
  BY <1>1 DEF PermitsInv, Good, NotWaiting
<1> HIDE DEF m
<1>5. \A x \in Children : \A g \in Contents(down)[x] : ~(g.type = "grant" /\ g.request = asking[x])
  BY <1>3, <1>4 DEF PermitsInv, Good, GrantsCurrent
<1>6. Good(ToSet(pending), None, permits, Contents(channels), since, Contents(up'), asking, requests,
           socketAge, stopping)
  <2>1. permits \subseteq permits
    OBVIOUS
  <2> QED
    BY <1>1, <1>5, <2>1, TurnPasses
<1>7. coordinated \in BOOLEAN /\ grantTimer \in BOOLEAN /\ pending \in Seq(Entries)
  BY InvIs
<1>8. ~coordinated => permits = {}
  BY DEF PermitsInv, Rest
<1>9. /\ pending' \in Seq(Entries) /\ down' \in Channels /\ grantTimer' \in BOOLEAN
      /\ ~coordinated => permits' = {}
      /\ Good(ToSet(pending'), outstanding', permits', Contents(down'), since, Contents(up'), asking,
              requests, socketAge, stopping)
  BY <1>1, <1>6, <1>7, <1>8, ScheduleHolds
<1>10. Rest'
  BY <1>1, <1>2, <1>9 DEF PermitsInv, Rest
<1> QED
  BY <1>2, <1>9, <1>10 DEF PermitsInv

LEMMA HearsCancelHolds ==
    ASSUME PermitsInv, NEW c \in Children, HearsCancel(c)
    PROVE  PermitsInv'
<1> DEFINE r == First(up, c).request
           reply == Sent(down, c, Message("cancelled", r))
<1>1. /\ up' \in Channels /\ \A x \in Children : Contents(up')[x] \subseteq Contents(up)[x]
      /\ First(up, c) \in Messages /\ First(up, c) \in Contents(up)[c]
      /\ First(up, c) = Message("cancel", r) /\ stopping = FALSE
  BY HeardIs DEF HearsCancel
<1>2. /\ coordinated' = coordinated /\ stopping' = stopping /\ age' = age
      /\ process' = process /\ asking' = asking
      /\ requests' = requests /\ socketAge' = socketAge
      /\ UNCHANGED <<parentVars, childVars, history>> /\ Hears(c, "cancel") /\ Takes(c)
  BY DEF HearsCancel, parentVars, childVars, history
<1>3. /\ reply \in Channels
      /\ \A x \in Children : \A m \in Contents(reply)[x] : m \in Contents(down)[x] \/ m.type # "grant"
  <2>1. r \in 0..MaxRequests
    BY <1>1, MessageIs
  <2> QED
    BY <2>1, InvIs, AnswerIs
<1>4. CASE HoldsRequest(c, r) /\ outstanding.stalled
  <2>1. /\ pending' = pending /\ outstanding' = outstanding /\ grantTimer' = grantTimer
        /\ permits' = permits /\ down' = down
    BY <1>4 DEF HearsCancel, grantVars
  <2> QED
    BY <1>1, <1>2, <2>1, InvIs, QuietStep DEF PermitsInv, Rest
<1>5. CASE HoldsRequest(c, r) /\ ~outstanding.stalled
  <2>1. Schedule(pending, None, grantTimer, age, permits, reply)
    BY <1>5 DEF HearsCancel
  <2>2. socketAge = Spacing
    BY <1>1, <1>5 DEF PermitsInv, Good, Unsent, HoldsRequest, Holds
  <2>3. age \in 0..Spacing /\ age <= socketAge
    BY <2>2, InvIs, PermitsAssumption
  <2>4. HoldsRequest(c, First(up, c).request)
    BY <1>5
  <2> HIDE DEF reply, r
  <2> QED
    BY <1>2, <1>3, <2>1, <2>3, <2>4, HeardTurnPasses
<1>6. CASE ~HoldsRequest(c, r)
  <2>1. /\ pending' \in Left({[child |-> c, request |-> r]}) /\ down' = reply
        /\ outstanding' = outstanding /\ grantTimer' = grantTimer /\ permits' = permits
    BY <1>6 DEF HearsCancel
  <2>2. pending' \in Seq(Entries) /\ ToSet(pending') \subseteq ToSet(pending)
    BY <2>1, InvIs, LeftIs
  <2>3. /\ down' \in Channels
        /\ \A x \in Children : \A m \in Contents(down')[x] : m \in Contents(down)[x] \/ m.type # "grant"
    BY <1>3, <2>1
  <2> HIDE DEF reply, r
  <2> QED
    BY <1>1, <1>2, <2>1, <2>2, <2>3, InvIs, QuietStep DEF PermitsInv, Rest
<1> QED
  BY <1>4, <1>5, <1>6

LEMMA HearsSentHolds ==
    ASSUME PermitsInv, NEW c \in Children, HearsSent(c)
    PROVE  PermitsInv'
<1>1. /\ up' \in Channels /\ \A x \in Children : Contents(up')[x] \subseteq Contents(up)[x]
      /\ First(up, c) \in Messages /\ First(up, c) \in Contents(up)[c]
  BY HeardIs DEF HearsSent
<1>2. /\ coordinated' = coordinated /\ stopping' = stopping
      /\ process' = process /\ asking' = asking
      /\ requests' = requests /\ socketAge' = socketAge
      /\ UNCHANGED <<parentVars, childVars, history>> /\ Hears(c, "sent") /\ Takes(c)
      /\ HoldsRequest(c, First(up, c).request)
  BY DEF HearsSent, parentVars, childVars, history
<1>3. CASE outstanding.stalled
  <2>1. /\ pending' = pending /\ outstanding' = outstanding /\ grantTimer' = grantTimer
        /\ permits' = permits /\ down' = down /\ age' = age
    BY <1>3 DEF HearsSent, grantVars
  <2> QED
    BY <1>1, <1>2, <2>1, InvIs, QuietStep DEF PermitsInv, Rest
<1>4. CASE ~outstanding.stalled
  <2>1. Schedule(pending, None, grantTimer, FromIdentify, permits, down) /\ age' = FromIdentify
    BY <1>4 DEF HearsSent
  <2>2. FromIdentify \in 0..Spacing /\ FromIdentify <= socketAge /\ down \in Channels
    BY InvIs, SpacingIs
  <2>3. \A x \in Children : \A m \in Contents(down)[x] : m \in Contents(down)[x] \/ m.type # "grant"
    OBVIOUS
  <2> QED
    BY <1>2, <2>1, <2>2, <2>3, HeardTurnPasses
<1> QED
  BY <1>3, <1>4

LEMMA HearsHelloHolds ==
    ASSUME PermitsInv, NEW c \in Children, HearsHello(c)
    PROVE  PermitsInv'
<1> DEFINE assigned == Message("assignment", 0)
<1>1. up' \in Channels /\ \A x \in Children : Contents(up')[x] \subseteq Contents(up)[x]
  BY HeardIs DEF HearsHello
<1>2. assigned \in Messages /\ assigned.type # "grant"
  BY PermitsAssumption DEF Message, Messages
<1>3. /\ coordinated' = coordinated /\ stopping' = stopping /\ age' = age /\ pending' = pending
      /\ outstanding' = outstanding /\ grantTimer' = grantTimer /\ permits' = permits
      /\ down' = Sent(down, c, assigned) /\ process' = process /\ asking' = asking
      /\ requests' = requests /\ socketAge' = socketAge
  BY DEF HearsHello, grantVars, childVars, history
<1> HIDE DEF assigned
<1>4. /\ down' \in Channels
      /\ \A x \in Children : \A m \in Contents(down')[x] : m \in Contents(down)[x] \/ m.type # "grant"
  BY <1>2, <1>3, InvIs, SentIs
<1> QED
  BY <1>1, <1>3, <1>4, InvIs, QuietStep DEF PermitsInv, Rest

LEMMA HearsReadyHolds ==
    ASSUME PermitsInv, NEW c \in Children, HearsReady(c)
    PROVE  PermitsInv'
<1>1. up' \in Channels /\ \A x \in Children : Contents(up')[x] \subseteq Contents(up)[x]
  BY HeardIs DEF HearsReady
<1>2. /\ coordinated' = coordinated /\ stopping' = stopping /\ age' = age /\ pending' = pending
      /\ outstanding' = outstanding /\ grantTimer' = grantTimer /\ permits' = permits /\ down' = down
      /\ process' = process /\ asking' = asking
      /\ requests' = requests /\ socketAge' = socketAge
  BY DEF HearsReady, grantVars, childVars, history
<1> QED
  BY <1>1, <1>2, InvIs, QuietStep DEF PermitsInv, Rest

LEMMA HearsEndHolds ==
    ASSUME PermitsInv, NEW c \in Children, HearsEnd(c)
    PROVE  PermitsInv'
<1>1. up' \in Channels /\ \A x \in Children : Contents(up')[x] \subseteq Contents(up)[x]
  BY HeardIs DEF HearsEnd
<1>2. /\ coordinated' = coordinated /\ stopping' = stopping /\ age' = age /\ pending' = pending
      /\ outstanding' = outstanding /\ grantTimer' = grantTimer /\ permits' = permits
      /\ process' = process /\ asking' = asking
      /\ requests' = requests /\ socketAge' = socketAge
  BY DEF HearsEnd, grantVars, childVars, history
<1>3. /\ down' \in Channels
      /\ \A x \in Children : \A m \in Contents(down')[x] : m \in Contents(down)[x] \/ m.type # "grant"
  BY InvIs, StopsIs DEF HearsEnd
<1> QED
  BY <1>1, <1>2, <1>3, InvIs, QuietStep DEF PermitsInv, Rest

-----------------------------------------------------------------------------
(* The steps of a child *)

LEMMA ParentUnchanged ==
    ASSUME ChildUnchanged
    PROVE  /\ coordinated' = coordinated /\ stopping' = stopping /\ age' = age /\ pending' = pending
           /\ outstanding' = outstanding /\ grantTimer' = grantTimer /\ permits' = permits
BY DEF ChildUnchanged, parentVars, grantVars

LEMMA StartsHolds ==
    ASSUME PermitsInv, NEW c \in Children, Greets(c) \/ Boots(c)
    PROVE  PermitsInv'
<1>1. PICK type \in {"hello", "ready"}, now \in {"greeting", "on"} :
          /\ process[c] # "none" /\ process' = [process EXCEPT ![c] = now]
          /\ asking' = asking /\ down' = down
          /\ requests' = requests /\ socketAge' = socketAge
          /\ Tells(c, <<Message(type, 0)>>) /\ ChildUnchanged
  <2>1. CASE Greets(c)
    BY <2>1 DEF Greets, history
  <2>2. CASE Boots(c)
    BY <2>2 DEF Boots, history
  <2> QED
    BY <2>1, <2>2
<1> DEFINE told == Message(type, 0)
<1>2. told \in Messages /\ told.type = type /\ told.request = 0
  BY PermitsAssumption DEF Message, Messages
<1>3. Tells(c, <<told>>)
  BY <1>1
<1> HIDE DEF told
<1>8. <<told>> \in Seq(Messages) /\ ToSet(<<told>>) = {told}
  BY <1>2, OneMessage
<1>4. /\ up' \in Channels
      /\ stopping => up' = up
      /\ \A x \in Children : \A m \in Contents(up')[x] :
             m \in Contents(up)[x] \/ (x = c /\ m \in ToSet(<<told>>))
  BY <1>3, <1>8, InvIs, TellsIs
<1>5. \A x \in Children : \A m \in Contents(up')[x] :
          \/ m \in Contents(up)[x]
          \/ m.type \notin {"identify", "cancel", "sent"} /\ m.request = 0 /\ ~stopping
  <2>1. CASE stopping
    BY <1>4, <2>1
  <2>2. CASE ~stopping
    <3>1. \A x \in Children : \A m \in Contents(up')[x] :
              m \in Contents(up)[x] \/ (m.type \in {"hello", "ready"} /\ m.request = 0)
      BY <1>2, <1>4, <1>8
    <3> QED
      BY <2>2, <3>1
  <2> QED
    BY <2>1, <2>2
<1>6. /\ process' \in [Children -> Processes]
      /\ \A x \in Children : process'[x] = "none" => process[x] = "none"
  BY <1>1, InvIs DEF Processes
<1>7. /\ coordinated' = coordinated /\ stopping' = stopping /\ age' = age /\ pending' = pending
      /\ outstanding' = outstanding /\ grantTimer' = grantTimer /\ permits' = permits
      /\ asking' = asking /\ down' = down
      /\ requests' = requests /\ socketAge' = socketAge
      /\ up' \in Channels
  BY <1>1, <1>4, ParentUnchanged
<1> QED
  BY <1>5, <1>6, <1>7, InvIs, QuietStep DEF PermitsInv, Rest

LEMMA AsksHolds ==
    ASSUME PermitsInv, NEW c \in Children, Asks(c)
    PROVE  PermitsInv'
<1> DEFINE asked == Message("identify", requests')
<1>1. /\ process[c] = "on" /\ asking[c] = 0 /\ requests < MaxRequests /\ requests' = requests + 1
      /\ asking' = [asking EXCEPT ![c] = requests + 1] /\ process' = process /\ down' = down
      /\ socketAge' = socketAge
      /\ Tells(c, <<asked>>) /\ ChildUnchanged /\ ~stopping
  BY DEF Asks
<1>2. stopping = FALSE /\ requests + 1 \in 0..MaxRequests
  BY <1>1, InvIs, PermitsAssumption
<1>3. asked \in Messages
  BY <1>1, <1>2 DEF Message, Messages
<1>4. <<asked>> \in Seq(Messages) /\ ToSet(<<asked>>) = {asked}
  BY <1>3, OneMessage
<1>5. /\ up' \in Channels
      /\ \A x \in Children : \A m \in Contents(up')[x] : m \in Contents(up)[x] \/ (x = c /\ m = asked)
  BY <1>1, <1>4, InvIs, TellsIs
<1>6. /\ coordinated' = coordinated /\ stopping' = stopping /\ age' = age /\ pending' = pending
      /\ outstanding' = outstanding /\ grantTimer' = grantTimer /\ permits' = permits
  BY <1>1, ParentUnchanged
<1>7. Good(ToSet(pending), outstanding, permits, Contents(down), age, Contents(up'),
           [asking EXCEPT ![c] = requests + 1], requests + 1, socketAge, FALSE)
  <2>1. Good(ToSet(pending), outstanding, permits, Contents(down), age, Contents(up), asking,
             requests, socketAge, FALSE)
    BY <1>2 DEF PermitsInv
  <2>2. Contents(up') \in [Children -> SUBSET Messages]
    BY <1>5, ContentsAre
  <2>3. \A x \in Children : \A m \in Contents(up')[x] :
            m \in Contents(up)[x] \/ (x = c /\ m = Message("identify", requests + 1))
    BY <1>1, <1>5
  <2>4. asking[c] = 0 /\ requests < MaxRequests
    BY <1>1
  <2> QED
    BY <2>1, <2>2, <2>3, <2>4, AskedHolds
<1>8. \A x \in Children : process'[x] = "none" => asking'[x] = 0
  <2>1. \A x \in Children : process[x] = "none" => x # c /\ asking[x] = 0
    BY <1>1 DEF PermitsInv, Rest
  <2> QED
    BY <1>1, <2>1, InvIs
<1>9. Rest'
  BY <1>1, <1>5, <1>6, <1>8 DEF PermitsInv, Rest
<1> QED
  BY <1>1, <1>2, <1>6, <1>7, <1>9 DEF PermitsInv

\* A child gives its request up, and says so when it has one.
LEMMA GivesUpHolds ==
    ASSUME PermitsInv, NEW c \in Children, NEW messages \in Seq(Messages), Tells(c, messages),
           \A m \in ToSet(messages) :
               \/ m.type \notin {"identify", "cancel", "sent"} /\ m.request = 0
               \/ asking[c] # 0 /\ m = Message("cancel", asking[c]),
           asking' = [asking EXCEPT ![c] = 0],
           down' \in Channels, \A x \in Children : Contents(down')[x] \subseteq Contents(down)[x],
           process' \in [Children -> Processes],
           \A x \in Children : process'[x] = "none" => process[x] = "none",
           ChildUnchanged, UNCHANGED history
    PROVE  PermitsInv'
<1>1. /\ up' \in Channels
      /\ stopping => up' = up
      /\ \A x \in Children : \A m \in Contents(up')[x] :
             m \in Contents(up)[x] \/ (x = c /\ m \in ToSet(messages))
  BY InvIs, TellsIs
<1>2. /\ coordinated' = coordinated /\ stopping' = stopping /\ age' = age /\ pending' = pending
      /\ outstanding' = outstanding /\ grantTimer' = grantTimer /\ permits' = permits
      /\ requests' = requests /\ socketAge' = socketAge
  BY ParentUnchanged DEF history
<1>3. /\ asking' \in [Children -> 0..MaxRequests] /\ asking'[c] = 0
      /\ \A x \in Children : asking'[x] \in {0, asking[x]}
  BY InvIs, PermitsAssumption
<1>4. \A x \in Children : process'[x] = "none" => asking'[x] = 0
  <2>1. \A x \in Children : process'[x] = "none" => asking[x] = 0
    BY DEF PermitsInv, Rest
  <2> QED
    BY <1>3, <2>1
<1>5. CASE asking[c] = 0
  <2>1. \A x \in Children : \A m \in Contents(up')[x] :
            \/ m \in Contents(up)[x]
            \/ m.type \notin {"identify", "cancel", "sent"} /\ m.request = 0 /\ ~stopping
    <3>1. CASE stopping
      BY <1>1, <3>1
    <3>2. CASE ~stopping
      BY <1>1, <1>5, <3>2
    <3> QED
      BY <3>1, <3>2
  <2> QED
    BY <1>1, <1>2, <1>3, <1>4, <2>1, InvIs, QuietStep
<1>6. CASE asking[c] # 0
  <2>1. Good(ToSet(pending), outstanding, permits, Contents(down), age, Contents(up), asking,
             requests, socketAge, stopping)
    BY DEF PermitsInv
  <2>2. stopping => \A x \in Children : Contents(up')[x] = {}
    BY <1>1, <2>1 DEF Good, Halted
  <2>3. /\ Contents(up') \in [Children -> SUBSET Messages]
        /\ Contents(down') \in [Children -> SUBSET Messages]
    BY <1>1, ContentsAre
  <2>4. \A x \in Children : \A m \in Contents(up')[x] :
            \/ m \in Contents(up)[x]
            \/ m.type \notin {"identify", "cancel", "sent"} /\ m.request = 0
            \/ x = c /\ m = Message("cancel", asking[c])
    BY <1>1
  <2>5. Good(ToSet(pending), outstanding, permits, Contents(down'), age, Contents(up'),
             [asking EXCEPT ![c] = 0], requests, socketAge, stopping)
    BY <1>6, <2>1, <2>2, <2>3, <2>4, WithdrawnHolds
  <2>6. Rest'
    BY <1>1, <1>2, <1>4 DEF PermitsInv, Rest
  <2> QED
    BY <1>2, <2>5, <2>6 DEF PermitsInv
<1> QED
  BY <1>5, <1>6

LEMMA ControlIs ==
    /\ Message("closed", 0) \in Messages
    /\ Message("closed", 0).type \notin {"identify", "cancel", "sent"} /\ Message("closed", 0).request = 0
BY PermitsAssumption DEF Message, Messages

LEMMA CancelIs ==
    ASSUME PermitsInv, NEW c \in Children
    PROVE  Message("cancel", asking[c]) \in Messages
<1>1. asking[c] \in 0..MaxRequests
  BY InvIs
<1> QED
  BY <1>1 DEF Message, Messages

LEMMA WithdrawsHolds ==
    ASSUME PermitsInv, NEW c \in Children, Withdraws(c)
    PROVE  PermitsInv'
<1>1. /\ asking[c] # 0 /\ asking' = [asking EXCEPT ![c] = 0]
      /\ Tells(c, <<Message("cancel", asking[c])>>)
      /\ process' = process /\ down' = down /\ ChildUnchanged /\ UNCHANGED history
  BY DEF Withdraws, history
<1>2. /\ <<Message("cancel", asking[c])>> \in Seq(Messages)
      /\ ToSet(<<Message("cancel", asking[c])>>) = {Message("cancel", asking[c])}
  BY CancelIs, OneMessage
<1>3. \A m \in ToSet(<<Message("cancel", asking[c])>>) :
          asking[c] # 0 /\ m = Message("cancel", asking[c])
  BY <1>1, <1>2
<1>4. /\ down' \in Channels /\ \A x \in Children : Contents(down')[x] \subseteq Contents(down)[x]
      /\ process' \in [Children -> Processes]
      /\ \A x \in Children : process'[x] = "none" => process[x] = "none"
  BY <1>1, InvIs
<1> QED
  BY <1>1, <1>2, <1>3, <1>4, GivesUpHolds

\* A bridge that closes without a word.
LEMMA EndsHolds ==
    ASSUME PermitsInv, NEW c \in Children,
           LosesParent(c) \/ MistakesShutdown(c) \/ (Closes(c) /\ process[c] = "greeting")
    PROVE  PermitsInv'
<1>1. /\ asking' = [asking EXCEPT ![c] = 0] /\ process' = [process EXCEPT ![c] = "ended"]
      /\ down' = [down EXCEPT ![c] = <<>>] /\ up' = up
      /\ ChildUnchanged /\ UNCHANGED history
  BY DEF LosesParent, MistakesShutdown, Closes, Ends, history
<1>2. /\ down' \in Channels /\ \A x \in Children : Contents(down')[x] \subseteq Contents(down)[x]
  BY <1>1, InvIs, ClearedIs
<1>3. /\ process' \in [Children -> Processes]
      /\ \A x \in Children : process'[x] = "none" => process[x] = "none"
  BY <1>1, InvIs DEF Processes
<1>4. Tells(c, <<>>)
  <2>1. [up EXCEPT ![c] = @ \o <<>>] = up
    <3>1. up[c] \in Seq(Messages)
      BY InvIs DEF Channels
    <3>2. up[c] \o <<>> = up[c]
      BY <3>1
    <3> QED
      BY <3>2, InvIs DEF Channels
  <2> QED
    BY <1>1, <2>1 DEF Tells
<1>5. <<>> \in Seq(Messages) /\ ToSet(<<>>) = {}
  BY EmptySet
<1> QED
  BY <1>1, <1>2, <1>3, <1>4, <1>5, GivesUpHolds

LEMMA ClosesHolds ==
    ASSUME PermitsInv, NEW c \in Children, Closes(c)
    PROVE  PermitsInv'
<1> SUFFICES ASSUME process[c] # "greeting"
             PROVE  PermitsInv'
  BY EndsHolds
<1> DEFINE last == IF asking[c] = 0 THEN <<>> ELSE <<Message("cancel", asking[c])>>
           messages == <<Message("closed", 0)>> \o last
<1>1. /\ asking' = [asking EXCEPT ![c] = 0] /\ process' = [process EXCEPT ![c] = "ended"]
      /\ down' = [down EXCEPT ![c] = <<>>]
      /\ Tells(c, messages) /\ ChildUnchanged /\ UNCHANGED history
  BY DEF Closes, Ends, history
<1>2. /\ <<Message("closed", 0)>> \in Seq(Messages)
      /\ ToSet(<<Message("closed", 0)>>) = {Message("closed", 0)}
  BY ControlIs, OneMessage
<1>3. /\ last \in Seq(Messages)
      /\ \A m \in ToSet(last) : asking[c] # 0 /\ m = Message("cancel", asking[c])
  <2>1. CASE asking[c] = 0
    BY <2>1, EmptySet
  <2>2. CASE asking[c] # 0
    BY <2>2, CancelIs, OneMessage
  <2> QED
    BY <2>1, <2>2
<1> HIDE DEF last
<1>4. messages \in Seq(Messages) /\ ToSet(messages) \subseteq {Message("closed", 0)} \cup ToSet(last)
  BY <1>2, <1>3, ConcatSet
<1> HIDE DEF messages
<1>5. \A m \in ToSet(messages) :
          \/ m.type \notin {"identify", "cancel", "sent"} /\ m.request = 0
          \/ asking[c] # 0 /\ m = Message("cancel", asking[c])
  BY <1>3, <1>4, ControlIs
<1>6. down' \in Channels /\ \A x \in Children : Contents(down')[x] \subseteq Contents(down)[x]
  BY <1>1, InvIs, ClearedIs
<1>7. /\ process' \in [Children -> Processes]
      /\ \A x \in Children : process'[x] = "none" => process[x] = "none"
  BY <1>1, InvIs DEF Processes
<1> QED
  BY <1>1, <1>4, <1>5, <1>6, <1>7, GivesUpHolds

\* What a child takes off its channel
LEMMA ToldIs ==
    ASSUME PermitsInv, NEW c \in Children, NEW type, Told(c, type)
    PROVE  /\ down' \in Channels /\ \A x \in Children : Contents(down')[x] \subseteq Contents(down)[x]
           /\ First(down, c) \in Contents(down)[c]
           /\ First(down, c) = Message(type, First(down, c).request)
           /\ Bridged(c)
           /\ coordinated' = coordinated /\ stopping' = stopping /\ age' = age /\ pending' = pending
           /\ outstanding' = outstanding /\ grantTimer' = grantTimer /\ permits' = permits
<1>1. /\ Bridged(c) /\ down[c] # <<>> /\ Head(down[c]).type = type
      /\ down' = [down EXCEPT ![c] = Tail(@)]
      /\ coordinated' = coordinated /\ stopping' = stopping /\ age' = age /\ pending' = pending
      /\ outstanding' = outstanding /\ grantTimer' = grantTimer /\ permits' = permits
  BY DEF Told, Reads, First, parentVars
<1>2. /\ down' \in Channels /\ \A x \in Children : Contents(down')[x] \subseteq Contents(down)[x]
      /\ Head(down[c]) \in Messages /\ Head(down[c]) \in Contents(down)[c]
  BY <1>1, InvIs, ShorterIs
<1>3. Head(down[c]) = Message(type, Head(down[c]).request)
  BY <1>1, <1>2, MessageIs
<1> QED
  BY <1>1, <1>2, <1>3 DEF First

\* An Identify is sent only when the last one is the spacing ago.
LEMMA IdentifiesHolds ==
    ASSUME PermitsInv, NEW c \in Children, Identifies(c)
    PROVE  PermitsInv' /\ socketAge = Spacing
<1> DEFINE sent == Message("sent", asking[c])
<1>1. /\ Told(c, "grant") /\ asking[c] = First(down, c).request
      /\ asking' = [asking EXCEPT ![c] = 0] /\ socketAge' = FromIdentify
      /\ Tells(c, <<sent>>) /\ process' = process /\ requests' = requests
  BY DEF Identifies
<1>2. /\ down' \in Channels /\ \A x \in Children : Contents(down')[x] \subseteq Contents(down)[x]
      /\ Message("grant", asking[c]) \in Contents(down)[c]
  BY <1>1, ToldIs
<1>3. /\ coordinated' = coordinated /\ stopping' = stopping /\ age' = age /\ pending' = pending
      /\ outstanding' = outstanding /\ grantTimer' = grantTimer /\ permits' = permits
  BY <1>1, ToldIs
<1>4. sent \in Messages
  <2>1. asking[c] \in 0..MaxRequests
    BY InvIs
  <2> QED
    BY <2>1 DEF Message, Messages
<1>5. <<sent>> \in Seq(Messages) /\ ToSet(<<sent>>) = {sent}
  BY <1>4, OneMessage
<1>6. /\ up' \in Channels
      /\ stopping => up' = up
      /\ \A x \in Children : \A m \in Contents(up')[x] : m \in Contents(up)[x] \/ (x = c /\ m = sent)
  BY <1>1, <1>5, InvIs, TellsIs
<1>7. /\ socketAge = Spacing
      /\ Good(ToSet(pending), outstanding, permits, Contents(down'), age, Contents(up'),
              [asking EXCEPT ![c] = 0], requests, FromIdentify, stopping)
  <2>1. Good(ToSet(pending), outstanding, permits, Contents(down), age, Contents(up), asking,
             requests, socketAge, stopping)
    BY DEF PermitsInv
  <2>2. /\ Contents(up') \in [Children -> SUBSET Messages]
        /\ Contents(down') \in [Children -> SUBSET Messages]
    BY <1>2, <1>6, ContentsAre
  <2>3. stopping => \A x \in Children : Contents(up')[x] = {}
    BY <1>6, <2>1 DEF Good, Halted
  <2>4. FromIdentify \in 0..Spacing
    BY SpacingIs
  <2> QED
    BY <1>2, <1>6, <2>1, <2>2, <2>3, <2>4, IdentifiedHolds
<1>8. \A x \in Children : process'[x] = "none" => asking'[x] = 0
  <2>1. \A x \in Children : process[x] = "none" => asking[x] = 0
    BY DEF PermitsInv, Rest
  <2> QED
    BY <1>1, <2>1, InvIs
<1>9. coordinated => socketAge' = Spacing
  BY <1>1 DEF FromIdentify
<1>10. Rest'
  BY <1>1, <1>2, <1>3, <1>6, <1>8, <1>9 DEF PermitsInv, Rest
<1> QED
  BY <1>1, <1>3, <1>7, <1>10 DEF PermitsInv

LEMMA AnsweredHolds ==
    ASSUME PermitsInv, NEW c \in Children, Answered(c)
    PROVE  PermitsInv'
<1>1. PICK type \in {"grant", "denied", "cancelled"} : Told(c, type)
  BY DEF Answered
<1>2. /\ down' \in Channels /\ \A x \in Children : Contents(down')[x] \subseteq Contents(down)[x]
      /\ coordinated' = coordinated /\ stopping' = stopping /\ age' = age /\ pending' = pending
      /\ outstanding' = outstanding /\ grantTimer' = grantTimer /\ permits' = permits
  BY <1>1, ToldIs
<1>3. /\ process' = process /\ up' = up
      /\ requests' = requests /\ socketAge' = socketAge
      /\ asking' = asking \/ asking' = [asking EXCEPT ![c] = 0]
  BY DEF Answered, history
<1>4. /\ asking' \in [Children -> 0..MaxRequests]
      /\ \A x \in Children : asking'[x] \in {0, asking[x]}
  BY <1>3, InvIs, PermitsAssumption
<1>5. \A x \in Children : process'[x] = "none" => asking'[x] = 0
  <2>1. \A x \in Children : process[x] = "none" => asking[x] = 0
    BY DEF PermitsInv, Rest
  <2> QED
    BY <1>3, <1>4, <2>1
<1>6. /\ process' = process /\ up' = up
      /\ requests' = requests /\ socketAge' = socketAge
  BY <1>3
<1> QED
  BY <1>2, <1>4, <1>5, <1>6, InvIs, QuietStep

LEMMA TakesAssignmentHolds ==
    ASSUME PermitsInv, NEW c \in Children, TakesAssignment(c)
    PROVE  PermitsInv'
<1>1. /\ Told(c, "assignment") /\ process' = [process EXCEPT ![c] = "assigned"]
      /\ asking' = asking /\ up' = up
      /\ requests' = requests /\ socketAge' = socketAge
  BY DEF TakesAssignment, history
<1>2. /\ down' \in Channels /\ \A x \in Children : Contents(down')[x] \subseteq Contents(down)[x]
      /\ coordinated' = coordinated /\ stopping' = stopping /\ age' = age /\ pending' = pending
      /\ outstanding' = outstanding /\ grantTimer' = grantTimer /\ permits' = permits
  BY <1>1, ToldIs
<1>3. /\ process' \in [Children -> Processes]
      /\ \A x \in Children : process'[x] = "none" => process[x] = "none"
  BY <1>1, InvIs DEF Processes
<1> QED
  BY <1>1, <1>2, <1>3, InvIs, QuietStep DEF PermitsInv, Rest

LEMMA ToldToStopHolds ==
    ASSUME PermitsInv, NEW c \in Children, ToldToStop(c)
    PROVE  PermitsInv'
<1>1. /\ Told(c, "shutdown") /\ process' = [process EXCEPT ![c] = "stopping"]
      /\ asking' = asking /\ up' = up
      /\ requests' = requests /\ socketAge' = socketAge
  BY DEF ToldToStop, history
<1>2. /\ down' \in Channels /\ \A x \in Children : Contents(down')[x] \subseteq Contents(down)[x]
      /\ coordinated' = coordinated /\ stopping' = stopping /\ age' = age /\ pending' = pending
      /\ outstanding' = outstanding /\ grantTimer' = grantTimer /\ permits' = permits
  BY <1>1, ToldIs
<1>3. /\ process' \in [Children -> Processes]
      /\ \A x \in Children : process'[x] = "none" => process[x] = "none"
  BY <1>1, InvIs DEF Processes
<1> QED
  BY <1>1, <1>2, <1>3, InvIs, QuietStep DEF PermitsInv, Rest

LEMMA TickHolds ==
    ASSUME PermitsInv, Tick
    PROVE  PermitsInv'
<1>1. /\ age' = (IF age < Spacing THEN age + 1 ELSE age)
      /\ socketAge' = (IF socketAge < Spacing THEN socketAge + 1 ELSE socketAge)
      /\ coordinated' = coordinated /\ stopping' = stopping /\ pending' = pending
      /\ outstanding' = outstanding /\ grantTimer' = grantTimer /\ permits' = permits
      /\ process' = process /\ asking' = asking /\ up' = up /\ down' = down
      /\ requests' = requests
  BY DEF Tick, parentVars, grantVars, childVars
<1>2. Good(ToSet(pending), outstanding, permits, Contents(down), age', Contents(up), asking, requests,
           socketAge', stopping)
  <2>1. Good(ToSet(pending), outstanding, permits, Contents(down), age, Contents(up), asking,
             requests, socketAge, stopping)
    BY DEF PermitsInv
  <2>2. Good(ToSet(pending), outstanding, permits, Contents(down),
             IF age < Spacing THEN age + 1 ELSE age, Contents(up), asking, requests,
             IF socketAge < Spacing THEN socketAge + 1 ELSE socketAge, stopping)
    BY <2>1, OlderHolds
  <2> QED
    BY <1>1, <2>2
<1>3. coordinated => socketAge' = Spacing
  <2>1. (coordinated => socketAge = Spacing) /\ Spacing \in Nat
    BY PermitsAssumption DEF PermitsInv, Rest
  <2> QED
    BY <1>1, <2>1
<1>4. Rest'
  BY <1>1, <1>3 DEF PermitsInv, Rest
<1> QED
  BY <1>1, <1>2, <1>4 DEF PermitsInv

-----------------------------------------------------------------------------

\* Every step keeps the invariant.
LEMMA StepHolds ==
    ASSUME PermitsInv, [Next]_vars
    PROVE  PermitsInv'
<1>1. CASE UNCHANGED vars
  <2>1. /\ coordinated' = coordinated /\ stopping' = stopping /\ age' = age /\ pending' = pending
        /\ outstanding' = outstanding /\ grantTimer' = grantTimer /\ permits' = permits
        /\ process' = process /\ asking' = asking /\ up' = up /\ down' = down
        /\ requests' = requests /\ socketAge' = socketAge
    BY <1>1 DEF vars, parentVars, grantVars, childVars, history
  <2> QED
    BY <2>1 DEF PermitsInv, Rest
<1>2. CASE GrantTimerFires \/ AckExpires \/ Tick
  BY <1>2, GrantTimerFiresHolds, AckExpiresHolds, TickHolds
<1>3. CASE ShutDown \/ \E c \in Children : StartupExpires(c) \/ DisconnectExpires(c)
  <2>1. BeginsShutdown(Running, outstanding, down) /\ UNCHANGED <<restarts, age, childVars, history>>
    BY <1>3 DEF ShutDown, StartupExpires, DisconnectExpires
  <2> QED
    BY <2>1, ShutdownBegins
<1>4. ASSUME NEW r \in permits, Settling(r)
      PROVE  PermitsInv'
  BY <1>4, PermitGivenHolds, PermitRefusedHolds DEF Settling
<1>5. ASSUME NEW c \in Children, Disconnects(c) \/ Exits(c) \/ Spawns(c)
      PROVE  PermitsInv'
  BY <1>5, DisconnectsHolds, ExitsHolds, SpawnsHolds
<1>6. ASSUME NEW c \in Children, Hearing(c)
      PROVE  PermitsInv'
  BY <1>6, HearsHelloHolds, HearsReadyHolds, HearsIdentifyHolds, HearsCancelHolds, HearsSentHolds,
     HearsEndHolds DEF Hearing
<1>7. ASSUME NEW c \in Children, ChildMoves(c)
      PROVE  PermitsInv'
  BY <1>7, StartsHolds, TakesAssignmentHolds, AsksHolds, WithdrawsHolds, ClosesHolds, EndsHolds,
     IdentifiesHolds, AnsweredHolds, ToldToStopHolds DEF ChildMoves
<1> QED
  BY <1>1, <1>2, <1>3, <1>4, <1>5, <1>6, <1>7 DEF Next

\* Without a coordinator two Identifys of one account are at least the spacing apart, for any number
\* of children, any spacing and any number of restarts (#grant, #exit and #identifyCancelMessage of
\* SupervisorOwner).
THEOREM SpacingKept == Spec => IdentifiesSpaced
<1>1. Init => PermitsInv
  BY InitHolds
<1>2. PermitsInv /\ [Next]_vars => PermitsInv'
  BY StepHolds
<1>3. PermitsInv => [\A c \in Children : Identifies(c) /\ ~coordinated => socketAge = Spacing]_vars
  BY IdentifiesHolds
<1> QED
  BY <1>1, <1>2, <1>3, PTL DEF Spec, IdentifiesSpaced

-----------------------------------------------------------------------------
(* What is under way in each channel, in its order *)

\* What comes first in s stands in the relation R to what comes later.
InOrder(s, R) == \A i, j \in DOMAIN s : i < j => <<s[i], s[j]>> \in R

\* A request is queued once.
Apart == {p \in Entries \X Entries : p[1] # p[2]}

\* A hello and the readiness of a child are read before anything else is told; a child asks once, and
\* reports a request once or withdraws it.
UpOrder == {p \in Messages \X Messages :
    /\ p[2].type \notin {"hello", "ready"}
    /\ (\/ p[2].type = "identify"
        \/ p[1].type = "sent" /\ p[2].type \in {"sent", "cancel"}
        \/ p[1].type = "cancel" /\ p[2].type = "sent") => p[1].request # p[2].request}

\* After an answer to a request no grant or denial of it comes.
DownOrder == {p \in Messages \X Messages :
    p[1].type \in {"grant", "denied", "cancelled"} /\ p[2].type \in {"grant", "denied"}
        => p[1].request # p[2].request}

UpFine(channels) == \A c \in Children : InOrder(channels[c], UpOrder)
DownFine(channels) == \A c \in Children : InOrder(channels[c], DownOrder)

\* A request waits for its turn, and is open until it is granted or given up.
Waits(Q, U, c, r) == [child |-> c, request |-> r] \in Q \/ Message("identify", r) \in U[c]
Has(o, c, r) == o # None /\ o.child = c /\ o.request = r
Open(Q, o, U, c, r) == Waits(Q, U, c, r) \/ (Has(o, c, r) /\ ~o.granted)
Answers(r) == {Message("grant", r), Message("denied", r), Message("cancelled", r)}

\* A request is open at one place at most, its child expects an answer and has none on its way; and
\* a grant or denial on its way is expected. x are the withdrawn requests, pr the processes.
Fit(Q, o, D, U, k, x, pr, n) ==
    /\ \A c \in Children, r \in Requests :
           /\ Open(Q, o, U, c, r) => /\ pr[c] # "none"
                                     /\ pr[c] # "ended" => k[c] = r \/ r \in x[c]
                                     /\ Answers(r) \cap D[c] = {}
           /\ Has(o, c, r) => ~Waits(Q, U, c, r)
           /\ Message("identify", r) \in U[c] => [child |-> c, request |-> r] \notin Q
    /\ \A c \in Children : \A m \in D[c] :
           /\ m.request <= n
           /\ m.type \in {"grant", "denied"} => m.request # 0 /\ (m.request = k[c] \/ m.request \in x[c])

\* The handshake of a child has been read, or is the next thing its parent reads.
Greeted(c) ==
    slot[c] = "running" \/ (slot[c] = "greeted" /\ up[c] # <<>> /\ Head(up[c]).type = "ready")

\* What the parent has read of a child goes with how far the child is.
Shook(c) ==
    /\ c \notin linked => up[c] = <<>>
    /\ process[c] = "none" => c \notin linked
    /\ slot[c] = "restarting" => process[c] = "none"
    /\ process[c] \in {"assigned", "on", "stopping"} => slot[c] # "starting"
    /\ ~stopping =>
          /\ process[c] = "booting" => slot[c] = "starting" /\ up[c] = <<>>
          /\ process[c] = "greeting" /\ c \in linked => (slot[c] = "starting" <=> up[c] # <<>>)
          /\ process[c] = "assigned" => slot[c] = "greeted" /\ up[c] = <<>>
          /\ up[c] # <<>> => (slot[c] = "starting" <=> Head(up[c]).type = "hello")
          /\ up[c] # <<>> /\ Head(up[c]).type = "ready" => slot[c] = "greeted"
          /\ (process[c] = "on" /\ c \in linked) \/ (\E m \in ToSet(up[c]) : m.type = "identify")
                 => Greeted(c)

Handshaken == \A c \in Children : Shook(c)

\* A process without a client asks for nothing and is told nothing but its assignment and to stop:
\* the assignment first, unless the parent stopped before it read the hello.
Young == {"none", "booting", "greeting", "assigned"}
Unassigned == {"booting", "greeting"}
Hand(c) ==
    /\ process[c] \in Young => asking[c] = 0 /\ cancelled[c] = {}
    /\ Holds(c) => process[c] \notin Young
    /\ \A m \in ToSet(up[c]) : m.type # "hello" => process[c] \notin Young
    /\ process[c] = "none" => down[c] = <<>>
    /\ process[c] \notin Unassigned => \A m \in ToSet(down[c]) : m.type # "assignment"
    /\ process[c] \in Unassigned =>
          \/ /\ slot[c] = "starting" /\ (~stopping => down[c] = <<>>)
             /\ \A m \in ToSet(down[c]) : m.type = "shutdown"
          \/ /\ slot[c] = "greeted" /\ process[c] = "greeting" /\ down[c] # <<>>
             /\ Head(down[c]).type = "assignment"
             /\ \A m \in ToSet(Tail(down[c])) : m.type = "shutdown"

Handed == \A c \in Children : Hand(c)

\* An Identify that is reported is the outstanding one's.
Reported ==
    \A c \in Children : \A m \in ToSet(up[c]) :
        m.type = "sent" => Has(outstanding, c, m.request) /\ outstanding.granted

Fitting ==
    /\ InOrder(pending, Apart) /\ DownFine(down)
    /\ cancelled \in [Children -> SUBSET Requests]
    /\ Fit(ToSet(pending), outstanding, Contents(down), Contents(up), asking, cancelled, process, requests)

\* What is left of the types
Sized ==
    /\ slot \in [Children -> Slots]
    /\ restarts \in [Children -> 0..MaxAttempts]
    /\ lost \subseteq Children /\ stopTimer \subseteq Children /\ linked \subseteq Children

\* The inductive invariant
UnderstoodInv == PermitsInv /\ Sized /\ Handshaken /\ Handed /\ UpFine(up) /\ Reported /\ Fitting

LEMMA AppendOrder ==
    ASSUME NEW S, NEW s \in Seq(S), NEW e \in S, NEW R, InOrder(s, R),
           \A m \in ToSet(s) : <<m, e>> \in R
    PROVE  InOrder(Append(s, e), R)
<1>1. /\ Len(Append(s, e)) = Len(s) + 1 /\ Len(s) \in Nat
      /\ \A i \in 1..Len(s) : Append(s, e)[i] = s[i]
      /\ Append(s, e)[Len(s) + 1] = e
      /\ DOMAIN s = 1..Len(s) /\ DOMAIN Append(s, e) = 1..(Len(s) + 1)
  OBVIOUS
<1>2. ASSUME NEW i \in 1..(Len(s) + 1), NEW j \in 1..(Len(s) + 1), i < j
      PROVE  <<Append(s, e)[i], Append(s, e)[j]>> \in R
  <2>1. i \in 1..Len(s) /\ s[i] \in ToSet(s)
    BY <1>1, <1>2 DEF ToSet
  <2>2. CASE j = Len(s) + 1
    BY <1>1, <2>1, <2>2
  <2>3. CASE j # Len(s) + 1
    <3>1. j \in 1..Len(s)
      BY <1>1, <2>3
    <3> QED
      BY <1>1, <1>2, <2>1, <3>1 DEF InOrder
  <2> QED
    BY <2>2, <2>3
<1> QED
  BY <1>1, <1>2 DEF InOrder

LEMMA ConcatOrder ==
    ASSUME NEW S, NEW s \in Seq(S), NEW t \in Seq(S), NEW R, InOrder(s, R), InOrder(t, R),
           \A m \in ToSet(s), w \in ToSet(t) : <<m, w>> \in R
    PROVE  InOrder(s \o t, R)
<1>1. /\ Len(s \o t) = Len(s) + Len(t) /\ Len(s) \in Nat /\ Len(t) \in Nat
      /\ \A i \in 1..Len(s) : (s \o t)[i] = s[i]
      /\ \A i \in (Len(s) + 1)..(Len(s) + Len(t)) : (s \o t)[i] = t[i - Len(s)]
      /\ s \o t \in Seq(S)
  BY ConcatProperties
<1>2. DOMAIN (s \o t) = 1..(Len(s) + Len(t)) /\ DOMAIN s = 1..Len(s) /\ DOMAIN t = 1..Len(t)
  BY <1>1
<1>3. \A i \in 1..(Len(s) + Len(t)) : i > Len(s) =>
          i - Len(s) \in 1..Len(t) /\ i \in (Len(s) + 1)..(Len(s) + Len(t))
  BY <1>1
<1>4. \A i \in 1..(Len(s) + Len(t)) : i <= Len(s) => i \in 1..Len(s)
  BY <1>1
<1>5. ASSUME NEW i \in 1..(Len(s) + Len(t)), NEW j \in 1..(Len(s) + Len(t)), i < j
      PROVE  <<(s \o t)[i], (s \o t)[j]>> \in R
  <2>1. CASE j <= Len(s)
    <3>1. i \in 1..Len(s) /\ j \in 1..Len(s)
      BY <1>1, <1>4, <1>5, <2>1
    <3> QED
      BY <1>1, <1>2, <1>5, <3>1 DEF InOrder
  <2>2. CASE i <= Len(s) /\ j > Len(s)
    <3>1. i \in 1..Len(s) /\ j - Len(s) \in 1..Len(t) /\ (s \o t)[j] = t[j - Len(s)]
      BY <1>1, <1>3, <1>4, <2>2
    <3>2. s[i] \in ToSet(s) /\ t[j - Len(s)] \in ToSet(t)
      BY <1>2, <3>1 DEF ToSet
    <3> QED
      BY <1>1, <3>1, <3>2
  <2>3. CASE i > Len(s)
    <3>1. /\ i - Len(s) \in 1..Len(t) /\ (s \o t)[i] = t[i - Len(s)]
          /\ j - Len(s) \in 1..Len(t) /\ (s \o t)[j] = t[j - Len(s)]
          /\ i - Len(s) < j - Len(s)
      BY <1>1, <1>3, <1>5, <2>3
    <3> QED
      BY <1>2, <3>1 DEF InOrder
  <2> QED
    BY <1>1, <2>1, <2>2, <2>3
<1> QED
  BY <1>2, <1>5 DEF InOrder

LEMMA TailOrder ==
    ASSUME NEW S, NEW s \in Seq(S), s # <<>>, NEW R, InOrder(s, R)
    PROVE  InOrder(Tail(s), R) /\ \A w \in ToSet(Tail(s)) : <<Head(s), w>> \in R
<1>1. /\ Len(Tail(s)) = Len(s) - 1 /\ Len(s) \in Nat /\ Len(s) >= 1 /\ Tail(s) \in Seq(S)
      /\ \A i \in 1..(Len(s) - 1) : Tail(s)[i] = s[i + 1]
      /\ Head(s) = s[1]
  OBVIOUS
<1>2. DOMAIN Tail(s) = 1..(Len(s) - 1) /\ DOMAIN s = 1..Len(s)
  BY <1>1
<1>3. 1 \in DOMAIN s /\ \A i \in 1..(Len(s) - 1) : i + 1 \in DOMAIN s /\ 1 < i + 1
  BY <1>1, <1>2
<1>4. ASSUME NEW i \in 1..(Len(s) - 1), NEW j \in 1..(Len(s) - 1), i < j
      PROVE  <<Tail(s)[i], Tail(s)[j]>> \in R
  <2>1. i + 1 < j + 1
    BY <1>4
  <2> QED
    BY <1>1, <1>3, <2>1 DEF InOrder
<1>5. ASSUME NEW w \in ToSet(Tail(s))
      PROVE  <<Head(s), w>> \in R
  <2>1. PICK i \in 1..(Len(s) - 1) : w = Tail(s)[i]
    BY <1>2 DEF ToSet
  <2> QED
    BY <1>1, <1>3, <2>1 DEF InOrder
<1> QED
  BY <1>2, <1>4, <1>5 DEF InOrder

LEMMA ShortOrder ==
    ASSUME NEW R
    PROVE  InOrder(<<>>, R) /\ \A m : InOrder(<<m>>, R)
<1>1. DOMAIN <<>> = {} /\ \A m : DOMAIN <<m>> = {1}
  OBVIOUS
<1> QED
  BY <1>1 DEF InOrder

LEMMA UpPair ==
    ASSUME NEW m \in Messages, NEW w \in Messages
    PROVE  <<m, w>> \in UpOrder <=>
               /\ w.type \notin {"hello", "ready"}
               /\ (\/ w.type = "identify"
                   \/ m.type = "sent" /\ w.type \in {"sent", "cancel"}
                   \/ m.type = "cancel" /\ w.type = "sent") => m.request # w.request
BY DEF UpOrder

LEMMA DownPair ==
    ASSUME NEW m \in Messages, NEW w \in Messages
    PROVE  <<m, w>> \in DownOrder <=>
               (m.type \in {"grant", "denied", "cancelled"} /\ w.type \in {"grant", "denied"}
                   => m.request # w.request)
BY DEF DownOrder

LEMMA EntryIs ==
    ASSUME NEW e \in Entries
    PROVE  /\ e.child \in Children /\ e.request \in Requests
           /\ e = [child |-> e.child, request |-> e.request]
BY DEF Entries

\* What is left of the queue is without the entries filtered out, and in order.
LEMMA LeftKeeps ==
    ASSUME NEW gone, pending \in Seq(Entries), InOrder(pending, Apart), NEW queue \in Left(gone)
    PROVE  InOrder(queue, Apart) /\ \A e \in ToSet(queue) : e \notin gone
<1> DEFINE kept == {i \in DOMAIN pending : pending[i] \notin gone}
           n == Cardinality(kept)
<1>1. DOMAIN pending = 1..Len(pending) /\ Len(pending) \in Nat
  OBVIOUS
<1>2. PICK at \in [1..n -> kept] :
          /\ \A i, j \in DOMAIN at : i < j => at[i] < at[j]
          /\ queue = [i \in DOMAIN at |-> pending[at[i]]]
  BY DEF Left
<1> HIDE DEF n
<1>3. queue = [i \in 1..n |-> pending[at[i]]] /\ DOMAIN queue = 1..n /\ DOMAIN at = 1..n
  BY <1>2
<1>4. \A i \in 1..n : at[i] \in DOMAIN pending /\ queue[i] = pending[at[i]] /\ pending[at[i]] \notin gone
  BY <1>3
<1>5. \A i, j \in 1..n : i < j => <<queue[i], queue[j]>> \in Apart
  BY <1>2, <1>3, <1>4 DEF InOrder
<1> QED
  BY <1>3, <1>4, <1>5 DEF InOrder, ToSet

-----------------------------------------------------------------------------
(* Channels in order *)

LEMMA SentFine ==
    ASSUME NEW ch \in Channels, NEW c \in Children, NEW m \in Messages, DownFine(ch),
           m.type \in {"grant", "denied"} => Answers(m.request) \cap Contents(ch)[c] = {}
    PROVE  DownFine(Sent(ch, c, m))
<1>1. ch[c] \in Seq(Messages) /\ ToSet(ch[c]) \subseteq Messages /\ Contents(ch)[c] = ToSet(ch[c])
  BY ContentsAre
<1>2. \A w \in ToSet(ch[c]) : <<w, m>> \in DownOrder
  <2> SUFFICES ASSUME NEW w \in ToSet(ch[c]), w.type \in {"grant", "denied", "cancelled"},
                      m.type \in {"grant", "denied"}, w.request = m.request
               PROVE  FALSE
    BY <1>1, DownPair
  <2>1. w = Message(w.type, m.request)
    BY <1>1, MessageIs
  <2>2. w \in Answers(m.request)
    BY <2>1 DEF Answers
  <2> QED
    BY <1>1, <2>2
<1>3. InOrder(Append(ch[c], m), DownOrder)
  BY <1>1, <1>2, AppendOrder DEF DownFine
<1>4. \A x \in Children : [ch EXCEPT ![c] = Append(@, m)][x] = IF x = c THEN Append(ch[c], m) ELSE ch[x]
  BY DEF Channels
<1>5. DownFine([ch EXCEPT ![c] = Append(@, m)])
  BY <1>3, <1>4 DEF DownFine
<1> QED
  BY <1>5 DEF Sent

LEMMA StopsFine ==
    ASSUME NEW children, NEW channels \in Channels, DownFine(channels), Stops(children, channels)
    PROVE  /\ DownFine(down')
           /\ \A x \in Children : \A m \in Contents(down')[x] :
                  m \in Contents(channels)[x] \/ (m.type = "shutdown" /\ m.request = 0)
<1> DEFINE stop == Message("shutdown", 0)
<1>1. stop \in Messages /\ stop.type = "shutdown" /\ stop.request = 0
  BY PermitsAssumption DEF Message, Messages
<1>2. down' = [c \in Children |-> IF c \in (children \ stopTimer) \cap Reached
                   THEN Append(channels[c], stop) ELSE channels[c]]
  BY DEF Stops
<1> HIDE DEF stop
<1>3. ASSUME NEW x \in Children
      PROVE  /\ InOrder(down'[x], DownOrder)
             /\ \A m \in ToSet(down'[x]) : m \in ToSet(channels[x]) \/ m = stop
  <2>1. channels[x] \in Seq(Messages) /\ ToSet(channels[x]) \subseteq Messages
    BY ContentsAre
  <2>2. \A w \in ToSet(channels[x]) : <<w, stop>> \in DownOrder
    BY <1>1, <2>1, DownPair
  <2>3. InOrder(channels[x], DownOrder)
    BY DEF DownFine
  <2>4. /\ InOrder(Append(channels[x], stop), DownOrder)
        /\ ToSet(Append(channels[x], stop)) = ToSet(channels[x]) \cup {stop}
    BY <1>1, <2>1, <2>2, <2>3, AppendOrder, AppendSet
  <2>5. down'[x] = Append(channels[x], stop) \/ down'[x] = channels[x]
    BY <1>2
  <2> QED
    BY <2>3, <2>4, <2>5
<1> QED
  BY <1>1, <1>3 DEF DownFine, Contents

LEMMA TakenFine ==
    ASSUME NEW ch \in Channels, NEW c \in Children, ch[c] # <<>>, NEW R,
           \A x \in Children : InOrder(ch[x], R),
           NEW rest, rest = [ch EXCEPT ![c] = Tail(@)]
    PROVE  /\ \A x \in Children : InOrder(rest[x], R)
           /\ \A w \in ToSet(rest[c]) : <<Head(ch[c]), w>> \in R
           /\ rest[c] = Tail(ch[c]) /\ \A x \in Children : x # c => rest[x] = ch[x]
<1>1. /\ rest[c] = Tail(ch[c]) /\ \A x \in Children : x # c => rest[x] = ch[x]
      /\ ch[c] \in Seq(Messages)
  BY DEF Channels
<1>2. InOrder(Tail(ch[c]), R) /\ \A w \in ToSet(Tail(ch[c])) : <<Head(ch[c]), w>> \in R
  BY <1>1, TailOrder
<1> QED
  BY <1>1, <1>2

\* What a child tells is at the end of its channel, if its parent listens.
LEMMA TellsExact ==
    ASSUME up \in Channels, NEW c \in Children, NEW messages, Tells(c, messages)
    PROVE  /\ \A x \in Children : x # c => up'[x] = up[x]
           /\ \/ up'[c] = up[c]
              \/ c \in linked /\ ~stopping /\ up'[c] = up[c] \o messages
BY DEF Tells, Channels

-----------------------------------------------------------------------------
(* What keeps requests and answers together *)

LEMMA AnswersAre ==
    ASSUME NEW r, NEW m \in Messages
    PROVE  m \in Answers(r) <=> m.type \in {"grant", "denied", "cancelled"} /\ m.request = r
<1>1. m = Message(m.type, m.request)
  BY MessageIs
<1> QED
  BY <1>1 DEF Answers, Message

\* Fewer requests and messages, and processes that still expect what is open and under way.
LEMMA FewerFits ==
    ASSUME NEW Q, NEW o, NEW D, NEW U, NEW k, NEW x, NEW pr, NEW n, Fit(Q, o, D, U, k, x, pr, n),
           NEW P, P \subseteq Q,
           NEW w, w # None => /\ o # None /\ w.child = o.child /\ w.request = o.request
                              /\ o.granted => w.granted,
           NEW E \in [Children -> SUBSET Messages],
           \A c \in Children : \A m \in E[c] :
               \/ m \in D[c]
               \/ m.type \notin {"grant", "denied", "cancelled"} /\ m.request <= n,
           NEW V, \A c \in Children, r \in Requests :
                      Message("identify", r) \in V[c] => Message("identify", r) \in U[c],
           NEW l, NEW y, NEW pq,
           \A c \in Children, r \in Requests : Open(P, w, V, c, r) =>
               /\ pr[c] # "none" => pq[c] # "none"
               /\ pq[c] # "ended" => /\ pr[c] # "ended"
                                     /\ k[c] = r \/ r \in x[c] => l[c] = r \/ r \in y[c],
           \A c \in Children : \A m \in E[c] :
               m.type \in {"grant", "denied"} /\ (m.request = k[c] \/ m.request \in x[c])
                   => m.request = l[c] \/ m.request \in y[c]
    PROVE  Fit(P, w, E, V, l, y, pq, n)
<1>1. ASSUME NEW c \in Children, NEW r \in Requests
      PROVE  /\ Waits(P, V, c, r) => Waits(Q, U, c, r)
             /\ Has(w, c, r) => Has(o, c, r)
             /\ Open(P, w, V, c, r) => Open(Q, o, U, c, r)
  <2>1. Waits(P, V, c, r) => Waits(Q, U, c, r)
    BY DEF Waits
  <2>2. /\ Has(w, c, r) => Has(o, c, r)
        /\ Has(w, c, r) /\ ~w.granted => ~o.granted
    BY DEF Has
  <2> QED
    BY <2>1, <2>2 DEF Open
<1>2. ASSUME NEW c \in Children, NEW r \in Requests, Open(P, w, V, c, r)
      PROVE  /\ pq[c] # "none"
             /\ pq[c] # "ended" => l[c] = r \/ r \in y[c]
             /\ Answers(r) \cap E[c] = {}
  <2>1. Open(Q, o, U, c, r)
    BY <1>1, <1>2
  <2>2. /\ pr[c] # "none" /\ (pr[c] # "ended" => k[c] = r \/ r \in x[c])
        /\ Answers(r) \cap D[c] = {}
    BY <2>1 DEF Fit
  <2>3. ASSUME NEW m \in Answers(r) \cap E[c]
        PROVE  FALSE
    <3>1. m \in Messages
      OBVIOUS
    <3>2. m.type \in {"grant", "denied", "cancelled"}
      BY <3>1, AnswersAre
    <3> QED
      BY <2>2, <3>2
  <2> QED
    BY <1>2, <2>2, <2>3
<1>3. \A c \in Children, r \in Requests : Has(w, c, r) => ~Waits(P, V, c, r)
  BY <1>1 DEF Fit
<1>4. \A c \in Children, r \in Requests :
          Message("identify", r) \in V[c] => [child |-> c, request |-> r] \notin P
  BY DEF Fit
<1>5. \A c \in Children : \A m \in E[c] :
          /\ m.request <= n
          /\ m.type \in {"grant", "denied"} => m.request # 0 /\ (m.request = l[c] \/ m.request \in y[c])
  BY DEF Fit
<1> QED
  BY <1>2, <1>3, <1>4, <1>5 DEF Fit

\* One answer more, to a request that is not open any more.
LEMMA AnsweredFits ==
    ASSUME NEW Q, NEW o, NEW D \in [Children -> SUBSET Messages], NEW U, NEW k, NEW x, NEW pr, NEW n,
           Fit(Q, o, D, U, k, x, pr, n),
           NEW c \in Children, NEW m \in Messages, m.request <= n, m.request # 0, ~Open(Q, o, U, c, m.request),
           m.type \in {"grant", "denied"} => m.request = k[c] \/ m.request \in x[c],
           NEW E \in [Children -> SUBSET Messages],
           \A z \in Children : E[z] \subseteq D[z] \cup (IF z = c THEN {m} ELSE {})
    PROVE  Fit(Q, o, E, U, k, x, pr, n)
<1>1. ASSUME NEW z \in Children, NEW r \in Requests, Open(Q, o, U, z, r)
      PROVE  Answers(r) \cap E[z] = {}
  <2>1. Answers(r) \cap D[z] = {}
    BY <1>1 DEF Fit
  <2>2. z = c => m \notin Answers(r)
    BY <1>1, AnswersAre
  <2> QED
    BY <2>1, <2>2
<1>2. \A z \in Children : \A w \in E[z] : w \in D[z] \/ (z = c /\ w = m)
  OBVIOUS
<1>3. \A z \in Children : \A w \in E[z] :
          /\ w.request <= n
          /\ w.type \in {"grant", "denied"} => w.request # 0 /\ (w.request = k[z] \/ w.request \in x[z])
  BY <1>2 DEF Fit
<1>4. \A z \in Children, r \in Requests :
          /\ Open(Q, o, U, z, r) => pr[z] # "none" /\ (pr[z] # "ended" => k[z] = r \/ r \in x[z])
          /\ Has(o, z, r) => ~Waits(Q, U, z, r)
          /\ Message("identify", r) \in U[z] => [child |-> z, request |-> r] \notin Q
  BY DEF Fit
<1> QED
  BY <1>1, <1>3, <1>4 DEF Fit

\* The turn of the request at the head of the queue
LEMMA TurnFits ==
    ASSUME NEW Q \in SUBSET Entries, NEW D, NEW U, NEW k, NEW x, NEW pr, NEW n,
           Fit(Q, None, D, U, k, x, pr, n),
           NEW e \in Q, NEW P, P \subseteq Q, e \notin P,
           NEW w \in Outstanding, w.child = e.child, w.request = e.request
    PROVE  /\ Fit(P, w, D, U, k, x, pr, n)
           /\ w.granted => ~Open(P, w, U, e.child, e.request)
<1>1. /\ e.child \in Children /\ e.request \in Requests
      /\ e = [child |-> e.child, request |-> e.request]
  BY EntryIs
<1>2. ASSUME NEW c \in Children, NEW r \in Requests
      PROVE  /\ Waits(P, U, c, r) => Waits(Q, U, c, r)
             /\ Has(w, c, r) <=> c = e.child /\ r = e.request
             /\ Has(w, c, r) => Open(Q, None, U, c, r) /\ ~Waits(P, U, c, r)
             /\ Open(P, w, U, c, r) => Open(Q, None, U, c, r)
  <2>1. Waits(P, U, c, r) => Waits(Q, U, c, r)
    BY DEF Waits
  <2>2. Has(w, c, r) <=> c = e.child /\ r = e.request
    BY OutstandingIs DEF Has
  <2>3. ASSUME Has(w, c, r)
        PROVE  Waits(Q, U, c, r) /\ ~Waits(P, U, c, r)
    <3>1. e = [child |-> c, request |-> r]
      BY <1>1, <2>2, <2>3
    <3>2. Message("identify", r) \notin U[c]
      BY <3>1 DEF Fit
    <3> QED
      BY <3>1, <3>2 DEF Waits
  <2> QED
    BY <2>1, <2>2, <2>3 DEF Open
<1>3. Open(Q, None, U, e.child, e.request) /\ ~Waits(P, U, e.child, e.request)
  BY <1>1, <1>2
<1>4. Fit(P, w, D, U, k, x, pr, n)
  <2>1. \A c \in Children, r \in Requests :
            Open(P, w, U, c, r) => /\ pr[c] # "none"
                                   /\ pr[c] # "ended" => k[c] = r \/ r \in x[c]
                                   /\ Answers(r) \cap D[c] = {}
    BY <1>2 DEF Fit
  <2>2. \A c \in Children, r \in Requests :
            /\ Has(w, c, r) => ~Waits(P, U, c, r)
            /\ Message("identify", r) \in U[c] => [child |-> c, request |-> r] \notin P
    BY <1>2 DEF Fit
  <2> QED
    BY <2>1, <2>2 DEF Fit
<1>5. w.granted => ~Open(P, w, U, e.child, e.request)
  BY <1>3 DEF Open
<1> QED
  BY <1>1, <1>3, <1>4, <1>5 DEF Fit

\* A grant or denial is sent to the child that expects it, if it is still reached; pr are the processes, or
\* those without one that exits.
LEMMA ReplyFits ==
    ASSUME NEW Q, NEW o, NEW ch \in Channels, NEW U, NEW k, NEW x, NEW pr, NEW n,
           Fit(Q, o, Contents(ch), U, k, x, pr, n), DownFine(ch),
           NEW type \in {"grant", "denied"}, NEW c \in Children, NEW r \in Requests, r <= n, ~Open(Q, o, U, c, r),
           Answers(r) \cap Contents(ch)[c] = {},
           pr[c] # "none", pr[c] # "ended" => k[c] = r \/ r \in x[c],
           pr[c] = process[c] \/ pr[c] = "none"
    PROVE  /\ DownFine(Sent(ch, c, Message(type, r)))
           /\ Fit(Q, o, Contents(Sent(ch, c, Message(type, r))), U, k, x, pr, n)
<1> DEFINE m == Message(type, r)
           sent == Sent(ch, c, m)
<1>1. m \in Messages /\ m.type = type /\ m.request = r /\ r # 0
  BY PermitsAssumption DEF Message, Messages, Requests
<1> HIDE DEF m
<1>2. /\ sent \in Channels
      /\ \A z \in Children : Contents(sent)[z] \subseteq Contents(ch)[z] \cup (IF z = c THEN {m} ELSE {})
  BY <1>1, SentIs
<1>3. DownFine(sent)
  BY <1>1, SentFine
<1>4. CASE process[c] = "ended"
  <2>1. sent = ch
    BY <1>4 DEF Sent, Reached, sent
  <2> QED
    BY <1>3, <2>1 DEF m
<1>5. CASE process[c] # "ended"
  <2>1. r = k[c] \/ r \in x[c]
    BY <1>5
  <2>2. Contents(ch) \in [Children -> SUBSET Messages] /\ Contents(sent) \in [Children -> SUBSET Messages]
    BY <1>2, ContentsAre
  <2> HIDE DEF sent
  <2>3. Fit(Q, o, Contents(sent), U, k, x, pr, n)
    BY <1>1, <1>2, <2>1, <2>2, AnsweredFits
  <2> QED
    BY <1>3, <2>3 DEF m, sent
<1> QED
  BY <1>4, <1>5

LEMMA ScheduleFits ==
    ASSUME coordinated \in BOOLEAN,
           NEW queue \in Seq(Entries), InOrder(queue, Apart), NEW current, NEW timer, NEW since, NEW unsettled,
           NEW ch \in Channels, DownFine(ch), NEW U, NEW k, NEW x, NEW pr, NEW n,
           Fit(ToSet(queue), current, Contents(ch), U, k, x, pr, n),
           \A e \in ToSet(queue) : e.request <= n,
           \A c \in Children : pr[c] = process[c] \/ pr[c] = "none",
           Schedule(queue, current, timer, since, unsettled, ch)
    PROVE  /\ InOrder(pending', Apart) /\ DownFine(down')
           /\ Fit(ToSet(pending'), outstanding', Contents(down'), U, k, x, pr, n)
           /\ outstanding' = current \/ current = None
<1>1. CASE timer \/ current # None \/ queue = <<>> \/ since < Spacing
  <2>1. pending' = queue /\ outstanding' = current /\ down' = ch
    BY <1>1 DEF Schedule
  <2> QED
    BY <2>1
<1>2. CASE ~(timer \/ current # None \/ queue = <<>> \/ since < Spacing)
  <2> DEFINE next == Head(queue)
             w == [child |-> next.child, request |-> next.request,
                   granted |-> ~coordinated, muted |-> FALSE, stalled |-> FALSE]
  <2>1. /\ pending' = Tail(queue) /\ outstanding' = w /\ queue # <<>> /\ current = None
        /\ coordinated => down' = ch
        /\ ~coordinated => down' = Sent(ch, next.child, Message("grant", next.request))
    BY <1>2 DEF Schedule
  <2>2. /\ Tail(queue) \in Seq(Entries) /\ ToSet(Tail(queue)) \subseteq ToSet(queue)
        /\ next \in Entries /\ next \in ToSet(queue)
    BY <2>1, TailSet
  <2>3. InOrder(Tail(queue), Apart) /\ \A e \in ToSet(Tail(queue)) : <<next, e>> \in Apart
    BY <2>1, TailOrder
  <2>4. next \notin ToSet(Tail(queue)) /\ ToSet(queue) \in SUBSET Entries
    BY <2>3, MembersIn DEF Apart
  <2> HIDE DEF next
  <2>5. next.child \in Children /\ next.request \in Requests /\ next.request <= n
    BY <2>2, EntryIs
  <2>6. w \in Outstanding /\ w.child = next.child /\ w.request = next.request /\ w.granted = ~coordinated
    BY <2>5 DEF Outstanding
  <2> HIDE DEF w
  <2>7. /\ Fit(ToSet(Tail(queue)), w, Contents(ch), U, k, x, pr, n)
        /\ w.granted => ~Open(ToSet(Tail(queue)), w, U, next.child, next.request)
        /\ Answers(next.request) \cap Contents(ch)[next.child] = {}
        /\ pr[next.child] # "none"
        /\ pr[next.child] # "ended" => k[next.child] = next.request \/ next.request \in x[next.child]
    <3>1. Fit(ToSet(queue), None, Contents(ch), U, k, x, pr, n)
      BY <2>1
    <3> DEFINE Q == ToSet(queue)
               P == ToSet(Tail(queue))
               D == Contents(ch)
    <3> HIDE DEF Q, P, D
    <3>2. /\ Fit(Q, None, D, U, k, x, pr, n) /\ Q \in SUBSET Entries /\ next \in Q /\ P \subseteq Q
          /\ next \notin P
      BY <2>2, <2>4, <3>1 DEF Q, P, D
    <3>3. /\ Fit(P, w, D, U, k, x, pr, n)
          /\ w.granted => ~Open(P, w, U, next.child, next.request)
      BY <2>6, <3>2, TurnFits
    <3>4. /\ Answers(next.request) \cap D[next.child] = {}
          /\ pr[next.child] # "none"
          /\ pr[next.child] # "ended" => k[next.child] = next.request \/ next.request \in x[next.child]
      <4>1. next = [child |-> next.child, request |-> next.request]
        BY <2>2, EntryIs
      <4>2. Open(Q, None, U, next.child, next.request)
        BY <3>2, <4>1 DEF Open, Waits
      <4> QED
        BY <2>5, <3>2, <4>2 DEF Fit
    <3> QED
      BY <3>3, <3>4 DEF P, D
  <2>8. CASE coordinated
    BY <2>1, <2>3, <2>7, <2>8
  <2>9. CASE ~coordinated
    <3> DEFINE P == ToSet(Tail(queue))
               sent == Sent(ch, next.child, Message("grant", next.request))
    <3>1. ~Open(P, w, U, next.child, next.request) /\ Fit(P, w, Contents(ch), U, k, x, pr, n)
      BY <2>6, <2>7, <2>9
    <3> HIDE DEF P
    <3>2. DownFine(sent) /\ Fit(P, w, Contents(sent), U, k, x, pr, n)
      BY <2>5, <2>7, <3>1, ReplyFits
    <3> QED
      BY <2>1, <2>3, <2>9, <3>2 DEF P
  <2> QED
    BY <2>8, <2>9
<1> QED
  BY <1>1, <1>2

-----------------------------------------------------------------------------
(* Requests and answers, step by step *)

\* What the steps below use of the invariant
LEMMA KnownIs ==
    ASSUME UnderstoodInv
    PROVE  /\ InOrder(pending, Apart) /\ DownFine(down) /\ UpFine(up)
           /\ Fit(ToSet(pending), outstanding, Contents(down), Contents(up), asking, cancelled, process,
                  requests)
           /\ Contents(down) \in [Children -> SUBSET Messages]
           /\ Contents(up) \in [Children -> SUBSET Messages]
           /\ \A e \in ToSet(pending) : e \in Entries /\ e.request <= requests
           /\ outstanding # None =>
                  /\ outstanding \in Outstanding /\ outstanding.child \in Children
                  /\ outstanding.request \in Requests /\ outstanding.request <= requests
           /\ \A c \in Children : \A m \in Contents(up)[c] : m \in Messages /\ m.request <= requests
           /\ requests \in 0..MaxRequests
           /\ cancelled \in [Children -> SUBSET Requests]
<1>1. up \in Channels /\ down \in Channels /\ pending \in Seq(Entries) /\ requests \in 0..MaxRequests
      /\ outstanding \in Outstanding \cup {None}
  BY InvIs DEF UnderstoodInv
<1>2. /\ Contents(down) \in [Children -> SUBSET Messages]
      /\ Contents(up) \in [Children -> SUBSET Messages]
      /\ ToSet(pending) \subseteq Entries
  BY <1>1, ContentsAre, MembersIn
<1>3. /\ \A e \in ToSet(pending) : e.request <= requests
      /\ outstanding # None => outstanding.request <= requests
      /\ \A c \in Children : \A m \in Contents(up)[c] : m.request <= requests
  BY DEF UnderstoodInv, PermitsInv, Good, Numbered
<1>4. outstanding # None =>
          /\ outstanding \in Outstanding /\ outstanding.child \in Children
          /\ outstanding.request \in Requests
  BY <1>1, OutstandingIs
<1> QED
  BY <1>1, <1>2, <1>3, <1>4 DEF UnderstoodInv, Fitting

\* A step that grants and answers nothing, of the parent
LEMMA QuietFits ==
    ASSUME UnderstoodInv, PermitsInv',
           ToSet(pending') \subseteq ToSet(pending), InOrder(pending', Apart), DownFine(down'),
           outstanding' # None => /\ outstanding # None /\ outstanding'.child = outstanding.child
                                  /\ outstanding'.request = outstanding.request
                                  /\ outstanding.granted => outstanding'.granted,
           \A c \in Children : \A m \in Contents(down')[c] :
               \/ m \in Contents(down)[c]
               \/ m.type \notin {"grant", "denied", "cancelled"} /\ m.request <= requests,
           \A c \in Children : \A m \in Contents(up')[c] : m.type = "identify" => m \in Contents(up)[c],
           requests' = requests, asking' = asking, cancelled' = cancelled, process' = process
    PROVE  Fitting'
<1>1. /\ Fit(ToSet(pending), outstanding, Contents(down), Contents(up), asking, cancelled, process, requests)
      /\ cancelled \in [Children -> SUBSET Requests]
  BY KnownIs
<1>2. Contents(down') \in [Children -> SUBSET Messages]
  BY ContentsAre DEF PermitsInv, Rest
<1>3. \A c \in Children, r \in Requests :
          Message("identify", r) \in Contents(up')[c] => Message("identify", r) \in Contents(up)[c]
  BY DEF Message
<1>4. Fit(ToSet(pending'), outstanding', Contents(down'), Contents(up'), asking, cancelled, process, requests)
  BY <1>1, <1>2, <1>3, FewerFits
<1> QED
  BY <1>1, <1>4 DEF Fitting

\* A step of the parent that ends by scheduling
LEMMA ScheduledFits ==
    ASSUME UnderstoodInv,
           NEW queue \in Seq(Entries), InOrder(queue, Apart), NEW current, NEW timer, NEW since, NEW unsettled,
           NEW ch \in Channels, DownFine(ch),
           Fit(ToSet(queue), current, Contents(ch), Contents(up'), asking', cancelled', process', requests),
           \A e \in ToSet(queue) : e.request <= requests,
           \A c \in Children : process'[c] = process[c] \/ process'[c] = "none",
           Schedule(queue, current, timer, since, unsettled, ch),
           requests' = requests, cancelled' \in [Children -> SUBSET Requests]
    PROVE  Fitting'
<1>1. coordinated \in BOOLEAN
  BY InvIs DEF UnderstoodInv
<1> DEFINE U == Contents(up')
           k == asking'
           x == cancelled'
           pr == process'
           n == requests
<1>2. /\ Fit(ToSet(queue), current, Contents(ch), U, k, x, pr, n)
      /\ \A e \in ToSet(queue) : e.request <= n
      /\ \A c \in Children : pr[c] = process[c] \/ pr[c] = "none"
  OBVIOUS
<1> HIDE DEF U, k, x, pr, n
<1>3. /\ InOrder(pending', Apart) /\ DownFine(down')
      /\ Fit(ToSet(pending'), outstanding', Contents(down'), U, k, x, pr, n)
  BY <1>1, <1>2, ScheduleFits
<1> QED
  BY <1>3 DEF Fitting, U, k, x, pr, n

\* The outstanding request gives its turn up.
LEMMA GivenUpFits ==
    ASSUME UnderstoodInv, NEW D \in [Children -> SUBSET Messages],
           \A c \in Children : \A m \in D[c] :
               \/ m \in Contents(down)[c]
               \/ m.type \notin {"grant", "denied", "cancelled"} /\ m.request <= requests,
           NEW Q, Q \subseteq ToSet(pending),
           NEW V, \A c \in Children : V[c] \subseteq Contents(up)[c],
           NEW w, w = None \/ w = outstanding
    PROVE  Fit(Q, w, D, V, asking, cancelled, process, requests)
<1>1. Fit(ToSet(pending), outstanding, Contents(down), Contents(up), asking, cancelled, process, requests)
  BY KnownIs
<1>2. \A c \in Children, r \in Requests :
          Message("identify", r) \in V[c] => Message("identify", r) \in Contents(up)[c]
  OBVIOUS
<1> QED
  BY <1>1, <1>2, FewerFits

LEMMA GrantTimerFiresFits ==
    ASSUME UnderstoodInv, GrantTimerFires
    PROVE  Fitting'
<1>1. /\ Schedule(pending, outstanding, FALSE, age, permits, down)
      /\ asking' = asking /\ cancelled' = cancelled /\ process' = process /\ up' = up
      /\ requests' = requests
  BY DEF GrantTimerFires, childVars, history
<1>2. pending \in Seq(Entries) /\ down \in Channels
  BY InvIs DEF UnderstoodInv
<1> QED
  BY <1>1, <1>2, KnownIs, ScheduledFits

\* What the outstanding request is: queued nowhere else, and, before it is granted, expected.
LEMMA CurrentIs ==
    ASSUME UnderstoodInv, outstanding # None
    PROVE  LET c == outstanding.child
               r == outstanding.request
           IN /\ ~Waits(ToSet(pending), Contents(up), c, r)
              /\ ~outstanding.granted =>
                    /\ process[c] # "none"
                    /\ process[c] # "ended" => asking[c] = r \/ r \in cancelled[c]
                    /\ Answers(r) \cap Contents(down)[c] = {}
<1> DEFINE c == outstanding.child
           r == outstanding.request
<1>1. /\ Fit(ToSet(pending), outstanding, Contents(down), Contents(up), asking, cancelled, process, requests)
      /\ c \in Children /\ r \in Requests
  BY KnownIs
<1>2. Has(outstanding, c, r)
  BY DEF Has
<1>3. ~outstanding.granted => Open(ToSet(pending), outstanding, Contents(up), c, r)
  BY <1>2 DEF Open
<1> HIDE DEF c, r
<1>4. /\ ~Waits(ToSet(pending), Contents(up), c, r)
      /\ ~outstanding.granted =>
            /\ process[c] # "none"
            /\ process[c] # "ended" => asking[c] = r \/ r \in cancelled[c]
            /\ Answers(r) \cap Contents(down)[c] = {}
  BY <1>1, <1>2, <1>3 DEF Fit
<1> QED
  BY <1>4 DEF c, r

LEMMA PermitGivenFits ==
    ASSUME UnderstoodInv, NEW r \in permits, PermitGiven(r)
    PROVE  Fitting'
<1>1. /\ pending' = pending /\ up' = up /\ asking' = asking /\ cancelled' = cancelled
      /\ process' = process /\ requests' = requests
  BY DEF PermitGiven, childVars, history
<1>2. CASE ~Current(r)
  <2>1. outstanding' = outstanding /\ down' = down
    BY <1>2 DEF PermitGiven
  <2> QED
    BY <1>1, <2>1, KnownIs DEF Fitting
<1>3. CASE Current(r)
  <2> DEFINE c == outstanding.child
             Q == ToSet(pending)
             U == Contents(up)
             w == [outstanding EXCEPT !.granted = TRUE]
  <2>1. /\ outstanding # None /\ outstanding.request = r
        /\ outstanding' = w /\ down' = Sent(down, c, Message("grant", r))
    BY <1>3 DEF PermitGiven, Current
  <2>2. /\ outstanding \in Outstanding /\ c \in Children /\ r \in Requests /\ r <= requests
    BY <2>1, KnownIs
  <2>3. ~outstanding.granted
    BY <2>1 DEF UnderstoodInv, PermitsInv, Good, NotGranted
  <2>4. w.child = c /\ w.request = r /\ w.granted = TRUE
    BY <2>1, <2>2 DEF Outstanding
  <2>5. /\ ~Waits(Q, U, c, r) /\ process[c] # "none"
        /\ process[c] # "ended" => asking[c] = r \/ r \in cancelled[c]
        /\ Answers(r) \cap Contents(down)[c] = {}
    BY <2>1, <2>3, CurrentIs
  <2>6. /\ Fit(Q, outstanding, Contents(down), U, asking, cancelled, process, requests)
        /\ DownFine(down) /\ Contents(down) \in [Children -> SUBSET Messages]
    BY KnownIs
  <2> HIDE DEF w, Q, U
  <2>7. Fit(Q, w, Contents(down), U, asking, cancelled, process, requests)
    BY <2>1, <2>4, <2>6, FewerFits
  <2>8. ~Open(Q, w, U, c, r) /\ down \in Channels
    BY <2>4, <2>5, InvIs DEF Open, UnderstoodInv
  <2> HIDE DEF c
  <2>9. DownFine(down') /\ Fit(Q, w, Contents(down'), U, asking, cancelled, process, requests)
    BY <2>1, <2>2, <2>5, <2>6, <2>7, <2>8, ReplyFits
  <2> QED
    BY <1>1, <2>1, <2>9, KnownIs DEF Fitting, Q, U
<1> QED
  BY <1>2, <1>3

LEMMA PermitRefusedFits ==
    ASSUME UnderstoodInv, NEW r \in permits, PermitRefused(r)
    PROVE  Fitting'
<1>1. /\ up' = up /\ asking' = asking /\ cancelled' = cancelled
      /\ process' = process /\ requests' = requests
  BY DEF PermitRefused, childVars, history
<1>2. CASE ~Current(r)
  <2>1. outstanding' = outstanding /\ down' = down /\ pending' = pending
    BY <1>2 DEF PermitRefused
  <2> QED
    BY <1>1, <2>1, KnownIs DEF Fitting
<1>3. CASE Current(r)
  <2> DEFINE c == outstanding.child
             Q == ToSet(pending)
             U == Contents(up)
             sent == Sent(down, c, Message("denied", r))
  <2>1. /\ outstanding # None /\ outstanding.request = r
        /\ Schedule(pending, None, grantTimer, age, permits \ {r}, sent)
    BY <1>3 DEF PermitRefused, Current
  <2>2. /\ outstanding \in Outstanding /\ c \in Children /\ r \in Requests /\ r <= requests
    BY <2>1, KnownIs
  <2>3. ~outstanding.granted
    BY <2>1 DEF UnderstoodInv, PermitsInv, Good, NotGranted
  <2>4. /\ ~Waits(Q, U, c, r) /\ process[c] # "none"
        /\ process[c] # "ended" => asking[c] = r \/ r \in cancelled[c]
        /\ Answers(r) \cap Contents(down)[c] = {}
    BY <2>1, <2>3, CurrentIs
  <2>5. /\ DownFine(down) /\ Contents(down) \in [Children -> SUBSET Messages]
        /\ InOrder(pending, Apart) /\ cancelled \in [Children -> SUBSET Requests]
        /\ \A e \in Q : e.request <= requests
    BY KnownIs
  <2>6. down \in Channels /\ pending \in Seq(Entries)
    BY InvIs DEF UnderstoodInv
  <2>7. Fit(Q, None, Contents(down), U, asking, cancelled, process, requests)
    BY <2>5, GivenUpFits
  <2>8. ~Open(Q, None, U, c, r)
    BY <2>4 DEF Open, Has
  <2>9. Message("denied", r) \in Messages
    BY <2>2, PermitsAssumption DEF Message, Messages, Requests
  <2>10. sent \in Channels
    BY <2>2, <2>6, <2>9, SentIs
  <2> HIDE DEF c, Q, U
  <2>11. DownFine(sent) /\ Fit(Q, None, Contents(sent), U, asking, cancelled, process, requests)
    BY <2>2, <2>4, <2>5, <2>6, <2>7, <2>8, ReplyFits
  <2> HIDE DEF sent
  <2> QED
    BY <1>1, <2>1, <2>5, <2>6, <2>10, <2>11, ScheduledFits DEF Q, U
<1> QED
  BY <1>2, <1>3

\* What a parent that listens takes off the channel of a child does not come again.
LEMMA HeardFine ==
    ASSUME UnderstoodInv, NEW c \in Children, NEW type, Hears(c, type), Takes(c)
    PROVE  /\ up[c] # <<>> /\ UpFine(up')
           /\ up'[c] = Tail(up[c]) /\ \A x \in Children : x # c => up'[x] = up[x]
           /\ \A w \in Contents(up')[c] : <<First(up, c), w>> \in UpOrder
           /\ \A x \in Children : Contents(up')[x] \subseteq Contents(up)[x]
           /\ First(up, c) \in Messages /\ First(up, c) \in Contents(up)[c] /\ First(up, c).type = type
           /\ First(up, c) = Message(type, First(up, c).request)
           /\ up \in Channels /\ down \in Channels /\ pending \in Seq(Entries) /\ stopping = FALSE
<1>1. up[c] # <<>> /\ up' = [up EXCEPT ![c] = Tail(@)]
  BY DEF Hears, Takes, Listens
<1>2. up \in Channels /\ down \in Channels /\ pending \in Seq(Entries)
  BY InvIs DEF UnderstoodInv
<1>3. /\ \A x \in Children : InOrder(up'[x], UpOrder)
      /\ \A w \in ToSet(up'[c]) : <<Head(up[c]), w>> \in UpOrder
      /\ up'[c] = Tail(up[c]) /\ \A x \in Children : x # c => up'[x] = up[x]
  <2>1. \A x \in Children : InOrder(up[x], UpOrder)
    BY KnownIs DEF UpFine
  <2>2. /\ up'[c] = Tail(up[c]) /\ \A x \in Children : x # c => up'[x] = up[x]
        /\ up[c] \in Seq(Messages)
    BY <1>1, <1>2 DEF Channels
  <2>3. InOrder(Tail(up[c]), UpOrder) /\ \A w \in ToSet(Tail(up[c])) : <<Head(up[c]), w>> \in UpOrder
    BY <1>1, <2>1, <2>2, TailOrder
  <2> QED
    BY <2>1, <2>2, <2>3
<1>4. /\ \A x \in Children : Contents(up')[x] \subseteq Contents(up)[x]
      /\ First(up, c) \in Messages /\ First(up, c) \in Contents(up)[c] /\ First(up, c).type = type
      /\ First(up, c) = Message(type, First(up, c).request) /\ stopping = FALSE
  BY HeardIs DEF UnderstoodInv
<1>5. \A w \in Contents(up')[c] : <<First(up, c), w>> \in UpOrder
  BY <1>3 DEF Contents, First
<1> QED
  BY <1>1, <1>2, <1>3, <1>4, <1>5 DEF UpFine

\* The request goes from the channel to the queue.
LEMMA QueuedFits ==
    ASSUME NEW Q, NEW o, NEW D, NEW U, NEW k, NEW x, NEW pr, NEW n, Fit(Q, o, D, U, k, x, pr, n),
           NEW c \in Children, NEW r \in Requests, Message("identify", r) \in U[c],
           NEW V, \A z \in Children : V[z] \subseteq U[z], Message("identify", r) \notin V[c]
    PROVE  /\ Fit(Q \cup {[child |-> c, request |-> r]}, o, D, V, k, x, pr, n)
           /\ [child |-> c, request |-> r] \notin Q
<1> DEFINE P == Q \cup {[child |-> c, request |-> r]}
<1>1. ASSUME NEW z \in Children, NEW s \in Requests
      PROVE  /\ Waits(P, V, z, s) => Waits(Q, U, z, s)
             /\ Message("identify", s) \in V[z] => [child |-> z, request |-> s] \notin P
  <2>1. [child |-> z, request |-> s] = [child |-> c, request |-> r] => z = c /\ s = r
    OBVIOUS
  <2> QED
    BY <2>1 DEF Waits, Fit
<1> HIDE DEF P
<1>2. \A z \in Children, s \in Requests :
          /\ Open(P, o, V, z, s) => Open(Q, o, U, z, s)
          /\ Waits(P, V, z, s) => Waits(Q, U, z, s)
          /\ Message("identify", s) \in V[z] => [child |-> z, request |-> s] \notin P
  BY <1>1 DEF Open
<1>3. Fit(P, o, D, V, k, x, pr, n)
  BY <1>2 DEF Fit
<1> QED
  BY <1>3 DEF P, Fit

LEMMA HearsIdentifyFits ==
    ASSUME UnderstoodInv, NEW c \in Children, HearsIdentify(c)
    PROVE  Fitting'
<1> DEFINE r == First(up, c).request
           e == [child |-> c, request |-> r]
           queue == Append(pending, e)
<1>1. /\ up[c] # <<>> /\ \A w \in Contents(up')[c] : <<First(up, c), w>> \in UpOrder
      /\ \A x \in Children : Contents(up')[x] \subseteq Contents(up)[x]
      /\ First(up, c) \in Messages /\ First(up, c) \in Contents(up)[c]
      /\ First(up, c) = Message("identify", r)
      /\ down \in Channels /\ pending \in Seq(Entries)
  BY HeardFine DEF HearsIdentify
<1>2. /\ Schedule(queue, outstanding, grantTimer, age, permits, down)
      /\ asking' = asking /\ cancelled' = cancelled /\ process' = process /\ requests' = requests
  BY DEF HearsIdentify, childVars, history
<1>3. r \in Requests /\ r <= requests
  <2>1. r <= requests /\ r >= 1
    BY <1>1 DEF UnderstoodInv, PermitsInv, Good, Numbered, Message
  <2>2. r \in 0..MaxRequests
    BY <1>1, MessageIs
  <2> QED
    BY <2>1, <2>2, PermitsAssumption DEF Requests
<1>4. Message("identify", r) \notin Contents(up')[c]
  <2>1. First(up, c).type = "identify"
    BY <1>1 DEF Message
  <2>2. <<First(up, c), First(up, c)>> \notin UpOrder
    BY <1>1, <2>1, UpPair
  <2> QED
    BY <1>1, <2>2
<1> HIDE DEF r
<1>5. /\ Fit(ToSet(pending) \cup {e}, outstanding, Contents(down), Contents(up'), asking, cancelled,
             process, requests)
      /\ e \notin ToSet(pending)
  <2>1. Fit(ToSet(pending), outstanding, Contents(down), Contents(up), asking, cancelled, process, requests)
    BY KnownIs
  <2> QED
    BY <1>1, <1>3, <1>4, <2>1, QueuedFits
<1>6. e \in Entries /\ e.request = r
  BY <1>3 DEF Entries
<1> HIDE DEF e
<1>7. queue \in Seq(Entries) /\ ToSet(queue) = ToSet(pending) \cup {e}
  BY <1>1, <1>6, AppendSet
<1>8. InOrder(queue, Apart)
  <2>1. \A m \in ToSet(pending) : <<m, e>> \in Apart
    BY <1>5, <1>6, KnownIs DEF Apart
  <2> QED
    BY <1>1, <1>6, <2>1, KnownIs, AppendOrder
<1> HIDE DEF queue
<1>9. \A m \in ToSet(queue) : m.request <= requests
  BY <1>3, <1>6, <1>7, KnownIs
<1> QED
  BY <1>1, <1>2, <1>5, <1>7, <1>8, <1>9, KnownIs, ScheduledFits

\* A request that its child withdrew is not open after its parent heard so.
LEMMA HearsCancelFits ==
    ASSUME UnderstoodInv, NEW c \in Children, HearsCancel(c)
    PROVE  Fitting'
<1> DEFINE r == First(up, c).request
           m == Message("cancelled", r)
           reply == Sent(down, c, m)
           V == Contents(up')
<1>1. /\ up[c] # <<>> /\ \A w \in V[c] : <<First(up, c), w>> \in UpOrder
      /\ \A x \in Children : V[x] \subseteq Contents(up)[x]
      /\ First(up, c) \in Messages /\ First(up, c) \in Contents(up)[c]
      /\ First(up, c) = Message("cancel", r)
      /\ down \in Channels /\ up \in Channels /\ pending \in Seq(Entries)
  BY HeardFine DEF HearsCancel
<1>2. /\ asking' = asking /\ cancelled' = cancelled /\ process' = process /\ requests' = requests
      /\ IF HoldsRequest(c, r)
         THEN IF outstanding.stalled THEN UNCHANGED <<grantVars, down>>
              ELSE Schedule(pending, None, grantTimer, age, permits, reply)
         ELSE /\ pending' \in Left({[child |-> c, request |-> r]})
              /\ down' = reply /\ outstanding' = outstanding
  BY DEF HearsCancel, childVars, history
<1>3. r \in Requests /\ r <= requests
  <2>1. r <= requests /\ r >= 1
    BY <1>1 DEF UnderstoodInv, PermitsInv, Good, Numbered, Message
  <2>2. r \in 0..MaxRequests
    BY <1>1, MessageIs
  <2> QED
    BY <2>1, <2>2, PermitsAssumption DEF Requests
<1>4. Message("identify", r) \notin V[c]
  <2>1. ASSUME Message("identify", r) \in V[c]
        PROVE  FALSE
    <3>1. <<First(up, c), Message("identify", r)>> \in UpOrder /\ Message("identify", r) \in Messages
      BY <1>1, <2>1, KnownIs
    <3>2. Message("identify", r).type = "identify" /\ Message("identify", r).request = r
      BY DEF Message
    <3> QED
      BY <1>1, <3>1, <3>2, UpPair
  <2> QED
    BY <2>1
<1>5. m \in Messages /\ m.type = "cancelled" /\ m.request = r /\ r # 0
  BY <1>3, PermitsAssumption DEF Message, Messages, Requests
<1> HIDE DEF m
<1>6. /\ reply \in Channels /\ DownFine(reply)
      /\ \A x \in Children : Contents(reply)[x] \subseteq Contents(down)[x] \cup (IF x = c THEN {m} ELSE {})
      /\ Contents(reply) \in [Children -> SUBSET Messages]
  BY <1>1, <1>5, SentIs, SentFine, KnownIs, ContentsAre
<1> HIDE DEF reply, V
<1>7. ASSUME NEW Q, Q \subseteq ToSet(pending), [child |-> c, request |-> r] \notin Q,
             NEW w, w = None \/ w = outstanding, ~Has(w, c, r)
      PROVE  Fit(Q, w, Contents(reply), V, asking, cancelled, process, requests)
  <2>1. Contents(down) \in [Children -> SUBSET Messages]
    BY KnownIs
  <2>2. Fit(Q, w, Contents(down), V, asking, cancelled, process, requests)
    BY <1>1, <1>7, <2>1, GivenUpFits
  <2>3. ~Open(Q, w, V, c, r)
    BY <1>4, <1>7 DEF Open, Waits
  <2> QED
    BY <1>3, <1>5, <1>6, <2>1, <2>2, <2>3, AnsweredFits
<1>8. CASE HoldsRequest(c, r) /\ outstanding.stalled
  <2>1. pending' = pending /\ outstanding' = outstanding /\ down' = down
    BY <1>2, <1>8 DEF grantVars
  <2>2. Contents(down) \in [Children -> SUBSET Messages]
    BY KnownIs
  <2>3. Fit(ToSet(pending), outstanding, Contents(down), V, asking, cancelled, process, requests)
    BY <1>1, <2>2, GivenUpFits
  <2> QED
    BY <1>2, <2>1, <2>3, KnownIs DEF Fitting, V
<1>9. CASE HoldsRequest(c, r) /\ ~outstanding.stalled
  <2>1. Schedule(pending, None, grantTimer, age, permits, reply)
    BY <1>2, <1>9
  <2>2. [child |-> c, request |-> r] \notin ToSet(pending)
    <3>1. outstanding # None /\ outstanding.child = c /\ outstanding.request = r
      BY <1>9 DEF HoldsRequest, Holds
    <3>2. ~Waits(ToSet(pending), Contents(up), c, r)
      BY <3>1, CurrentIs
    <3> QED
      BY <3>2 DEF Waits
  <2>3. Fit(ToSet(pending), None, Contents(reply), V, asking, cancelled, process, requests)
    BY <1>7, <2>2 DEF Has
  <2> QED
    BY <1>1, <1>2, <1>6, <2>1, <2>3, KnownIs, ScheduledFits DEF V
<1>10. CASE ~HoldsRequest(c, r)
  <2>1. /\ pending' \in Left({[child |-> c, request |-> r]})
        /\ down' = reply /\ outstanding' = outstanding
    BY <1>2, <1>10
  <2>2. /\ pending' \in Seq(Entries) /\ ToSet(pending') \subseteq ToSet(pending)
        /\ InOrder(pending', Apart) /\ [child |-> c, request |-> r] \notin ToSet(pending')
    BY <1>1, <2>1, LeftIs, LeftKeeps, KnownIs
  <2>3. ~Has(outstanding, c, r)
    BY <1>10 DEF HoldsRequest, Holds, Has
  <2>4. Fit(ToSet(pending'), outstanding, Contents(reply), V, asking, cancelled, process, requests)
    BY <1>7, <2>2, <2>3
  <2> QED
    BY <1>2, <1>6, <2>1, <2>2, <2>4, KnownIs DEF Fitting, V
<1> QED
  BY <1>8, <1>9, <1>10

LEMMA HearsSentFits ==
    ASSUME UnderstoodInv, NEW c \in Children, HearsSent(c)
    PROVE  Fitting'
<1>1. /\ \A x \in Children : Contents(up')[x] \subseteq Contents(up)[x]
      /\ down \in Channels /\ pending \in Seq(Entries)
  BY HeardFine DEF HearsSent
<1>2. /\ asking' = asking /\ cancelled' = cancelled /\ process' = process /\ requests' = requests
      /\ IF outstanding.stalled THEN UNCHANGED <<grantVars, age, down>>
         ELSE Schedule(pending, None, grantTimer, FromIdentify, permits, down)
  BY DEF HearsSent, childVars, history
<1>3. Contents(down) \in [Children -> SUBSET Messages]
  BY KnownIs
<1>4. CASE outstanding.stalled
  <2>1. pending' = pending /\ outstanding' = outstanding /\ down' = down
    BY <1>2, <1>4 DEF grantVars
  <2>2. Fit(ToSet(pending), outstanding, Contents(down), Contents(up'), asking, cancelled, process, requests)
    BY <1>1, <1>3, GivenUpFits
  <2> QED
    BY <1>2, <2>1, <2>2, KnownIs DEF Fitting
<1>5. CASE ~outstanding.stalled
  <2>1. Schedule(pending, None, grantTimer, FromIdentify, permits, down)
    BY <1>2, <1>5
  <2>2. Fit(ToSet(pending), None, Contents(down), Contents(up'), asking, cancelled, process, requests)
    BY <1>1, <1>3, GivenUpFits
  <2> QED
    BY <1>1, <1>2, <2>1, <2>2, KnownIs, ScheduledFits
<1> QED
  BY <1>4, <1>5

LEMMA HearsOtherFits ==
    ASSUME UnderstoodInv, PermitsInv', NEW c \in Children,
           HearsHello(c) \/ HearsReady(c) \/ HearsEnd(c)
    PROVE  Fitting'
<1> DEFINE assignment == Message("assignment", 0)
<1>1. /\ \A x \in Children : Contents(up')[x] \subseteq Contents(up)[x]
      /\ down \in Channels /\ pending \in Seq(Entries)
  BY HeardFine DEF HearsHello, HearsReady, HearsEnd
<1>2. /\ asking' = asking /\ cancelled' = cancelled /\ process' = process /\ requests' = requests
      /\ pending' = pending /\ outstanding' = outstanding
      /\ down' = down \/ Stops({c}, down) \/ down' = Sent(down, c, assignment)
  BY DEF HearsHello, HearsReady, HearsEnd, childVars, history, grantVars
<1>3. /\ DownFine(down')
      /\ \A x \in Children : \A m \in Contents(down')[x] :
             \/ m \in Contents(down)[x]
             \/ m.type \notin {"grant", "denied", "cancelled"} /\ m.request <= requests
  <2>1. CASE down' = down \/ Stops({c}, down)
    BY <1>1, <2>1, StopsFine, KnownIs
  <2>2. CASE down' = Sent(down, c, assignment)
    <3>1. assignment \in Messages /\ assignment.type = "assignment" /\ assignment.request = 0
      BY PermitsAssumption DEF Message, Messages
    <3> HIDE DEF assignment
    <3>2. DownFine(Sent(down, c, assignment))
      BY <1>1, <3>1, KnownIs, SentFine
    <3>3. \A x \in Children :
              Contents(Sent(down, c, assignment))[x]
                  \subseteq Contents(down)[x] \cup (IF x = c THEN {assignment} ELSE {})
      BY <1>1, <3>1, SentIs
    <3>4. 0 <= requests
      BY KnownIs
    <3> QED
      BY <2>2, <3>1, <3>2, <3>3, <3>4
  <2> QED
    BY <1>2, <2>1, <2>2
<1> QED
  BY <1>1, <1>2, <1>3, KnownIs, QuietFits

LEMMA AckExpiresFits ==
    ASSUME UnderstoodInv, PermitsInv', AckExpires
    PROVE  Fitting'
<1>1. /\ outstanding # None /\ outstanding' = [outstanding EXCEPT !.stalled = TRUE]
      /\ Stops({outstanding.child}, down)
      /\ pending' = pending /\ asking' = asking /\ cancelled' = cancelled /\ process' = process
      /\ requests' = requests /\ up' = up
  BY DEF AckExpires, childVars, history
<1>2. /\ outstanding'.child = outstanding.child /\ outstanding'.request = outstanding.request
      /\ outstanding.granted => outstanding'.granted
  BY <1>1, KnownIs DEF Outstanding
<1>3. down \in Channels
  BY InvIs DEF UnderstoodInv
<1>4. /\ DownFine(down')
      /\ \A x \in Children : \A m \in Contents(down')[x] :
             \/ m \in Contents(down)[x]
             \/ m.type \notin {"grant", "denied", "cancelled"} /\ m.request <= requests
  BY <1>1, <1>3, StopsFine, KnownIs
<1> QED
  BY <1>1, <1>2, <1>4, KnownIs, QuietFits

LEMMA NothingUp ==
    ASSUME up' = [c \in Children |-> <<>>]
    PROVE  \A c \in Children : Contents(up')[c] = {}
BY EmptySet DEF Contents

LEMMA ShutdownFits ==
    ASSUME UnderstoodInv, PermitsInv', BeginsShutdown(Running, outstanding, down),
           UNCHANGED <<restarts, age, childVars, history>>
    PROVE  Fitting'
<1>1. /\ pending' = <<>> /\ up' = [c \in Children |-> <<>>] /\ Stops(Running, down)
      /\ outstanding' = IF outstanding = None \/ Running = {} THEN None
                        ELSE [outstanding EXCEPT !.muted = TRUE]
      /\ asking' = asking /\ cancelled' = cancelled /\ process' = process /\ requests' = requests
  BY DEF BeginsShutdown, childVars, history
<1>2. outstanding' # None => /\ outstanding # None /\ outstanding'.child = outstanding.child
                             /\ outstanding'.request = outstanding.request
                             /\ outstanding.granted => outstanding'.granted
  BY <1>1, KnownIs DEF Outstanding
<1>3. down \in Channels
  BY InvIs DEF UnderstoodInv
<1>4. /\ DownFine(down')
      /\ \A x \in Children : \A m \in Contents(down')[x] :
             \/ m \in Contents(down)[x]
             \/ m.type \notin {"grant", "denied", "cancelled"} /\ m.request <= requests
  BY <1>1, <1>3, StopsFine, KnownIs
<1>5. ToSet(pending') \subseteq ToSet(pending) /\ InOrder(pending', Apart)
  BY <1>1, EmptySet, ShortOrder
<1>6. \A c \in Children : \A m \in Contents(up')[c] : m.type = "identify" => m \in Contents(up)[c]
  BY <1>1, NothingUp
<1> QED
  BY <1>1, <1>2, <1>4, <1>5, <1>6, QuietFits

LEMMA DisconnectsFits ==
    ASSUME UnderstoodInv, PermitsInv', NEW c \in Children, Disconnects(c)
    PROVE  Fitting'
<1>1. /\ up' = [up EXCEPT ![c] = <<>>] /\ down' = down
      /\ asking' = asking /\ cancelled' = cancelled /\ process' = process /\ requests' = requests
      /\ pending' = pending \/ pending' \in Left(RequestsOf(c))
      /\ outstanding' = outstanding
             \/ (outstanding # None /\ outstanding' = [outstanding EXCEPT !.muted = TRUE])
  BY DEF Disconnects, history, Holds
<1>2. up \in Channels /\ down \in Channels /\ pending \in Seq(Entries)
  BY InvIs DEF UnderstoodInv
<1>3. ToSet(pending') \subseteq ToSet(pending) /\ InOrder(pending', Apart)
  BY <1>1, <1>2, LeftIs, LeftKeeps, KnownIs
<1>4. outstanding' # None => /\ outstanding # None /\ outstanding'.child = outstanding.child
                             /\ outstanding'.request = outstanding.request
                             /\ outstanding.granted => outstanding'.granted
  BY <1>1, KnownIs DEF Outstanding
<1>5. \A x \in Children : Contents(up')[x] \subseteq Contents(up)[x]
  BY <1>1, <1>2, ClearedIs
<1> QED
  BY <1>1, <1>3, <1>4, <1>5, KnownIs, QuietFits

LEMMA TickFits ==
    ASSUME UnderstoodInv, Tick
    PROVE  Fitting'
<1>1. /\ pending' = pending /\ outstanding' = outstanding /\ down' = down /\ up' = up
      /\ asking' = asking /\ cancelled' = cancelled /\ process' = process /\ requests' = requests
  BY DEF Tick, childVars, grantVars
<1> QED
  BY <1>1, KnownIs DEF Fitting

\* What an exit leaves is not the child's.
LEMMA ExitLeavesFits ==
    ASSUME UnderstoodInv, NEW c \in Children, Exits(c),
           NEW Q, Q \subseteq ToSet(pending), \A e \in Q : e.child # c,
           NEW w, w # None => /\ outstanding # None /\ outstanding.child # c
                              /\ w.child = outstanding.child /\ w.request = outstanding.request
                              /\ outstanding.granted => w.granted,
           NEW E \in [Children -> SUBSET Messages],
           \A z \in Children : \A m \in E[z] :
               \/ z # c /\ m \in Contents(down)[z]
               \/ m.type \notin {"grant", "denied", "cancelled"} /\ m.request <= requests,
           NEW V, V[c] = {}, \A z \in Children : V[z] \subseteq Contents(up)[z]
    PROVE  Fit(Q, w, E, V, asking', cancelled', process', requests)
<1>1. /\ process' = [process EXCEPT ![c] = "none"]
      /\ asking' = [asking EXCEPT ![c] = 0] /\ cancelled' = [cancelled EXCEPT ![c] = {}]
  BY DEF Exits
<1>2. \A z \in Children : z # c => process'[z] = process[z] /\ asking'[z] = asking[z] /\ cancelled'[z] = cancelled[z]
  BY <1>1, KnownIs, InvIs DEF UnderstoodInv
<1>3. Fit(ToSet(pending), outstanding, Contents(down), Contents(up), asking, cancelled, process, requests)
  BY KnownIs
<1>4. ASSUME NEW r \in Requests, Open(Q, w, V, c, r)
      PROVE  FALSE
  <2>1. [child |-> c, request |-> r] \notin Q
    OBVIOUS
  <2>2. ~Has(w, c, r)
    BY DEF Has
  <2> QED
    BY <1>4, <2>1, <2>2 DEF Open, Waits
<1>5. \A z \in Children, r \in Requests :
          Message("identify", r) \in V[z] => Message("identify", r) \in Contents(up)[z]
  OBVIOUS
<1>6. \A z \in Children, r \in Requests : Open(Q, w, V, z, r) =>
          /\ process[z] # "none" => process'[z] # "none"
          /\ process'[z] # "ended" =>
                /\ process[z] # "ended"
                /\ asking[z] = r \/ r \in cancelled[z] => asking'[z] = r \/ r \in cancelled'[z]
  BY <1>2, <1>4
<1>7. \A z \in Children : \A m \in E[z] :
          m.type \in {"grant", "denied"} /\ (m.request = asking[z] \/ m.request \in cancelled[z])
              => m.request = asking'[z] \/ m.request \in cancelled'[z]
  BY <1>2
<1>8. /\ \A z \in Children : \A m \in E[z] :
             \/ m \in Contents(down)[z]
             \/ m.type \notin {"grant", "denied", "cancelled"} /\ m.request <= requests
      /\ w # None => /\ outstanding # None /\ w.child = outstanding.child /\ w.request = outstanding.request
                     /\ outstanding.granted => w.granted
  OBVIOUS
<1> DEFINE k == asking'
           x == cancelled'
           pr == process'
<1> HIDE DEF k, x, pr
<1>9. Fit(Q, w, E, V, k, x, pr, requests)
  BY <1>3, <1>5, <1>6, <1>7, <1>8, FewerFits DEF k, x, pr
<1> QED
  BY <1>9 DEF k, x, pr

LEMMA ExitsFits ==
    ASSUME UnderstoodInv, PermitsInv', NEW c \in Children, Exits(c)
    PROVE  Fitting'
<1> DEFINE rest == [down EXCEPT ![c] = <<>>]
           current == AfterExit(c)
           left == Running \ {c}
<1>1. requests' = requests /\ cancelled' = [cancelled EXCEPT ![c] = {}]
      /\ process' = [process EXCEPT ![c] = "none"]
  BY DEF Exits, history
<1>2. /\ cancelled' \in [Children -> SUBSET Requests]
      /\ \A z \in Children : process'[z] = process[z] \/ process'[z] = "none"
  BY <1>1, KnownIs, InvIs DEF UnderstoodInv
<1>3. up \in Channels /\ down \in Channels /\ pending \in Seq(Entries)
  BY InvIs DEF UnderstoodInv
<1>4. /\ rest \in Channels /\ Contents(rest)[c] = {}
      /\ \A z \in Children : Contents(rest)[z] \subseteq Contents(down)[z]
  BY <1>3, ClearedIs
<1>5. DownFine(rest)
  <2>1. \A z \in Children : InOrder(down[z], DownOrder)
    BY KnownIs DEF DownFine
  <2>2. \A z \in Children : rest[z] = down[z] \/ rest[z] = <<>>
    BY <1>3 DEF Channels
  <2> QED
    BY <2>1, <2>2, ShortOrder DEF DownFine
<1>6. current # None => /\ current = outstanding /\ outstanding # None /\ outstanding.child # c
                        /\ outstanding \in Outstanding
  BY KnownIs DEF AfterExit, Holds
<1>7. Contents(rest) \in [Children -> SUBSET Messages]
  BY <1>4, ContentsAre
<1> HIDE DEF rest, current
<1>8. CASE /\ stopping
           /\ outstanding' = (IF left = {} THEN None ELSE current)
           /\ down' = rest /\ pending' = pending /\ up' = up
  <2>1. ToSet(pending) = {} /\ \A z \in Children : Contents(up)[z] = {}
    BY <1>8 DEF UnderstoodInv, PermitsInv, Good, Halted
  <2> DEFINE Q == ToSet(pending)
             V == Contents(up)
             w == outstanding'
             E == Contents(rest)
  <2>2. w # None => /\ outstanding # None /\ outstanding.child # c
                    /\ w.child = outstanding.child /\ w.request = outstanding.request
                    /\ outstanding.granted => w.granted
    BY <1>6, <1>8
  <2>3. /\ Q \subseteq ToSet(pending) /\ \A e \in Q : e.child # c
        /\ V[c] = {} /\ \A z \in Children : V[z] \subseteq Contents(up)[z]
    BY <2>1
  <2>4. \A z \in Children : \A m \in E[z] :
            \/ z # c /\ m \in Contents(down)[z]
            \/ m.type \notin {"grant", "denied", "cancelled"} /\ m.request <= requests
    BY <1>4
  <2> HIDE DEF Q, V, w, E
  <2>5. Fit(Q, w, E, V, asking', cancelled', process', requests)
    BY <1>7, <2>2, <2>3, <2>4, ExitLeavesFits DEF E
  <2> QED
    BY <1>1, <1>2, <1>5, <1>8, <2>5, KnownIs DEF Fitting, Q, V, w, E
<1>9. CASE BeginsShutdown(left, current, rest)
  <2>1. /\ pending' = <<>> /\ up' = [z \in Children |-> <<>>] /\ Stops(left, rest)
        /\ outstanding' = IF current = None \/ left = {} THEN None ELSE [current EXCEPT !.muted = TRUE]
    BY <1>9 DEF BeginsShutdown
  <2>2. ToSet(pending') = {} /\ InOrder(pending', Apart) /\ \A z \in Children : Contents(up')[z] = {}
    BY <2>1, EmptySet, ShortOrder, NothingUp
  <2> DEFINE Q == ToSet(pending')
             V == Contents(up')
             w == outstanding'
             E == Contents(down')
  <2>3. w # None => /\ outstanding # None /\ outstanding.child # c
                    /\ w.child = outstanding.child /\ w.request = outstanding.request
                    /\ outstanding.granted => w.granted
    BY <1>6, <2>1 DEF Outstanding
  <2>4. /\ Q \subseteq ToSet(pending) /\ \A e \in Q : e.child # c
        /\ V[c] = {} /\ \A z \in Children : V[z] \subseteq Contents(up)[z]
    BY <2>2
  <2>5. /\ DownFine(down')
        /\ \A z \in Children : \A m \in E[z] :
               m \in Contents(rest)[z] \/ (m.type = "shutdown" /\ m.request = 0)
    BY <1>4, <1>5, <2>1, StopsFine
  <2>6. \A z \in Children : \A m \in E[z] :
            \/ z # c /\ m \in Contents(down)[z]
            \/ m.type \notin {"grant", "denied", "cancelled"} /\ m.request <= requests
    BY <1>4, <2>5, KnownIs
  <2>7. E \in [Children -> SUBSET Messages]
    BY ContentsAre DEF PermitsInv, Rest
  <2> HIDE DEF Q, V, w, E
  <2>8. Fit(Q, w, E, V, asking', cancelled', process', requests)
    BY <2>3, <2>4, <2>6, <2>7, ExitLeavesFits
  <2> QED
    BY <1>1, <1>2, <2>2, <2>5, <2>8 DEF Fitting, Q, V, w, E
<1>10. ASSUME up' = [up EXCEPT ![c] = <<>>],
              NEW queue \in Left(RequestsOf(c)),
              Schedule(queue, current, grantTimer, SinceExit(c), permits, rest)
       PROVE  Fitting'
  <2> DEFINE Q == ToSet(queue)
             V == Contents(up')
             E == Contents(rest)
  <2>1. /\ queue \in Seq(Entries) /\ Q \subseteq ToSet(pending) /\ InOrder(queue, Apart)
        /\ \A e \in Q : e \notin RequestsOf(c)
    BY <1>3, LeftIs, LeftKeeps, KnownIs
  <2>2. \A e \in Q : e.child # c
    BY <2>1 DEF RequestsOf
  <2>3. V[c] = {} /\ \A z \in Children : V[z] \subseteq Contents(up)[z]
    BY <1>3, <1>10, ClearedIs
  <2>4. \A z \in Children : \A m \in E[z] :
            \/ z # c /\ m \in Contents(down)[z]
            \/ m.type \notin {"grant", "denied", "cancelled"} /\ m.request <= requests
    BY <1>4
  <2>5. current # None => /\ outstanding # None /\ outstanding.child # c
                          /\ current.child = outstanding.child /\ current.request = outstanding.request
                          /\ outstanding.granted => current.granted
    BY <1>6
  <2>6. \A e \in Q : e.request <= requests
    BY <2>1, KnownIs
  <2> HIDE DEF Q, V, E
  <2>7. Fit(Q, current, E, V, asking', cancelled', process', requests)
    BY <1>7, <2>1, <2>2, <2>3, <2>4, <2>5, ExitLeavesFits DEF E
  <2> QED
    BY <1>1, <1>2, <1>4, <1>5, <1>10, <2>1, <2>6, <2>7, ScheduledFits DEF Q, V, E
<1> QED
  BY <1>8, <1>9, <1>10 DEF Exits, rest, current

\* A step of a child that asks for nothing: what is open or under way to it is still expected.
LEMMA ChildFits ==
    ASSUME UnderstoodInv, PermitsInv', pending' = pending, outstanding' = outstanding, requests' = requests,
           \A z \in Children : \A m \in Contents(up')[z] : m.type = "identify" => m \in Contents(up)[z],
           DownFine(down'), \A z \in Children : Contents(down')[z] \subseteq Contents(down)[z],
           cancelled' \in [Children -> SUBSET Requests],
           \A z \in Children : process[z] # "none" => process'[z] # "none",
           \A z \in Children, r \in Requests :
               process'[z] # "ended" /\ Answers(r) \cap Contents(down)[z] = {} =>
                   /\ process[z] # "ended"
                   /\ asking[z] = r \/ r \in cancelled[z] => asking'[z] = r \/ r \in cancelled'[z],
           \A z \in Children : \A m \in Contents(down')[z] :
               m.type \in {"grant", "denied"} /\ (m.request = asking[z] \/ m.request \in cancelled[z])
                   => m.request = asking'[z] \/ m.request \in cancelled'[z]
    PROVE  Fitting'
<1>1. /\ Fit(ToSet(pending), outstanding, Contents(down), Contents(up), asking, cancelled, process, requests)
      /\ InOrder(pending, Apart)
  BY KnownIs
<1>2. Contents(down') \in [Children -> SUBSET Messages]
  BY ContentsAre DEF PermitsInv, Rest
<1> DEFINE Q == ToSet(pending)
           o == outstanding
           U == Contents(up)
           V == Contents(up')
           D == Contents(down)
           E == Contents(down')
           k == asking'
           x == cancelled'
           pr == process'
<1>3. \A z \in Children, r \in Requests :
          Message("identify", r) \in V[z] => Message("identify", r) \in U[z]
  BY DEF Message
<1>4. \A z \in Children, r \in Requests : Open(Q, o, V, z, r) => Open(Q, o, U, z, r)
  BY <1>3 DEF Open, Waits
<1>5. \A z \in Children, r \in Requests : Open(Q, o, V, z, r) =>
          /\ process[z] # "none" => pr[z] # "none"
          /\ pr[z] # "ended" => /\ process[z] # "ended"
                                /\ asking[z] = r \/ r \in cancelled[z] => k[z] = r \/ r \in x[z]
  <2>1. \A z \in Children, r \in Requests : Open(Q, o, U, z, r) => Answers(r) \cap D[z] = {}
    BY <1>1 DEF Fit
  <2> HIDE DEF Q, o, U, V, D
  <2> QED
    BY <1>4, <2>1 DEF D
<1>6. /\ \A z \in Children : \A m \in E[z] :
             m.type \in {"grant", "denied"} /\ (m.request = asking[z] \/ m.request \in cancelled[z])
                 => m.request = k[z] \/ m.request \in x[z]
      /\ \A z \in Children : \A m \in E[z] :
             m \in D[z] \/ (m.type \notin {"grant", "denied", "cancelled"} /\ m.request <= requests)
  OBVIOUS
<1> HIDE DEF Q, o, U, V, D, E, k, x, pr
<1>7. Fit(Q, o, E, V, k, x, pr, requests)
  BY <1>1, <1>2, <1>3, <1>5, <1>6, FewerFits DEF Q, o, U, D, E
<1> QED
  BY <1>1, <1>7 DEF Fitting, Q, o, V, E, k, x, pr

LEMMA SpawnsFits ==
    ASSUME UnderstoodInv, PermitsInv', NEW c \in Children, Spawns(c)
    PROVE  Fitting'
<1>1. /\ pending' = pending /\ outstanding' = outstanding /\ requests' = requests
      /\ up' = up /\ down' = down /\ asking' = asking /\ cancelled' = cancelled
      /\ process' = [process EXCEPT ![c] = "booting"] /\ slot[c] = "restarting"
  BY DEF Spawns, grantVars, history
<1>2. process[c] = "none"
  BY <1>1 DEF UnderstoodInv, Handshaken, Shook
<1>3. \A z \in Children : process'[z] = IF z = c THEN "booting" ELSE process[z]
  BY <1>1, InvIs DEF UnderstoodInv
<1> QED
  BY <1>1, <1>2, <1>3, KnownIs, ChildFits

\* A child that starts, or that is told what to run or to stop
LEMMA ProcessFits ==
    ASSUME UnderstoodInv, PermitsInv', NEW c \in Children,
           Greets(c) \/ Boots(c) \/ TakesAssignment(c) \/ ToldToStop(c)
    PROVE  Fitting'
<1>1. /\ pending' = pending /\ outstanding' = outstanding /\ requests' = requests
      /\ asking' = asking /\ cancelled' = cancelled
      /\ process[c] \notin {"none", "ended"}
      /\ \E step \in {"greeting", "assigned", "on", "stopping"} : process' = [process EXCEPT ![c] = step]
  BY DEF Greets, Boots, TakesAssignment, ToldToStop, Told, Reads, Bridged, ChildUnchanged, grantVars, history
<1>2. up \in Channels /\ down \in Channels
  BY InvIs DEF UnderstoodInv
<1>3. \A z \in Children : process'[z] = process[z] \/ (z = c /\ process'[z] \notin {"none", "ended"})
  BY <1>1, InvIs DEF UnderstoodInv
<1>4. \A z \in Children : \A m \in Contents(up')[z] : m.type = "identify" => m \in Contents(up)[z]
  <2>1. ASSUME NEW type \in {"hello", "ready"}, Tells(c, <<Message(type, 0)>>)
        PROVE  \A z \in Children : \A m \in Contents(up')[z] : m.type = "identify" => m \in Contents(up)[z]
    <3>1. Message(type, 0) \in Messages /\ Message(type, 0).type = type
      BY PermitsAssumption DEF Message, Messages
    <3>2. /\ <<Message(type, 0)>> \in Seq(Messages)
          /\ ToSet(<<Message(type, 0)>>) = {Message(type, 0)}
      BY <3>1, OneMessage
    <3> HIDE DEF Message
    <3>3. \A z \in Children : \A m \in Contents(up')[z] :
              m \in Contents(up)[z] \/ (z = c /\ m \in ToSet(<<Message(type, 0)>>))
      BY <1>2, <2>1, <3>2, TellsIs
    <3> QED
      BY <3>1, <3>2, <3>3
  <2>2. CASE TakesAssignment(c) \/ ToldToStop(c)
    BY <2>2 DEF TakesAssignment, ToldToStop
  <2> QED
    BY <2>1, <2>2 DEF Greets, Boots
<1>5. DownFine(down') /\ \A z \in Children : Contents(down')[z] \subseteq Contents(down)[z]
  <2>1. CASE down' = down
    BY <2>1, KnownIs
  <2>2. CASE down[c] # <<>> /\ down' = [down EXCEPT ![c] = Tail(@)]
    <3>1. \A z \in Children : InOrder(down[z], DownOrder)
      BY KnownIs DEF DownFine
    <3>2. \A z \in Children : InOrder(down'[z], DownOrder)
      BY <1>2, <2>2, <3>1, TakenFine
    <3> QED
      BY <1>2, <2>2, <3>2, ShorterIs DEF DownFine
  <2> QED
    BY <2>1, <2>2 DEF Greets, Boots, TakesAssignment, ToldToStop, Told, Reads
<1> QED
  BY <1>1, <1>3, <1>4, <1>5, KnownIs, ChildFits

LEMMA WithdrawsFits ==
    ASSUME UnderstoodInv, PermitsInv', NEW c \in Children, Withdraws(c)
    PROVE  Fitting'
<1>1. /\ pending' = pending /\ outstanding' = outstanding /\ requests' = requests
      /\ process' = process /\ down' = down /\ asking[c] # 0
      /\ asking' = [asking EXCEPT ![c] = 0]
      /\ cancelled' = [cancelled EXCEPT ![c] = @ \cup {asking[c]}]
      /\ Tells(c, <<Message("cancel", asking[c])>>)
  BY DEF Withdraws, ChildUnchanged, grantVars, history
<1>2. up \in Channels /\ asking \in [Children -> 0..MaxRequests] /\ cancelled \in [Children -> SUBSET Requests]
  BY InvIs, KnownIs DEF UnderstoodInv
<1>3. asking[c] \in Requests
  BY <1>1, <1>2, PermitsAssumption DEF Requests
<1>4. /\ cancelled' \in [Children -> SUBSET Requests]
      /\ \A z \in Children : z # c => asking'[z] = asking[z] /\ cancelled'[z] = cancelled[z]
      /\ cancelled'[c] = cancelled[c] \cup {asking[c]}
  BY <1>1, <1>2, <1>3
<1>5. \A z \in Children : \A m \in Contents(up')[z] : m.type = "identify" => m \in Contents(up)[z]
  <2>1. Message("cancel", asking[c]) \in Messages /\ Message("cancel", asking[c]).type = "cancel"
    BY <1>2, CancelIs DEF Message, UnderstoodInv
  <2>2. /\ <<Message("cancel", asking[c])>> \in Seq(Messages)
        /\ ToSet(<<Message("cancel", asking[c])>>) = {Message("cancel", asking[c])}
    BY <2>1, OneMessage
  <2>3. \A z \in Children : \A m \in Contents(up')[z] :
            m \in Contents(up)[z] \/ (z = c /\ m \in ToSet(<<Message("cancel", asking[c])>>))
    BY <1>1, <1>2, <2>2, TellsIs
  <2> QED
    BY <2>1, <2>2, <2>3
<1>6. \A z \in Children : \A r : asking[z] = r \/ r \in cancelled[z] => asking'[z] = r \/ r \in cancelled'[z]
  BY <1>4
<1> QED
  BY <1>1, <1>4, <1>5, <1>6, KnownIs, ChildFits

\* A child whose bridge closes expects nothing any more, and nothing reaches it.
LEMMA EndsFits ==
    ASSUME UnderstoodInv, PermitsInv', NEW c \in Children,
           Closes(c) \/ LosesParent(c) \/ MistakesShutdown(c)
    PROVE  Fitting'
<1>1. /\ pending' = pending /\ outstanding' = outstanding /\ requests' = requests
      /\ process[c] # "none"
      /\ process' = [process EXCEPT ![c] = "ended"]
      /\ asking' = [asking EXCEPT ![c] = 0] /\ cancelled' = [cancelled EXCEPT ![c] = {}]
      /\ down' = [down EXCEPT ![c] = <<>>]
  BY DEF Closes, LosesParent, MistakesShutdown, Ends, Bridged, Reads, ChildUnchanged, grantVars, history
<1>2. /\ up \in Channels /\ down \in Channels /\ asking \in [Children -> 0..MaxRequests]
      /\ cancelled \in [Children -> SUBSET Requests] /\ process \in [Children -> Processes]
  BY InvIs, KnownIs DEF UnderstoodInv, Processes
<1>3. /\ cancelled' \in [Children -> SUBSET Requests]
      /\ \A z \in Children : z # c =>
             asking'[z] = asking[z] /\ cancelled'[z] = cancelled[z] /\ process'[z] = process[z]
      /\ process'[c] = "ended"
  BY <1>1, <1>2
<1>4. /\ DownFine(down') /\ \A z \in Children : Contents(down')[z] \subseteq Contents(down)[z]
      /\ Contents(down')[c] = {}
  <2>1. \A z \in Children : InOrder(down[z], DownOrder)
    BY KnownIs DEF DownFine
  <2>2. \A z \in Children : down'[z] = down[z] \/ down'[z] = <<>>
    BY <1>1, <1>2 DEF Channels
  <2>3. DownFine(down')
    BY <2>1, <2>2, ShortOrder DEF DownFine
  <2> QED
    BY <1>1, <1>2, <2>3, ClearedIs
<1>5. \A z \in Children : \A m \in Contents(up')[z] : m.type = "identify" => m \in Contents(up)[z]
  <2>1. CASE LosesParent(c) \/ MistakesShutdown(c) \/ (Closes(c) /\ process[c] = "greeting")
    BY <2>1 DEF LosesParent, MistakesShutdown, Closes
  <2>2. CASE Closes(c) /\ process[c] # "greeting"
    <3> DEFINE closed == Message("closed", 0)
               cancel == Message("cancel", asking[c])
               last == IF asking[c] = 0 THEN <<>> ELSE <<cancel>>
    <3>1. /\ closed \in Messages /\ cancel \in Messages /\ closed.type = "closed" /\ cancel.type = "cancel"
      BY CancelIs, ControlIs DEF Message, UnderstoodInv
    <3>2. Tells(c, <<closed>> \o last)
      BY <2>2 DEF Closes
    <3> HIDE DEF closed, cancel
    <3>3. /\ <<closed>> \in Seq(Messages) /\ last \in Seq(Messages)
          /\ ToSet(<<closed>>) = {closed} /\ ToSet(last) \subseteq {cancel}
      <4>1. /\ <<closed>> \in Seq(Messages) /\ ToSet(<<closed>>) = {closed}
            /\ <<cancel>> \in Seq(Messages) /\ ToSet(<<cancel>>) = {cancel}
        BY <3>1, OneMessage
      <4>2. last = <<>> \/ last = <<cancel>>
        OBVIOUS
      <4>3. <<>> \in Seq(Messages)
        OBVIOUS
      <4> HIDE DEF last
      <4> QED
        BY <4>1, <4>2, <4>3, EmptySet
    <3> HIDE DEF last
    <3>4. <<closed>> \o last \in Seq(Messages) /\ ToSet(<<closed>> \o last) \subseteq {closed, cancel}
      BY <3>3, ConcatSet
    <3>5. \A z \in Children : \A m \in Contents(up')[z] :
              m \in Contents(up)[z] \/ (z = c /\ m \in ToSet(<<closed>> \o last))
      BY <1>2, <3>2, <3>4, TellsIs
    <3> QED
      BY <3>1, <3>4, <3>5
  <2> QED
    BY <2>1, <2>2
<1> QED
  BY <1>1, <1>3, <1>4, <1>5, KnownIs, ChildFits

\* An answer that is read is not followed by another to the same request.
LEMMA ReadsFits ==
    ASSUME UnderstoodInv, PermitsInv', NEW c \in Children, Identifies(c) \/ Answered(c)
    PROVE  Fitting'
<1> DEFINE head == First(down, c)
           r == head.request
<1>1. PICK type \in {"grant", "denied", "cancelled"} : Told(c, type)
  BY DEF Identifies, Answered
<1>2. /\ pending' = pending /\ outstanding' = outstanding /\ requests' = requests /\ process' = process
      /\ asking' = asking \/ (asking[c] = r /\ asking' = [asking EXCEPT ![c] = 0])
      /\ cancelled' = cancelled \/ cancelled' = [cancelled EXCEPT ![c] = @ \ {r}]
      /\ up' = up \/ Tells(c, <<Message("sent", r)>>)
  BY DEF Identifies, Answered, Told, history
<1>3. /\ down[c] # <<>> /\ down' = [down EXCEPT ![c] = Tail(@)] /\ head = Head(down[c])
      /\ head.type = type
  BY <1>1 DEF Told, Reads, First
<1>4. /\ up \in Channels /\ down \in Channels /\ asking \in [Children -> 0..MaxRequests]
      /\ cancelled \in [Children -> SUBSET Requests]
  BY InvIs, KnownIs DEF UnderstoodInv
<1>5. /\ \A z \in Children : Contents(down')[z] \subseteq Contents(down)[z]
      /\ head \in Messages /\ head \in Contents(down)[c]
  BY <1>3, <1>4, ShorterIs
<1>6. DownFine(down') /\ \A w \in Contents(down')[c] : <<head, w>> \in DownOrder
  <2>1. \A z \in Children : InOrder(down[z], DownOrder)
    BY KnownIs DEF DownFine
  <2>2. /\ down'[c] = Tail(down[c]) /\ \A z \in Children : z # c => down'[z] = down[z]
        /\ down[c] \in Seq(Messages)
    BY <1>3, <1>4 DEF Channels
  <2>3. InOrder(Tail(down[c]), DownOrder) /\ \A w \in ToSet(Tail(down[c])) : <<Head(down[c]), w>> \in DownOrder
    BY <1>3, <2>1, <2>2, TailOrder
  <2> QED
    BY <1>3, <2>1, <2>2, <2>3 DEF DownFine, Contents
<1> HIDE DEF head
<1>7. \A w \in Contents(down')[c] : w.type \in {"grant", "denied"} => w.request # r
  <2>1. Contents(down') \in [Children -> SUBSET Messages]
    BY ContentsAre DEF PermitsInv, Rest
  <2> QED
    BY <1>3, <1>5, <1>6, <2>1, DownPair
<1>8. head \in Answers(r)
  BY <1>3, <1>5, AnswersAre
<1>9. /\ cancelled' \in [Children -> SUBSET Requests]
      /\ \A z \in Children : z # c => asking'[z] = asking[z] /\ cancelled'[z] = cancelled[z]
      /\ \A s : s # r /\ (asking[c] = s \/ s \in cancelled[c]) => asking'[c] = s \/ s \in cancelled'[c]
  BY <1>2, <1>4
<1>10. \A z \in Children : \A m \in Contents(up')[z] : m.type = "identify" => m \in Contents(up)[z]
  <2>1. CASE Tells(c, <<Message("sent", r)>>)
    <3>1. Message("sent", r) \in Messages /\ Message("sent", r).type = "sent"
      BY <1>5, MessageIs DEF Message, Messages
    <3>2. /\ <<Message("sent", r)>> \in Seq(Messages)
          /\ ToSet(<<Message("sent", r)>>) = {Message("sent", r)}
      BY <3>1, OneMessage
    <3>3. \A z \in Children : \A m \in Contents(up')[z] :
              m \in Contents(up)[z] \/ (z = c /\ m \in ToSet(<<Message("sent", r)>>))
      BY <1>4, <2>1, <3>2, TellsIs
    <3> QED
      BY <3>1, <3>2, <3>3
  <2> QED
    BY <1>2, <2>1
<1>11. \A z \in Children, s \in Requests :
           process'[z] # "ended" /\ Answers(s) \cap Contents(down)[z] = {} =>
               /\ process[z] # "ended"
               /\ asking[z] = s \/ s \in cancelled[z] => asking'[z] = s \/ s \in cancelled'[z]
  BY <1>2, <1>5, <1>8, <1>9
<1>12. \A z \in Children : \A m \in Contents(down')[z] :
           m.type \in {"grant", "denied"} /\ (m.request = asking[z] \/ m.request \in cancelled[z])
               => m.request = asking'[z] \/ m.request \in cancelled'[z]
  BY <1>7, <1>9
<1>13. \A z \in Children : process[z] # "none" => process'[z] # "none"
  BY <1>2
<1> QED
  BY <1>2, <1>5, <1>6, <1>9, <1>10, <1>11, <1>12, <1>13, ChildFits

\* A request that is made is new.
LEMMA AsksFits ==
    ASSUME UnderstoodInv, NEW c \in Children, Asks(c)
    PROVE  Fitting'
<1> DEFINE n == requests + 1
           m == Message("identify", n)
           Q == ToSet(pending)
           o == outstanding
           D == Contents(down)
           U == Contents(up)
           V == Contents(up')
           k == asking'
<1>1. /\ pending' = pending /\ outstanding' = outstanding /\ down' = down /\ cancelled' = cancelled
      /\ process' = process /\ process[c] = "on" /\ asking[c] = 0 /\ requests' = n
      /\ k = [asking EXCEPT ![c] = n] /\ Tells(c, <<m>>) /\ requests < MaxRequests
  BY DEF Asks, ChildUnchanged, grantVars
<1>2. /\ up \in Channels /\ asking \in [Children -> 0..MaxRequests] /\ requests \in Nat
      /\ n \in Requests /\ ~(n <= requests) /\ \A i \in Int : i <= requests => i <= n
      /\ cancelled \in [Children -> SUBSET Requests]
      /\ Fit(Q, o, D, U, asking, cancelled, process, requests)
      /\ InOrder(pending, Apart) /\ DownFine(down)
      /\ D \in [Children -> SUBSET Messages]
  BY <1>1, InvIs, KnownIs, PermitsAssumption DEF UnderstoodInv, Requests
<1>3. k[c] = n /\ \A z \in Children : z # c => k[z] = asking[z]
  BY <1>1, <1>2
<1>4. m \in Messages
  BY <1>2, PermitsAssumption DEF Message, Messages, Requests
<1>5. \A z \in Children : \A w \in V[z] : w \in U[z] \/ (z = c /\ w = m)
  <2>1. <<m>> \in Seq(Messages) /\ ToSet(<<m>>) = {m}
    BY <1>4, OneMessage
  <2> HIDE DEF m
  <2>2. \A z \in Children : \A w \in Contents(up')[z] : w \in Contents(up)[z] \/ (z = c /\ w \in ToSet(<<m>>))
    BY <1>1, <1>2, <2>1, TellsIs
  <2> QED
    BY <2>1, <2>2
<1>6. /\ \A e \in Q : e.request <= requests
      /\ o # None => o.request <= requests
      /\ \A z \in Children : \A w \in D[z] : w.request <= requests
      /\ \A z \in Children : \A w \in U[z] : w.request <= requests
      /\ o # None => o.request \in Nat
      /\ \A z \in Children : \A w \in D[z] : w \in Messages
  BY <1>2, KnownIs DEF Fit, Requests
<1> HIDE DEF m, Q, o, D, U, V, k, n
<1>7. ASSUME NEW z \in Children, NEW r \in Requests
      PROVE  /\ Waits(Q, V, z, r) => Waits(Q, U, z, r) \/ (z = c /\ r = n)
             /\ Waits(Q, U, z, r) /\ r = n => FALSE
             /\ Has(o, z, r) /\ r = n => FALSE
             /\ Message("identify", r) \in V[z] => Message("identify", r) \in U[z] \/ (z = c /\ r = n)
             /\ [child |-> z, request |-> r] \in Q /\ r = n => FALSE
  <2>1. Message("identify", r) \in V[z] => Message("identify", r) \in U[z] \/ (z = c /\ r = n)
    BY <1>5 DEF Message, m
  <2>2. [child |-> z, request |-> r] \in Q /\ r = n => FALSE
    BY <1>2, <1>6
  <2>3. Message("identify", r) \in U[z] /\ r = n => FALSE
    BY <1>2, <1>6 DEF Message
  <2>4. Has(o, z, r) /\ r = n => FALSE
    BY <1>2, <1>6 DEF Has
  <2> QED
    BY <2>1, <2>2, <2>3, <2>4 DEF Waits
<1>8. Answers(n) \cap D[c] = {}
  <2> SUFFICES ASSUME NEW w \in D[c], w \in Answers(n)
               PROVE  FALSE
    OBVIOUS
  <2>1. w \in Messages /\ w.request <= requests
    BY <1>6
  <2>2. w.request = n
    BY <2>1, AnswersAre
  <2> QED
    BY <1>2, <2>1, <2>2, Zenon
<1>9. ASSUME NEW z \in Children, NEW r \in Requests, Open(Q, o, V, z, r)
      PROVE  /\ process[z] # "none"
             /\ process[z] # "ended" => k[z] = r \/ r \in cancelled[z]
             /\ Answers(r) \cap D[z] = {}
  <2>1. CASE z = c /\ r = n
    BY <1>1, <1>3, <1>8, <2>1
  <2>2. CASE ~(z = c /\ r = n)
    <3>1. Open(Q, o, U, z, r)
      BY <1>7, <1>9, <2>2 DEF Open
    <3>2. /\ process[z] # "none"
          /\ process[z] # "ended" => asking[z] = r \/ r \in cancelled[z]
          /\ Answers(r) \cap D[z] = {}
      BY <1>2, <3>1 DEF Fit
    <3>3. asking[z] = r => k[z] = r
      BY <1>1, <1>3, PermitsAssumption DEF Requests
    <3> QED
      BY <3>2, <3>3
  <2> QED
    BY <2>1, <2>2
<1>10. ASSUME NEW z \in Children, NEW r \in Requests
       PROVE  /\ Has(o, z, r) => ~Waits(Q, V, z, r)
              /\ Message("identify", r) \in V[z] => [child |-> z, request |-> r] \notin Q
  BY <1>2, <1>7 DEF Fit
<1>11. ASSUME NEW z \in Children, NEW w \in D[z]
       PROVE  /\ w.request <= n
              /\ w.type \in {"grant", "denied"} => w.request # 0 /\ (w.request = k[z] \/ w.request \in cancelled[z])
  <2>1. w.request <= requests /\ w \in Messages
    BY <1>6
  <2>2. w.request <= n
    <3>1. w.request \in Int
      BY <2>1, MessageIs
    <3> QED
      BY <1>2, <2>1, <3>1
  <2>3. w.type \in {"grant", "denied"} =>
            w.request # 0 /\ (w.request = asking[z] \/ w.request \in cancelled[z])
    BY <1>2 DEF Fit
  <2> QED
    BY <1>1, <1>3, <2>2, <2>3
<1> QED
  BY <1>1, <1>2, <1>9, <1>10, <1>11 DEF Fitting, Fit, Q, o, D, V, k

\* Every step keeps requests and answers together.
LEMMA FittingKept ==
    ASSUME UnderstoodInv, PermitsInv', Next
    PROVE  Fitting'
<1>1. CASE GrantTimerFires \/ AckExpires \/ Tick
  BY <1>1, GrantTimerFiresFits, AckExpiresFits, TickFits
<1>2. CASE ShutDown \/ \E c \in Children : StartupExpires(c) \/ DisconnectExpires(c)
  <2>1. /\ BeginsShutdown(Running, outstanding, down) /\ UNCHANGED <<restarts, age, childVars, history>>
    BY <1>2 DEF ShutDown, StartupExpires, DisconnectExpires
  <2> QED
    BY <2>1, ShutdownFits
<1>3. ASSUME NEW r \in permits, Settling(r)
      PROVE  Fitting'
  BY <1>3, PermitGivenFits, PermitRefusedFits DEF Settling
<1>4. ASSUME NEW c \in Children, Disconnects(c) \/ Exits(c) \/ Spawns(c)
      PROVE  Fitting'
  BY <1>4, DisconnectsFits, ExitsFits, SpawnsFits
<1>5. ASSUME NEW c \in Children, Hearing(c)
      PROVE  Fitting'
  BY <1>5, HearsIdentifyFits, HearsCancelFits, HearsSentFits, HearsOtherFits DEF Hearing
<1>6. ASSUME NEW c \in Children, ChildMoves(c)
      PROVE  Fitting'
  BY <1>6, ProcessFits, AsksFits, WithdrawsFits, EndsFits, ReadsFits DEF ChildMoves
<1> QED
  BY <1>1, <1>2, <1>3, <1>4, <1>5, <1>6 DEF Next

-----------------------------------------------------------------------------
(* What children tell, in its order *)

LEMMA TellsFine ==
    ASSUME UnderstoodInv, NEW c \in Children, NEW messages \in Seq(Messages), Tells(c, messages),
           InOrder(messages, UpOrder),
           c \in linked /\ ~stopping =>
               \A m \in ToSet(up[c]), w \in ToSet(messages) : <<m, w>> \in UpOrder
    PROVE  UpFine(up')
<1>1. up \in Channels
  BY InvIs DEF UnderstoodInv
<1>2. /\ \A x \in Children : x # c => up'[x] = up[x]
      /\ up'[c] = up[c] \/ (c \in linked /\ ~stopping /\ up'[c] = up[c] \o messages)
  BY <1>1, TellsExact
<1>3. up[c] \in Seq(Messages) /\ \A x \in Children : InOrder(up[x], UpOrder)
  BY <1>1, KnownIs DEF Channels, UpFine
<1>4. c \in linked /\ ~stopping => InOrder(up[c] \o messages, UpOrder)
  BY <1>3, ConcatOrder
<1> QED
  BY <1>2, <1>3, <1>4 DEF UpFine

\* What the parent has not read of a child it does not ask, report or withdraw again.
LEMMA ToldBefore ==
    ASSUME UnderstoodInv, NEW c \in Children, NEW m \in ToSet(up[c])
    PROVE  /\ m \in Messages /\ m.request <= requests
           /\ m.type \in {"sent", "cancel"} => m.request # asking[c]
<1>1. Contents(up)[c] = ToSet(up[c])
  BY DEF Contents
<1>2. m \in Messages /\ m.request <= requests
  BY <1>1, KnownIs
<1>3. m.type \in {"sent", "cancel"} => m.request # asking[c]
  BY <1>1 DEF UnderstoodInv, PermitsInv, Good, NotWaiting
<1> QED
  BY <1>2, <1>3

LEMMA OneFine ==
    ASSUME UnderstoodInv, NEW c \in Children, NEW w \in Messages, Tells(c, <<w>>),
           w.type \in {"cancel", "sent"} => w.request = asking[c],
           w.type = "identify" => w.request = requests + 1,
           w.type \in {"hello", "ready"} => process[c] \in {"booting", "assigned"}
    PROVE  UpFine(up')
<1>1. <<w>> \in Seq(Messages) /\ ToSet(<<w>>) = {w} /\ InOrder(<<w>>, UpOrder)
  BY OneMessage, ShortOrder
<1>2. ASSUME NEW m \in ToSet(up[c]), c \in linked, ~stopping
      PROVE  <<m, w>> \in UpOrder
  <2>1. /\ m \in Messages /\ m.request <= requests
        /\ m.type \in {"sent", "cancel"} => m.request # asking[c]
    BY ToldBefore
  <2>2. w.type \notin {"hello", "ready"}
    <3>1. up[c] # <<>>
      BY EmptySet
    <3>2. Shook(c)
      BY DEF UnderstoodInv, Handshaken
    <3> QED
      BY <1>2, <3>1, <3>2 DEF Shook
  <2>3. m.request # requests + 1
    <3>1. m.request \in Nat /\ requests \in Nat
      BY <2>1, MessageIs, KnownIs
    <3> QED
      BY <2>1, <3>1
  <2> QED
    BY <2>1, <2>2, <2>3, UpPair
<1>3. c \in linked /\ ~stopping => \A m \in ToSet(up[c]), v \in ToSet(<<w>>) : <<m, v>> \in UpOrder
  BY <1>1, <1>2
<1> QED
  BY <1>1, <1>3, TellsFine

LEMMA ClosesFine ==
    ASSUME UnderstoodInv, NEW c \in Children, Closes(c), process[c] # "greeting"
    PROVE  UpFine(up')
<1> DEFINE closed == Message("closed", 0)
           cancel == Message("cancel", asking[c])
           last == IF asking[c] = 0 THEN <<>> ELSE <<cancel>>
<1>1. /\ closed \in Messages /\ cancel \in Messages /\ closed.type = "closed" /\ cancel.type = "cancel"
      /\ cancel.request = asking[c]
  BY CancelIs, ControlIs DEF Message, UnderstoodInv
<1>2. Tells(c, <<closed>> \o last)
  BY DEF Closes
<1> HIDE DEF closed, cancel
<1>3. /\ <<closed>> \in Seq(Messages) /\ last \in Seq(Messages)
      /\ ToSet(<<closed>>) = {closed} /\ ToSet(last) \subseteq {cancel}
      /\ InOrder(<<closed>>, UpOrder) /\ InOrder(last, UpOrder)
  <2>1. /\ <<closed>> \in Seq(Messages) /\ ToSet(<<closed>>) = {closed}
        /\ <<cancel>> \in Seq(Messages) /\ ToSet(<<cancel>>) = {cancel}
    BY <1>1, OneMessage
  <2>2. last = <<>> \/ last = <<cancel>>
    OBVIOUS
  <2>3. <<>> \in Seq(Messages)
    OBVIOUS
  <2> HIDE DEF last
  <2> QED
    BY <2>1, <2>2, <2>3, EmptySet, ShortOrder
<1> HIDE DEF last
<1>4. <<closed>> \o last \in Seq(Messages) /\ ToSet(<<closed>> \o last) \subseteq {closed, cancel}
  BY <1>3, ConcatSet
<1>5. <<closed, cancel>> \in UpOrder
  BY <1>1, UpPair
<1>6. InOrder(<<closed>> \o last, UpOrder)
  BY <1>3, <1>5, ConcatOrder
<1>7. \A m \in ToSet(up[c]), w \in ToSet(<<closed>> \o last) : <<m, w>> \in UpOrder
  <2>1. \A m \in ToSet(up[c]) : <<m, closed>> \in UpOrder /\ <<m, cancel>> \in UpOrder
    BY <1>1, ToldBefore, UpPair
  <2> QED
    BY <1>4, <2>1
<1> QED
  BY <1>2, <1>4, <1>6, <1>7, TellsFine

\* Every step keeps the order of what children tell.
LEMMA UpFineKept ==
    ASSUME UnderstoodInv, Next
    PROVE  UpFine(up')
<1>1. CASE up' = up
  BY <1>1, KnownIs
<1>2. CASE up' = [x \in Children |-> <<>>]
  BY <1>2, ShortOrder DEF UpFine
<1>3. ASSUME NEW c \in Children, up' = [up EXCEPT ![c] = <<>>]
      PROVE  UpFine(up')
  <2>1. \A x \in Children : up'[x] = up[x] \/ up'[x] = <<>>
    BY <1>3, InvIs DEF Channels, UnderstoodInv
  <2> QED
    BY <2>1, KnownIs, ShortOrder DEF UpFine
<1>4. ASSUME NEW c \in Children, Hearing(c)
      PROVE  UpFine(up')
  BY <1>4, HeardFine DEF Hearing, HearsHello, HearsReady, HearsIdentify, HearsCancel, HearsSent, HearsEnd
<1>5. ASSUME NEW c \in Children, Exits(c)
      PROVE  UpFine(up')
  BY <1>1, <1>2, <1>3, <1>5 DEF Exits, BeginsShutdown
<1>6. ASSUME NEW c \in Children, ChildMoves(c)
      PROVE  UpFine(up')
  <2>1. CASE Greets(c) \/ Boots(c)
    <3>1. PICK type \in {"hello", "ready"} :
              Tells(c, <<Message(type, 0)>>) /\ process[c] \in {"booting", "assigned"}
      BY <2>1 DEF Greets, Boots
    <3>2. Message(type, 0) \in Messages /\ Message(type, 0).type = type
      BY PermitsAssumption DEF Message, Messages
    <3> QED
      BY <3>1, <3>2, OneFine
  <2>2. CASE Asks(c)
    <3>1. requests \in Nat /\ requests + 1 \in 0..MaxRequests
      BY <2>2, KnownIs, PermitsAssumption DEF Asks
    <3>2. /\ Message("identify", requests + 1) \in Messages
          /\ Message("identify", requests + 1).type = "identify"
          /\ Message("identify", requests + 1).request = requests + 1
      BY <3>1 DEF Message, Messages
    <3>3. Tells(c, <<Message("identify", requests + 1)>>)
      BY <2>2 DEF Asks
    <3> QED
      BY <3>2, <3>3, OneFine
  <2>3. CASE Withdraws(c)
    <3>1. /\ Message("cancel", asking[c]) \in Messages
          /\ Message("cancel", asking[c]).type = "cancel" /\ Message("cancel", asking[c]).request = asking[c]
      BY CancelIs DEF Message, UnderstoodInv
    <3> QED
      BY <2>3, <3>1, OneFine DEF Withdraws
  <2>4. CASE Identifies(c)
    <3>1. asking[c] \in 0..MaxRequests
      BY InvIs DEF UnderstoodInv
    <3>2. /\ Message("sent", asking[c]) \in Messages
          /\ Message("sent", asking[c]).type = "sent" /\ Message("sent", asking[c]).request = asking[c]
      BY <3>1 DEF Message, Messages
    <3>3. Tells(c, <<Message("sent", asking[c])>>)
      BY <2>4 DEF Identifies
    <3> QED
      BY <3>2, <3>3, OneFine
  <2>5. CASE LosesParent(c) \/ Answered(c) \/ ToldToStop(c) \/ TakesAssignment(c) \/ MistakesShutdown(c)
    BY <1>1, <2>5 DEF LosesParent, Answered, ToldToStop, TakesAssignment, MistakesShutdown
  <2>6. CASE Closes(c)
    BY <1>1, <2>6, ClosesFine DEF Closes
  <2> QED
    BY <1>6, <2>1, <2>2, <2>3, <2>4, <2>5, <2>6 DEF ChildMoves
<1>7. CASE GrantTimerFires \/ AckExpires \/ Tick
  BY <1>1, <1>7 DEF GrantTimerFires, AckExpires, Tick
<1>8. ASSUME NEW r \in permits, Settling(r)
      PROVE  UpFine(up')
  BY <1>1, <1>8 DEF Settling, PermitGiven, PermitRefused
<1>9. CASE ShutDown \/ \E c \in Children : StartupExpires(c) \/ DisconnectExpires(c)
  BY <1>2, <1>9 DEF ShutDown, StartupExpires, DisconnectExpires, BeginsShutdown
<1>10. ASSUME NEW c \in Children, Disconnects(c) \/ Spawns(c)
       PROVE  UpFine(up')
  BY <1>1, <1>3, <1>10 DEF Disconnects, Spawns
<1> QED
  BY <1>4, <1>5, <1>6, <1>7, <1>8, <1>9, <1>10 DEF Next

-----------------------------------------------------------------------------
(* What is reported *)

\* A step that reports nothing, and after which the request that was outstanding still is, or none is
\* reported any more
LEMMA ReportedAfter ==
    ASSUME UnderstoodInv, NEW current,
           outstanding' = current \/ current = None,
           current # None => /\ outstanding # None /\ current.child = outstanding.child
                             /\ current.request = outstanding.request
                             /\ outstanding.granted => current.granted,
           \A c \in Children : \A m \in Contents(up')[c] :
               m.type = "sent" => m \in Contents(up)[c] /\ current # None
    PROVE  Reported'
<1>1. ASSUME NEW c \in Children, NEW m \in ToSet(up'[c]), m.type = "sent"
      PROVE  Has(outstanding', c, m.request) /\ outstanding'.granted
  <2>1. m \in Contents(up')[c]
    BY <1>1 DEF Contents
  <2>2. m \in ToSet(up[c]) /\ current # None
    BY <1>1, <2>1 DEF Contents
  <2>3. Has(outstanding, c, m.request) /\ outstanding.granted
    BY <1>1, <2>2 DEF UnderstoodInv, Reported
  <2> QED
    BY <2>2, <2>3 DEF Has
<1> QED
  BY <1>1 DEF Reported, Has

LEMMA NextOutstanding ==
    ASSUME NEW queue, NEW current, NEW timer, NEW since, NEW unsettled, NEW ch,
           Schedule(queue, current, timer, since, unsettled, ch)
    PROVE  outstanding' = current \/ current = None
BY DEF Schedule

\* Nothing is reported of a request that is not granted, or of none.
LEMMA NoReport ==
    ASSUME UnderstoodInv, outstanding = None \/ ~outstanding.granted,
           NEW c \in Children, NEW m \in Contents(up)[c]
    PROVE  m.type # "sent"
BY DEF UnderstoodInv, Reported, Has, Contents

\* A report is of the outstanding request and its child.
LEMMA ReportIs ==
    ASSUME UnderstoodInv, NEW c \in Children, NEW m \in Contents(up)[c], m.type = "sent"
    PROVE  outstanding # None /\ outstanding.child = c /\ outstanding.request = m.request
BY DEF UnderstoodInv, Reported, Has, Contents

LEMMA GrantingReported ==
    ASSUME UnderstoodInv, GrantTimerFires \/ AckExpires \/ Tick
    PROVE  Reported'
<1>1. up' = up
  BY DEF GrantTimerFires, AckExpires, Tick
<1>2. \/ outstanding' = outstanding \/ outstanding = None
      \/ outstanding # None /\ outstanding' = [outstanding EXCEPT !.stalled = TRUE]
  BY NextOutstanding DEF GrantTimerFires, AckExpires, Tick, grantVars
<1>3. CASE outstanding = None
  BY <1>1, <1>3, NoReport, ReportedAfter
<1>4. CASE outstanding # None
  <2>1. /\ outstanding' # None => /\ outstanding'.child = outstanding.child
                                  /\ outstanding'.request = outstanding.request
                                  /\ outstanding.granted => outstanding'.granted
        /\ outstanding' # None
    <3>1. outstanding \in Outstanding
      BY <1>4, KnownIs
    <3>2. outstanding' \in Outstanding
      BY <1>2, <1>4, <3>1 DEF Outstanding
    <3> QED
      BY <1>2, <1>4, <3>1, <3>2, OutstandingIs DEF Outstanding
  <2> QED
    BY <1>1, <1>4, <2>1, ReportedAfter
<1> QED
  BY <1>3, <1>4

LEMMA SettlingReported ==
    ASSUME UnderstoodInv, NEW r \in permits, Settling(r)
    PROVE  Reported'
<1>1. up' = up
  BY DEF Settling, PermitGiven, PermitRefused
<1>2. CASE ~Current(r)
  <2>1. outstanding' = outstanding
    BY <1>2 DEF Settling, PermitGiven, PermitRefused
  <2>2. CASE outstanding = None
    BY <1>1, <2>2, NoReport, ReportedAfter
  <2>3. CASE outstanding # None
    BY <1>1, <2>1, <2>3, ReportedAfter
  <2> QED
    BY <2>2, <2>3
<1>3. CASE Current(r)
  <2>1. ~outstanding.granted
    BY <1>3 DEF Current, UnderstoodInv, PermitsInv, Good, NotGranted
  <2> QED
    BY <1>1, <2>1, NoReport, ReportedAfter
<1> QED
  BY <1>2, <1>3

LEMMA ClearedReported ==
    ASSUME UnderstoodInv, up' = [x \in Children |-> <<>>]
    PROVE  Reported'
<1>1. \A c \in Children : up'[c] = <<>>
  OBVIOUS
<1> QED
  BY <1>1, EmptySet DEF Reported

LEMMA DisconnectsReported ==
    ASSUME UnderstoodInv, NEW c \in Children, Disconnects(c) \/ Spawns(c)
    PROVE  Reported'
<1>1. /\ up' = [up EXCEPT ![c] = <<>>] \/ up' = up
      /\ \/ outstanding' = outstanding
         \/ outstanding # None /\ outstanding' = [outstanding EXCEPT !.muted = TRUE]
  BY DEF Disconnects, Spawns, Holds, grantVars
<1>2. up \in Channels
  BY InvIs DEF UnderstoodInv
<1>3. \A x \in Children : Contents(up')[x] \subseteq Contents(up)[x]
  BY <1>1, <1>2, ClearedIs
<1>4. CASE outstanding = None
  BY <1>3, <1>4, NoReport, ReportedAfter
<1>5. CASE outstanding # None
  <2>1. outstanding \in Outstanding
    BY <1>5, KnownIs
  <2>2. outstanding' \in Outstanding
    BY <1>1, <2>1 DEF Outstanding
  <2>3. /\ outstanding' # None /\ outstanding'.child = outstanding.child
        /\ outstanding'.request = outstanding.request
        /\ outstanding.granted => outstanding'.granted
    BY <1>1, <2>1, <2>2, OutstandingIs DEF Outstanding
  <2> QED
    BY <1>3, <1>5, <2>3, ReportedAfter
<1> QED
  BY <1>4, <1>5

LEMMA ExitsReported ==
    ASSUME UnderstoodInv, NEW c \in Children, Exits(c)
    PROVE  Reported'
<1>1. up \in Channels
  BY InvIs DEF UnderstoodInv
<1>2. CASE stopping /\ up' = up
  <2>1. \A x \in Children : up'[x] = <<>>
    BY <1>2, InvIs DEF UnderstoodInv
  <2> QED
    BY <2>1, EmptySet DEF Reported
<1>3. CASE up' = [x \in Children |-> <<>>]
  BY <1>3, ClearedReported
<1>4. ASSUME up' = [up EXCEPT ![c] = <<>>],
             NEW queue, Schedule(queue, AfterExit(c), grantTimer, SinceExit(c), permits, [down EXCEPT ![c] = <<>>])
      PROVE  Reported'
  <2>1. outstanding' = AfterExit(c) \/ AfterExit(c) = None
    BY <1>4, NextOutstanding
  <2>2. /\ \A x \in Children : Contents(up')[x] \subseteq Contents(up)[x]
        /\ Contents(up')[c] = {}
    BY <1>1, <1>4, ClearedIs
  <2>3. AfterExit(c) # None => AfterExit(c) = outstanding /\ outstanding # None
    BY DEF AfterExit
  <2>4. ASSUME NEW x \in Children, NEW m \in Contents(up')[x], m.type = "sent"
        PROVE  m \in Contents(up)[x] /\ AfterExit(c) # None
    <3>1. x # c /\ m \in Contents(up)[x]
      BY <2>2
    <3>2. outstanding # None /\ outstanding.child = x
      BY <2>4, <3>1, ReportIs
    <3> QED
      BY <3>1, <3>2 DEF AfterExit, Holds
  <2> QED
    BY <2>1, <2>3, <2>4, ReportedAfter
<1> QED
  BY <1>2, <1>3, <1>4 DEF Exits, BeginsShutdown

LEMMA HearingReported ==
    ASSUME UnderstoodInv, NEW c \in Children, Hearing(c)
    PROVE  Reported'
<1>1. PICK type \in {"hello", "ready", "identify", "cancel", "sent", "closed"} : Hears(c, type) /\ Takes(c)
  BY DEF Hearing, HearsHello, HearsReady, HearsIdentify, HearsCancel, HearsSent, HearsEnd
<1>2. /\ \A w \in Contents(up')[c] : <<First(up, c), w>> \in UpOrder
      /\ \A x \in Children : Contents(up')[x] \subseteq Contents(up)[x]
      /\ First(up, c) \in Messages /\ First(up, c).type = type
  BY <1>1, HeardFine
<1>3. CASE outstanding = None
  BY <1>2, <1>3, NoReport, ReportedAfter
<1>4. CASE outstanding # None /\ outstanding' = outstanding
  BY <1>2, <1>4, ReportedAfter
<1>5. CASE type \in {"cancel", "sent"} /\ HoldsRequest(c, First(up, c).request)
  <2>1. ASSUME NEW x \in Children, NEW m \in Contents(up')[x], m.type = "sent"
        PROVE  FALSE
    <3>1. m \in Contents(up)[x] /\ m \in Messages
      BY <1>2, KnownIs
    <3>2. x = c /\ m.request = First(up, c).request
      BY <1>5, <2>1, <3>1, ReportIs DEF HoldsRequest, Holds
    <3>3. <<First(up, c), m>> \in UpOrder
      BY <1>2, <3>2
    <3> QED
      BY <1>2, <1>5, <2>1, <3>1, <3>2, <3>3, UpPair
  <2> QED
    BY <2>1, ReportedAfter
<1>6. ASSUME outstanding # None, outstanding' # outstanding
      PROVE  type \in {"cancel", "sent"} /\ HoldsRequest(c, First(up, c).request)
  <2>1. CASE HearsHello(c) \/ HearsReady(c) \/ HearsEnd(c)
    BY <1>6, <2>1 DEF HearsHello, HearsReady, HearsEnd, grantVars
  <2>2. CASE HearsIdentify(c)
    BY <1>6, <2>2, NextOutstanding DEF HearsIdentify
  <2>3. CASE HearsCancel(c)
    BY <1>2, <1>6, <2>3 DEF HearsCancel, Hears
  <2>4. CASE HearsSent(c)
    BY <1>2, <1>6, <2>4 DEF HearsSent, Hears
  <2> QED
    BY <2>1, <2>2, <2>3, <2>4 DEF Hearing
<1> QED
  BY <1>3, <1>4, <1>5, <1>6

\* A child whose grant was the outstanding one's reports it.
LEMMA ChildReported ==
    ASSUME UnderstoodInv, NEW c \in Children, ChildMoves(c)
    PROVE  Reported'
<1>1. outstanding' = outstanding
  BY DEF ChildMoves, Greets, TakesAssignment, Boots, Asks, Withdraws, Closes, LosesParent, Identifies,
         Answered, ToldToStop, MistakesShutdown, Told, ChildUnchanged, grantVars
<1>2. up \in Channels /\ asking \in [Children -> 0..MaxRequests]
  BY InvIs DEF UnderstoodInv
<1>3. CASE Identifies(c)
  <2> DEFINE sent == Message("sent", asking[c])
  <2>1. sent \in Messages /\ sent.request = asking[c]
    BY <1>2 DEF Message, Messages
  <2>2. Tells(c, <<sent>>) /\ Told(c, "grant") /\ First(down, c).request = asking[c]
    BY <1>3 DEF Identifies
  <2>3. Message("grant", asking[c]) \in Contents(down)[c]
    BY <2>2, ToldIs DEF UnderstoodInv
  <2>4. outstanding # None /\ outstanding.child = c /\ outstanding.request = asking[c] /\ outstanding.granted
    BY <2>3 DEF UnderstoodInv, PermitsInv, Good, GrantsCurrent, Message
  <2> HIDE DEF sent
  <2>5. <<sent>> \in Seq(Messages) /\ ToSet(<<sent>>) = {sent}
    BY <2>1, OneMessage
  <2>6. \A x \in Children : \A m \in Contents(up')[x] :
            m \in Contents(up)[x] \/ (x = c /\ m \in ToSet(<<sent>>))
    BY <1>2, <2>2, <2>5, TellsIs
  <2>7. ASSUME NEW x \in Children, NEW m \in ToSet(up'[x]), m.type = "sent"
        PROVE  Has(outstanding', x, m.request) /\ outstanding'.granted
    <3>1. m \in ToSet(up[x]) \/ (x = c /\ m = sent)
      BY <2>5, <2>6 DEF Contents
    <3> QED
      BY <1>1, <2>1, <2>4, <2>7, <3>1 DEF Has, UnderstoodInv, Reported
  <2> QED
    BY <2>7 DEF Reported, Has
<1>4. CASE ~Identifies(c)
  <2>1. \A x \in Children : \A m \in Contents(up')[x] : m.type = "sent" => m \in Contents(up)[x]
    <3>1. CASE up' = up
      BY <3>1
    <3>2. ASSUME NEW messages \in Seq(Messages), Tells(c, messages), \A m \in ToSet(messages) : m.type # "sent"
          PROVE  \A x \in Children : \A m \in Contents(up')[x] : m.type = "sent" => m \in Contents(up)[x]
      BY <1>2, <3>2, TellsIs
    <3>3. ASSUME NEW w \in Messages, w.type # "sent", Tells(c, <<w>>)
          PROVE  \A x \in Children : \A m \in Contents(up')[x] : m.type = "sent" => m \in Contents(up)[x]
      <4>1. <<w>> \in Seq(Messages) /\ ToSet(<<w>>) = {w}
        BY OneMessage
      <4> QED
        BY <3>2, <3>3, <4>1
    <3>4. CASE Greets(c) \/ Boots(c)
      <4>1. PICK type \in {"hello", "ready"} : Tells(c, <<Message(type, 0)>>)
        BY <3>4 DEF Greets, Boots
      <4>2. Message(type, 0) \in Messages /\ Message(type, 0).type # "sent"
        BY PermitsAssumption DEF Message, Messages
      <4> QED
        BY <3>3, <4>1, <4>2
    <3>5. CASE Asks(c)
      <4>1. requests + 1 \in 0..MaxRequests
        BY <3>5, KnownIs, PermitsAssumption DEF Asks
      <4>2. /\ Message("identify", requests + 1) \in Messages
            /\ Message("identify", requests + 1).type # "sent"
        BY <4>1 DEF Message, Messages
      <4>3. Tells(c, <<Message("identify", requests + 1)>>)
        BY <3>5 DEF Asks
      <4> QED
        BY <3>3, <4>2, <4>3
    <3>6. CASE Withdraws(c)
      <4>1. Message("cancel", asking[c]) \in Messages /\ Message("cancel", asking[c]).type # "sent"
        BY CancelIs DEF Message, UnderstoodInv
      <4> QED
        BY <3>3, <3>6, <4>1 DEF Withdraws
    <3>7. CASE Closes(c) /\ process[c] # "greeting"
      <4> DEFINE closed == Message("closed", 0)
                 cancel == Message("cancel", asking[c])
                 last == IF asking[c] = 0 THEN <<>> ELSE <<cancel>>
      <4>1. /\ closed \in Messages /\ cancel \in Messages /\ closed.type # "sent" /\ cancel.type # "sent"
        BY CancelIs, ControlIs DEF Message, UnderstoodInv
      <4>2. Tells(c, <<closed>> \o last)
        BY <3>7 DEF Closes
      <4> HIDE DEF closed, cancel
      <4>3. /\ <<closed>> \in Seq(Messages) /\ ToSet(<<closed>>) = {closed}
            /\ <<cancel>> \in Seq(Messages) /\ ToSet(<<cancel>>) = {cancel}
        BY <4>1, OneMessage
      <4>4. last \in {<<>>, <<cancel>>} /\ <<>> \in Seq(Messages)
        OBVIOUS
      <4> HIDE DEF last
      <4>5. last \in Seq(Messages) /\ ToSet(last) \subseteq {cancel}
        BY <4>3, <4>4, EmptySet
      <4>6. <<closed>> \o last \in Seq(Messages) /\ ToSet(<<closed>> \o last) \subseteq {closed, cancel}
        BY <4>3, <4>5, ConcatSet
      <4> QED
        BY <3>2, <4>1, <4>2, <4>6
    <3> QED
      BY <1>4, <3>1, <3>4, <3>5, <3>6, <3>7 DEF ChildMoves, Closes, LosesParent, Answered, ToldToStop,
         TakesAssignment, MistakesShutdown
  <2> QED
    BY <1>1, <2>1, NoReport, ReportedAfter
<1> QED
  BY <1>3, <1>4

\* Every step keeps what is reported.
LEMMA ReportedKept ==
    ASSUME UnderstoodInv, Next
    PROVE  Reported'
<1>1. CASE GrantTimerFires \/ AckExpires \/ Tick
  BY <1>1, GrantingReported
<1>2. CASE ShutDown \/ \E c \in Children : StartupExpires(c) \/ DisconnectExpires(c)
  BY <1>2, ClearedReported DEF ShutDown, StartupExpires, DisconnectExpires, BeginsShutdown
<1>3. ASSUME NEW c \in Children, Disconnects(c) \/ Exits(c) \/ Spawns(c)
      PROVE  Reported'
  BY <1>3, DisconnectsReported, ExitsReported
<1> QED
  BY <1>1, <1>2, <1>3, SettlingReported, HearingReported, ChildReported DEF Next

-----------------------------------------------------------------------------
(* The handshake *)

\* What does not concern a child keeps its handshake.
LEMMA ShookKept ==
    ASSUME NEW c \in Children, Shook(c), slot'[c] = slot[c], process'[c] = process[c],
           c \in linked' <=> c \in linked, up'[c] = up[c], stopping' = stopping
    PROVE  Shook(c)'
BY DEF Shook, Greeted

LEMMA HandshakenOthers ==
    ASSUME UnderstoodInv, NEW c \in Children, stopping' = stopping, Shook(c)',
           \A x \in Children : x # c =>
               /\ slot'[x] = slot[x] /\ process'[x] = process[x] /\ up'[x] = up[x]
               /\ x \in linked' <=> x \in linked
    PROVE  Handshaken'
<1>1. \A x \in Children : Shook(x)
  BY DEF UnderstoodInv, Handshaken
<1>2. ASSUME NEW x \in Children
      PROVE  Shook(x)'
  BY <1>1, ShookKept
<1> QED
  BY <1>2 DEF Handshaken

LEMMA HandshakenKept ==
    ASSUME UnderstoodInv, slot' = slot, process' = process, linked' = linked, up' = up, stopping' = stopping
    PROVE  Handshaken'
<1>1. \A x \in Children : Shook(x)
  BY DEF UnderstoodInv, Handshaken
<1>2. ASSUME NEW x \in Children
      PROVE  Shook(x)'
  BY <1>1, ShookKept
<1> QED
  BY <1>2 DEF Handshaken

\* Once the supervisor stops nothing is read.
LEMMA HandshakenStopped ==
    ASSUME UnderstoodInv, stopping' = TRUE,
           \A x \in Children : /\ up'[x] = <<>>
                               /\ process'[x] = "none" => x \notin linked'
                               /\ slot'[x] = "restarting" => process'[x] = "none"
                               /\ process'[x] \in {"assigned", "on", "stopping"} => slot'[x] # "starting"
    PROVE  Handshaken'
BY DEF Handshaken, Shook

LEMMA ShutdownHandshaken ==
    ASSUME UnderstoodInv, NEW left, NEW current, NEW channels, BeginsShutdown(left, current, channels),
           \/ process' = process /\ linked' = linked
           \/ \E c \in Children : /\ process' = [process EXCEPT ![c] = "none"] /\ linked' = linked \ {c}
    PROVE  Handshaken'
<1>1. /\ stopping' = TRUE /\ \A x \in Children : up'[x] = <<>>
      /\ \A x \in Children : slot'[x] \in {slot[x], "over"}
  BY DEF BeginsShutdown
<1>2. \A x \in Children : Shook(x)
  BY DEF UnderstoodInv, Handshaken
<1>3. process \in [Children -> Processes]
  BY InvIs DEF UnderstoodInv
<1>4. \A x \in Children : /\ process'[x] = "none" => x \notin linked'
                          /\ slot'[x] = "restarting" => process'[x] = "none"
                          /\ process'[x] \in {"assigned", "on", "stopping"} => slot'[x] # "starting"
  BY <1>1, <1>2, <1>3 DEF Shook
<1> QED
  BY <1>1, <1>4, HandshakenStopped

LEMMA ChannelHandshaken ==
    ASSUME UnderstoodInv, NEW c \in Children, Disconnects(c) \/ Spawns(c)
    PROVE  Handshaken'
<1>1. /\ Shook(c) /\ up \in Channels /\ slot \in [Children -> Slots]
      /\ process \in [Children -> Processes]
  BY InvIs DEF UnderstoodInv, Handshaken, Sized
<1>2. stopping' = stopping
  BY DEF Disconnects, Spawns
<1>3. CASE Disconnects(c)
  <2>1. /\ slot' = slot /\ process' = process /\ linked' = linked \ {c}
        /\ up'[c] = <<>> /\ \A x \in Children : x # c => up'[x] = up[x]
    BY <1>1, <1>3 DEF Disconnects, Channels
  <2>2. ToSet(up'[c]) = {}
    BY <2>1, EmptySet
  <2>3. Shook(c)'
    BY <1>1, <1>2, <2>1, <2>2 DEF Shook
  <2> QED
    BY <1>2, <2>1, <2>3, HandshakenOthers
<1>4. CASE Spawns(c)
  <2>1. /\ slot[c] = "restarting" /\ up' = up /\ linked' = linked \cup {c}
        /\ slot' = [slot EXCEPT ![c] = "starting"] /\ process' = [process EXCEPT ![c] = "booting"]
    BY <1>4 DEF Spawns
  <2>2. up'[c] = <<>>
    BY <1>1, <2>1 DEF Shook
  <2>3. ToSet(up'[c]) = {}
    BY <2>2, EmptySet
  <2>4. /\ slot'[c] = "starting" /\ process'[c] = "booting" /\ c \in linked'
        /\ \A x \in Children : x # c => slot'[x] = slot[x] /\ process'[x] = process[x]
    BY <1>1, <2>1
  <2>5. Shook(c)'
    BY <2>2, <2>3, <2>4 DEF Shook
  <2> QED
    BY <1>2, <2>1, <2>4, <2>5, HandshakenOthers
<1> QED
  BY <1>3, <1>4

LEMMA ExitsHandshaken ==
    ASSUME UnderstoodInv, NEW c \in Children, Exits(c)
    PROVE  Handshaken'
<1>1. /\ Shook(c) /\ up \in Channels /\ slot \in [Children -> Slots]
      /\ process \in [Children -> Processes]
  BY InvIs DEF UnderstoodInv, Handshaken, Sized
<1>2. process' = [process EXCEPT ![c] = "none"] /\ linked' = linked \ {c}
  BY DEF Exits
<1>3. /\ process'[c] = "none" /\ c \notin linked'
      /\ \A x \in Children : x # c => process'[x] = process[x] /\ (x \in linked' <=> x \in linked)
  BY <1>1, <1>2
<1>4. ASSUME NEW left, NEW current, NEW channels, BeginsShutdown(left, current, channels)
      PROVE  Handshaken'
  BY <1>2, <1>4, ShutdownHandshaken
<1>5. CASE /\ stopping' = stopping /\ up'[c] = <<>>
           /\ \A x \in Children : x # c => up'[x] = up[x] /\ slot'[x] = slot[x]
  <2>1. ToSet(up'[c]) = {}
    BY <1>5, EmptySet
  <2>2. Shook(c)'
    BY <1>3, <1>5, <2>1 DEF Shook
  <2> QED
    BY <1>3, <1>5, <2>2, HandshakenOthers
<1>6. CASE stopping /\ stopping' = stopping /\ up' = up /\ slot' = [slot EXCEPT ![c] = "over"]
  <2>1. up'[c] = <<>>
    BY <1>6, InvIs DEF UnderstoodInv
  <2> QED
    BY <1>1, <1>5, <1>6, <2>1
<1>7. CASE stopping' = stopping /\ up' = [up EXCEPT ![c] = <<>>] /\ slot' = [slot EXCEPT ![c] = "restarting"]
  <2>1. up'[c] = <<>> /\ \A x \in Children : x # c => up'[x] = up[x]
    BY <1>1, <1>7 DEF Channels
  <2> QED
    BY <1>1, <1>5, <1>7, <2>1
<1> QED
  BY <1>4, <1>6, <1>7 DEF Exits

\* A parent that reads something else than the handshake has read the handshake.
LEMMA HearingHandshaken ==
    ASSUME UnderstoodInv, NEW c \in Children, Hearing(c)
    PROVE  Handshaken'
<1>1. /\ Shook(c) /\ up \in Channels /\ slot \in [Children -> Slots]
  BY InvIs DEF UnderstoodInv, Handshaken, Sized
<1>2. PICK type \in {"hello", "ready", "identify", "cancel", "sent", "closed"} :
          /\ Hears(c, type) /\ Takes(c)
          /\ process' = process /\ linked' = linked /\ stopping' = stopping
          /\ type = "hello" => slot[c] = "starting" /\ slot' = [slot EXCEPT ![c] = "greeted"]
          /\ type = "ready" => slot[c] = "greeted" /\ slot' = [slot EXCEPT ![c] = "running"]
          /\ type \notin {"hello", "ready"} => slot' = slot
  BY DEF Hearing, HearsHello, HearsReady, HearsIdentify, HearsCancel, HearsSent, HearsEnd, childVars,
         parentVars
<1>3. /\ \A x \in Children : x # c => slot'[x] = slot[x]
      /\ type = "hello" => slot'[c] = "greeted"
      /\ type = "ready" => slot'[c] = "running"
      /\ type \notin {"hello", "ready"} => slot'[c] = slot[c]
  BY <1>1, <1>2
<1>4. /\ up[c] # <<>> /\ \A w \in Contents(up')[c] : <<First(up, c), w>> \in UpOrder
      /\ \A x \in Children : x # c => up'[x] = up[x]
      /\ \A x \in Children : Contents(up')[x] \subseteq Contents(up)[x]
      /\ First(up, c) \in Messages /\ First(up, c).type = type /\ up'[c] = Tail(up[c])
      /\ stopping = FALSE
  BY <1>2, HeardFine
<1>5. ASSUME NEW w \in ToSet(up'[c])
      PROVE  w.type \notin {"hello", "ready"} /\ w \in ToSet(up[c])
  <2>1. w \in Contents(up')[c] /\ w \in Contents(up)[c]
    BY <1>4 DEF Contents
  <2>2. w \in Messages
    BY <2>1, KnownIs
  <2> QED
    BY <1>4, <2>1, <2>2, UpPair DEF Contents
<1>6. up'[c] # <<>> => Head(up'[c]) \in ToSet(up'[c])
  <2>1. up'[c] \in Seq(Messages)
    BY <1>1, <1>4 DEF Channels
  <2> QED
    BY <2>1, TailSet
<1>7. Head(up[c]).type = type
  BY <1>4 DEF First
<1>8. /\ c \in linked /\ process[c] \notin {"none", "booting", "assigned"} /\ slot[c] # "restarting"
      /\ slot[c] = "starting" <=> type = "hello"
      /\ process[c] = "greeting" => slot[c] = "starting"
  BY <1>1, <1>4, <1>7 DEF Shook
<1>9. (process[c] = "on" /\ c \in linked) \/ (\E m \in ToSet(up'[c]) : m.type = "identify")
          => slot'[c] = "running"
  <2>1. (process[c] = "on" /\ c \in linked) \/ (\E m \in ToSet(up'[c]) : m.type = "identify") => Greeted(c)
    BY <1>1, <1>4, <1>5 DEF Shook
  <2> QED
    BY <1>3, <1>7, <1>8, <2>1 DEF Greeted
<1>10. process[c] = "greeting" => up'[c] = <<>>
  <2>1. process[c] = "greeting" => \A m \in ToSet(up'[c]) : FALSE
    BY <1>5 DEF UnderstoodInv, Handed, Hand, Young
  <2> QED
    BY <1>6, <2>1
<1>11. slot'[c] \notin {"starting", "restarting"}
  BY <1>2, <1>3, <1>8
<1>12. up'[c] # <<>> => Head(up'[c]).type \notin {"hello", "ready"}
  BY <1>5, <1>6
<1>13. Shook(c)'
  BY <1>2, <1>8, <1>9, <1>10, <1>11, <1>12 DEF Shook, Greeted
<1> QED
  BY <1>2, <1>3, <1>4, <1>13, HandshakenOthers

\* What a child tells comes after the handshake that is not read yet.
LEMMA TellingHandshaken ==
    ASSUME UnderstoodInv, NEW c \in Children, NEW messages \in Seq(Messages), Tells(c, messages),
           process[c] \in {"assigned", "on", "stopping"},
           \A m \in ToSet(messages) :
               m.type \notin {"hello", "ready"} /\ (m.type = "identify" => process[c] = "on"),
           \/ process' = process /\ process[c] # "assigned"
           \/ process' = [process EXCEPT ![c] = "ended"],
           slot' = slot, linked' = linked, stopping' = stopping
    PROVE  Handshaken'
<1>1. /\ Shook(c) /\ up \in Channels
      /\ process \in [Children -> Processes]
  BY InvIs DEF UnderstoodInv, Handshaken
<1>2. /\ \A x \in Children : x # c => up'[x] = up[x]
      /\ up'[c] = up[c] \/ (c \in linked /\ ~stopping /\ up'[c] = up[c] \o messages)
  BY <1>1, TellsExact
<1>3. /\ \A x \in Children : x # c => process'[x] = process[x]
      /\ process'[c] \in {process[c], "ended"} /\ process'[c] # "assigned"
  BY <1>1
<1>4. CASE up'[c] = up[c]
  <2>1. Shook(c)'
    BY <1>1, <1>3, <1>4 DEF Shook, Greeted
  <2> QED
    BY <1>2, <1>3, <2>1, HandshakenOthers
<1>5. CASE c \in linked /\ ~stopping /\ up'[c] = up[c] \o messages
  <2> DEFINE s == up[c]
  <2>1. s \in Seq(Messages)
    BY <1>1 DEF Channels
  <2>2. /\ s # <<>> => up'[c] # <<>> /\ Head(up'[c]) = Head(s)
        /\ s = <<>> /\ up'[c] # <<>> => Head(up'[c]) \in ToSet(messages)
    <3>1. /\ Len(s \o messages) = Len(s) + Len(messages) /\ Len(s) \in Nat /\ Len(messages) \in Nat
          /\ \A i \in 1..Len(s) : (s \o messages)[i] = s[i]
          /\ s \o messages \in Seq(Messages)
      BY <2>1, ConcatProperties
    <3>2. CASE s # <<>>
      <4>1. Len(s) >= 1 /\ Head(s) = s[1]
        BY <2>1, <3>2
      <4>2. Len(s \o messages) >= 1 /\ (s \o messages)[1] = s[1]
        BY <3>1, <4>1
      <4>3. s \o messages # <<>> /\ Head(s \o messages) = (s \o messages)[1]
        BY <3>1, <4>2
      <4> QED
        BY <1>5, <3>2, <4>1, <4>2, <4>3
    <3>3. CASE s = <<>>
      <4>1. s \o messages = messages
        BY <3>3
      <4>2. messages # <<>> => Head(messages) \in ToSet(messages)
        BY TailSet
      <4> QED
        BY <1>5, <3>3, <4>1, <4>2
    <3> QED
      BY <3>2, <3>3
  <2>3. \A m \in ToSet(up'[c]) : m \in ToSet(s) \/ m \in ToSet(messages)
    BY <1>5, <2>1, ConcatSet
  <2>4. (process'[c] = "on" /\ c \in linked) \/ (\E m \in ToSet(up'[c]) : m.type = "identify")
            => (process[c] = "on" /\ c \in linked) \/ (\E m \in ToSet(s) : m.type = "identify")
    BY <1>3, <1>5, <2>3
  <2>5. Shook(c)'
    BY <1>1, <1>3, <1>5, <2>2, <2>4 DEF Shook, Greeted
  <2> QED
    BY <1>2, <1>3, <2>5, HandshakenOthers
<1> QED
  BY <1>2, <1>4, <1>5

\* A hello, or the readiness, is the first thing in its channel.
LEMMA StartsHandshaken ==
    ASSUME UnderstoodInv, NEW c \in Children, Greets(c) \/ Boots(c)
    PROVE  Handshaken'
<1>1. /\ Shook(c) /\ up \in Channels
      /\ process \in [Children -> Processes]
  BY InvIs DEF UnderstoodInv, Handshaken
<1>2. PICK type \in {"hello", "ready"} :
          /\ Tells(c, <<Message(type, 0)>>)
          /\ \/ type = "hello" /\ process[c] = "booting" /\ process' = [process EXCEPT ![c] = "greeting"]
             \/ type = "ready" /\ process[c] = "assigned" /\ process' = [process EXCEPT ![c] = "on"]
  BY DEF Greets, Boots
<1> DEFINE told == Message(type, 0)
<1>3. told \in Messages /\ told.type = type
  BY PermitsAssumption DEF Message, Messages
<1> HIDE DEF told
<1>4. /\ \A x \in Children : x # c => up'[x] = up[x] /\ process'[x] = process[x]
      /\ process'[c] = IF type = "hello" THEN "greeting" ELSE "on"
      /\ up'[c] = up[c] \/ (c \in linked /\ ~stopping /\ up'[c] = up[c] \o <<told>>)
      /\ c \in linked /\ ~stopping => up'[c] = up[c] \o <<told>>
      /\ slot' = slot /\ linked' = linked /\ stopping' = stopping
  <2>1. c \in linked /\ ~stopping => up'[c] = up[c] \o <<told>>
    BY <1>1, <1>2 DEF Tells, Channels, told
  <2>2. \A x \in Children : x # c => up'[x] = up[x]
    BY <1>1, <1>2 DEF Tells, Channels
  <2>3. ~(c \in linked /\ ~stopping) => up'[c] = up[c]
    BY <1>2 DEF Tells
  <2>4. slot' = slot /\ linked' = linked /\ stopping' = stopping
    BY DEF Greets, Boots, ChildUnchanged, parentVars
  <2> QED
    BY <1>1, <1>2, <2>1, <2>2, <2>3, <2>4
<1>5. CASE stopping
  BY <1>1, <1>2, <1>4, <1>5, HandshakenOthers DEF Shook
<1>6. CASE ~stopping
  <2>1. /\ slot[c] = (IF type = "hello" THEN "starting" ELSE "greeted")
        /\ up[c] = <<>> /\ <<>> \o <<told>> = <<told>>
    BY <1>1, <1>2, <1>6 DEF Shook
  <2>2. CASE c \in linked
    <3>1. up'[c] = <<told>>
      BY <1>4, <1>6, <2>1, <2>2
    <3>2. up'[c] # <<>> /\ Head(up'[c]) = told
      BY <3>1
    <3>3. \A m \in ToSet(up'[c]) : m.type # "identify"
      BY <1>3, <3>1, OneMessage
    <3>4. Shook(c)'
      BY <1>2, <1>3, <1>4, <2>1, <2>2, <3>2, <3>3 DEF Shook, Greeted
    <3> QED
      BY <1>4, <3>4, HandshakenOthers
  <2>3. CASE c \notin linked
    <3>1. up'[c] = <<>>
      BY <1>4, <2>1, <2>3
    <3>2. ToSet(up'[c]) = {}
      BY <3>1, EmptySet
    <3>3. Shook(c)'
      BY <1>2, <1>4, <2>1, <2>3, <3>1, <3>2 DEF Shook
    <3> QED
      BY <1>4, <3>3, HandshakenOthers
  <2> QED
    BY <2>2, <2>3
<1> QED
  BY <1>5, <1>6

\* A child whose bridge closes, or that is told to stop or what to run, and tells nothing.
LEMMA TurnsHandshaken ==
    ASSUME UnderstoodInv, NEW c \in Children, process[c] # "none",
           NEW step \in {"assigned", "stopping", "ended"}, process' = [process EXCEPT ![c] = step],
           step = "stopping" => process[c] \in {"assigned", "on", "stopping"},
           step = "assigned" => slot[c] = "greeted" /\ up[c] = <<>>,
           up' = up, slot' = slot, linked' = linked, stopping' = stopping
    PROVE  Handshaken'
<1>1. Shook(c) /\ process \in [Children -> Processes]
  BY InvIs DEF UnderstoodInv, Handshaken
<1>2. process'[c] = step /\ \A x \in Children : x # c => process'[x] = process[x]
  BY <1>1
<1>3. Shook(c)'
  BY <1>1, <1>2 DEF Shook, Greeted
<1> QED
  BY <1>2, <1>3, HandshakenOthers

\* A child that is told what to run has been greeted, and its parent has read all it told.
LEMMA AssignmentIs ==
    ASSUME UnderstoodInv, NEW c \in Children, TakesAssignment(c)
    PROVE  slot[c] = "greeted" /\ up[c] = <<>>
<1>1. /\ process[c] = "greeting" /\ down[c] # <<>> /\ Head(down[c]).type = "assignment"
      /\ down[c] \in Seq(Messages)
  BY InvIs DEF TakesAssignment, Told, Reads, First, UnderstoodInv, Channels
<1>2. Head(down[c]) \in ToSet(down[c])
  BY <1>1, TailSet
<1>3. slot[c] = "greeted"
  BY <1>1, <1>2 DEF UnderstoodInv, Handed, Hand, Unassigned
<1>4. Shook(c)
  BY DEF UnderstoodInv, Handshaken
<1>5. CASE stopping
  BY <1>3, <1>5, InvIs DEF UnderstoodInv
<1>6. CASE ~stopping
  BY <1>1, <1>3, <1>4, <1>6 DEF Shook
<1> QED
  BY <1>5, <1>6

LEMMA ChildHandshaken ==
    ASSUME UnderstoodInv, NEW c \in Children, ChildMoves(c)
    PROVE  Handshaken'
<1>1. /\ Shook(c) /\ up \in Channels /\ asking \in [Children -> 0..MaxRequests]
      /\ process \in [Children -> Processes]
  BY InvIs DEF UnderstoodInv, Handshaken
<1>2. CASE Asks(c)
  <2>1. requests + 1 \in 0..MaxRequests
    BY <1>2, KnownIs, PermitsAssumption DEF Asks
  <2>2. Message("identify", requests + 1) \in Messages /\ Message("identify", requests + 1).type = "identify"
    BY <2>1 DEF Message, Messages
  <2>3. /\ Tells(c, <<Message("identify", requests + 1)>>) /\ process[c] = "on" /\ process' = process
        /\ slot' = slot /\ linked' = linked /\ stopping' = stopping
    BY <1>2 DEF Asks, ChildUnchanged, parentVars
  <2>4. /\ <<Message("identify", requests + 1)>> \in Seq(Messages)
        /\ ToSet(<<Message("identify", requests + 1)>>) = {Message("identify", requests + 1)}
    BY <2>2, OneMessage
  <2> QED
    BY <2>2, <2>3, <2>4, TellingHandshaken
<1>3. CASE Withdraws(c)
  <2>1. Message("cancel", asking[c]) \in Messages /\ Message("cancel", asking[c]).type = "cancel"
    BY CancelIs DEF Message, UnderstoodInv
  <2>2. /\ Tells(c, <<Message("cancel", asking[c])>>) /\ process[c] \in {"on", "stopping"}
        /\ process' = process /\ slot' = slot /\ linked' = linked /\ stopping' = stopping
    BY <1>3 DEF Withdraws, ChildUnchanged, parentVars
  <2>3. /\ <<Message("cancel", asking[c])>> \in Seq(Messages)
        /\ ToSet(<<Message("cancel", asking[c])>>) = {Message("cancel", asking[c])}
    BY <2>1, OneMessage
  <2> QED
    BY <2>1, <2>2, <2>3, TellingHandshaken
<1>4. CASE Identifies(c)
  <2>1. Message("sent", asking[c]) \in Messages /\ Message("sent", asking[c]).type = "sent"
    BY <1>1 DEF Message, Messages
  <2>2. /\ Tells(c, <<Message("sent", asking[c])>>) /\ process[c] \in {"on", "stopping"}
        /\ process' = process /\ slot' = slot /\ linked' = linked /\ stopping' = stopping
    BY <1>4 DEF Identifies, Told, parentVars
  <2>3. /\ <<Message("sent", asking[c])>> \in Seq(Messages)
        /\ ToSet(<<Message("sent", asking[c])>>) = {Message("sent", asking[c])}
    BY <2>1, OneMessage
  <2> QED
    BY <2>1, <2>2, <2>3, TellingHandshaken
<1>5. CASE Closes(c) /\ process[c] # "greeting"
  <2> DEFINE closed == Message("closed", 0)
             cancel == Message("cancel", asking[c])
             last == IF asking[c] = 0 THEN <<>> ELSE <<cancel>>
  <2>1. /\ closed \in Messages /\ cancel \in Messages /\ closed.type = "closed" /\ cancel.type = "cancel"
    BY CancelIs, ControlIs DEF Message, UnderstoodInv
  <2>2. /\ Tells(c, <<closed>> \o last) /\ process[c] \in {"assigned", "on", "stopping"}
        /\ process' = [process EXCEPT ![c] = "ended"]
        /\ slot' = slot /\ linked' = linked /\ stopping' = stopping
    BY <1>5 DEF Closes, Ends, Bridged, ChildUnchanged, parentVars
  <2> HIDE DEF closed, cancel
  <2>3. /\ <<closed>> \in Seq(Messages) /\ ToSet(<<closed>>) = {closed}
        /\ <<cancel>> \in Seq(Messages) /\ ToSet(<<cancel>>) = {cancel}
    BY <2>1, OneMessage
  <2>4. last \in {<<>>, <<cancel>>} /\ <<>> \in Seq(Messages)
    OBVIOUS
  <2> HIDE DEF last
  <2>5. last \in Seq(Messages) /\ ToSet(last) \subseteq {cancel}
    BY <2>3, <2>4, EmptySet
  <2>6. <<closed>> \o last \in Seq(Messages) /\ ToSet(<<closed>> \o last) \subseteq {closed, cancel}
    BY <2>3, <2>5, ConcatSet
  <2> QED
    BY <2>1, <2>2, <2>6, TellingHandshaken
<1>6. CASE Greets(c) \/ Boots(c)
  BY <1>6, StartsHandshaken
<1>7. CASE LosesParent(c) \/ MistakesShutdown(c) \/ (Closes(c) /\ process[c] = "greeting")
  <2>1. /\ process' = [process EXCEPT ![c] = "ended"] /\ process[c] # "none"
        /\ up' = up /\ slot' = slot /\ linked' = linked /\ stopping' = stopping
    BY <1>7 DEF LosesParent, MistakesShutdown, Closes, Ends, Bridged, Reads, ChildUnchanged, parentVars
  <2> QED
    BY <2>1, TurnsHandshaken
<1>8. CASE Answered(c)
  <2>1. slot' = slot /\ process' = process /\ linked' = linked /\ up' = up /\ stopping' = stopping
    BY <1>8 DEF Answered, Told, parentVars
  <2> QED
    BY <2>1, HandshakenKept
<1>9. CASE ToldToStop(c)
  <2>1. /\ process' = [process EXCEPT ![c] = "stopping"] /\ process[c] \in {"assigned", "on", "stopping"}
        /\ up' = up /\ slot' = slot /\ linked' = linked /\ stopping' = stopping
    BY <1>9 DEF ToldToStop, Told, Reads, Bridged, parentVars
  <2> QED
    BY <2>1, TurnsHandshaken
<1>10. CASE TakesAssignment(c)
  <2>1. /\ process' = [process EXCEPT ![c] = "assigned"] /\ process[c] # "none"
        /\ up' = up /\ slot' = slot /\ linked' = linked /\ stopping' = stopping
    BY <1>10 DEF TakesAssignment, Told, parentVars
  <2>2. slot[c] = "greeted" /\ up[c] = <<>>
    BY <1>10, AssignmentIs
  <2> QED
    BY <2>1, <2>2, TurnsHandshaken
<1> QED
  BY <1>2, <1>3, <1>4, <1>5, <1>6, <1>7, <1>8, <1>9, <1>10 DEF ChildMoves

\* Every step keeps the handshake.
LEMMA AllHandshaken ==
    ASSUME UnderstoodInv, Next
    PROVE  Handshaken'
<1>1. CASE GrantTimerFires \/ AckExpires \/ Tick
  <2>1. slot' = slot /\ process' = process /\ linked' = linked /\ up' = up /\ stopping' = stopping
    BY <1>1 DEF GrantTimerFires, AckExpires, Tick, parentVars, childVars
  <2> QED
    BY <2>1, HandshakenKept
<1>2. ASSUME NEW r \in permits, Settling(r)
      PROVE  Handshaken'
  <2>1. slot' = slot /\ process' = process /\ linked' = linked /\ up' = up /\ stopping' = stopping
    BY <1>2 DEF Settling, PermitGiven, PermitRefused, parentVars, childVars
  <2> QED
    BY <2>1, HandshakenKept
<1>3. CASE ShutDown \/ \E c \in Children : StartupExpires(c) \/ DisconnectExpires(c)
  <2>1. BeginsShutdown(Running, outstanding, down) /\ process' = process /\ linked' = linked
    BY <1>3 DEF ShutDown, StartupExpires, DisconnectExpires, childVars
  <2> QED
    BY <2>1, ShutdownHandshaken
<1> QED
  BY <1>1, <1>2, <1>3, ChannelHandshaken, ExitsHandshaken, HearingHandshaken, ChildHandshaken DEF Next

-----------------------------------------------------------------------------
(* Children without a client *)

YoungOnes == {x \in Children : process[x] \in Young}

LEMMA YoungIs ==
    ASSUME UnderstoodInv
    PROVE  /\ \A x \in Children : Hand(x)
           /\ \A e \in ToSet(pending) : e.child \notin YoungOnes
           /\ outstanding # None => outstanding.child \notin YoungOnes
           /\ \A x \in Children : \A m \in Contents(up)[x] : m.type # "hello" => x \notin YoungOnes
<1>1. \A x \in Children : Hand(x)
  BY DEF UnderstoodInv, Handed
<1>2. ASSUME NEW e \in ToSet(pending), e.child \in YoungOnes
      PROVE  FALSE
  <2> DEFINE c == e.child
             r == e.request
             Q == ToSet(pending)
             U == Contents(up)
  <2>1. c \in Children /\ r \in Requests /\ r # 0 /\ e = [child |-> c, request |-> r]
    <3>1. e \in Entries
      BY KnownIs
    <3> QED
      BY <3>1, EntryIs, PermitsAssumption DEF Requests
  <2>2. Fit(Q, outstanding, Contents(down), U, asking, cancelled, process, requests)
    BY KnownIs
  <2>3. process[c] \in {"booting", "greeting", "assigned", "none"} /\ asking[c] = 0 /\ cancelled[c] = {}
    BY <1>1, <1>2 DEF YoungOnes, Hand, Young
  <2>4. Open(Q, outstanding, U, c, r)
    BY <1>2, <2>1 DEF Open, Waits
  <2> HIDE DEF c, r, Q, U
  <2>5. /\ process[c] # "none"
        /\ process[c] # "ended" => asking[c] = r \/ r \in cancelled[c]
    BY <2>1, <2>2, <2>4 DEF Fit
  <2> QED
    BY <2>1, <2>3, <2>5
<1>3. outstanding # None => outstanding.child \notin YoungOnes
  BY <1>1 DEF YoungOnes, Hand, Holds
<1>4. \A x \in Children : \A m \in Contents(up)[x] : m.type # "hello" => x \notin YoungOnes
  BY <1>1 DEF YoungOnes, Hand, Contents
<1> QED
  BY <1>1, <1>2, <1>3, <1>4

\* A child that a step does not concern, or concerns only once it has a client, stays as it is.
LEMMA HandKept ==
    ASSUME UnderstoodInv, NEW x \in Children, process'[x] = process[x], asking'[x] = asking[x],
           cancelled'[x] = cancelled[x], stopping' = stopping,
           x \in YoungOnes => slot'[x] = slot[x] /\ down'[x] = down[x],
           outstanding' # None /\ outstanding'.child = x => x \notin YoungOnes,
           \A m \in ToSet(up'[x]) : m \in ToSet(up[x]),
           \A m \in ToSet(down'[x]) : m \in ToSet(down[x]) \/ m.type # "assignment"
    PROVE  Hand(x)'
<1>1. Hand(x)
  BY YoungIs
<1>2. CASE x \in YoungOnes
  <2>1. slot'[x] = slot[x] /\ down'[x] = down[x] /\ ~Holds(x)'
    BY <1>2 DEF Holds
  <2> QED
    BY <1>1, <2>1 DEF Hand
<1>3. CASE x \notin YoungOnes
  <2>1. process[x] \notin Young
    BY <1>3 DEF YoungOnes
  <2> QED
    BY <1>1, <2>1 DEF Hand, Young, Unassigned
<1> QED
  BY <1>2, <1>3

\* A step of the parent that tells only children with a client
LEMMA ParentHands ==
    ASSUME UnderstoodInv, process' = process, asking' = asking, cancelled' = cancelled, stopping' = stopping,
           \A x \in YoungOnes : slot'[x] = slot[x] /\ down'[x] = down[x],
           outstanding' # None => outstanding'.child \notin YoungOnes,
           \A x \in Children : Contents(up')[x] \subseteq Contents(up)[x],
           \A x \in Children : \A m \in Contents(down')[x] : m \in Contents(down)[x] \/ m.type # "assignment"
    PROVE  Handed'
<1>1. ASSUME NEW x \in Children
      PROVE  Hand(x)'
  <2>1. /\ \A m \in ToSet(up'[x]) : m \in ToSet(up[x])
        /\ \A m \in ToSet(down'[x]) : m \in ToSet(down[x]) \/ m.type # "assignment"
    BY DEF Contents
  <2> QED
    BY <2>1, HandKept
<1> QED
  BY <1>1 DEF Handed

LEMMA SentHands ==
    ASSUME NEW ch \in Channels, NEW c \in Children, NEW m \in Messages, m.type # "assignment"
    PROVE  /\ Sent(ch, c, m) \in Channels
           /\ \A x \in Children : x # c => Sent(ch, c, m)[x] = ch[x]
           /\ \A x \in Children : \A w \in Contents(Sent(ch, c, m))[x] :
                  w \in Contents(ch)[x] \/ w.type # "assignment"
<1>1. /\ Sent(ch, c, m) \in Channels
      /\ \A x \in Children : Contents(Sent(ch, c, m))[x] \subseteq Contents(ch)[x] \cup (IF x = c THEN {m} ELSE {})
  BY SentIs
<1>2. \A x \in Children : x # c => Sent(ch, c, m)[x] = ch[x]
  BY DEF Sent, Channels
<1> QED
  BY <1>1, <1>2

\* What is outstanding is of no child of Y, whose channels are as they were, and no child is told what to run.
Spared(Y, o, new, old) ==
    /\ o # None => o.child \notin Y
    /\ \A x \in Children : x \in Y => new[x] = old[x]
    /\ \A x \in Children : \A m \in Contents(new)[x] : m \in Contents(old)[x] \/ m.type # "assignment"

LEMMA ScheduleHands ==
    ASSUME coordinated \in BOOLEAN, NEW Y, NEW queue \in Seq(Entries), \A e \in ToSet(queue) : e.child \notin Y,
           NEW current, current # None => current.child \notin Y,
           NEW timer, NEW since, NEW unsettled, NEW ch \in Channels,
           Schedule(queue, current, timer, since, unsettled, ch)
    PROVE  Spared(Y, outstanding', down', ch)
<1>1. CASE timer \/ current # None \/ queue = <<>> \/ since < Spacing
  <2>1. outstanding' = current /\ down' = ch
    BY <1>1 DEF Schedule
  <2> QED
    BY <2>1 DEF Spared
<1>2. CASE ~(timer \/ current # None \/ queue = <<>> \/ since < Spacing)
  <2> DEFINE next == Head(queue)
             grant == Message("grant", next.request)
  <2>1. /\ outstanding'.child = next.child /\ queue # <<>>
        /\ down' = ch \/ down' = Sent(ch, next.child, grant)
    BY <1>2 DEF Schedule
  <2>2. next \in Entries /\ next \in ToSet(queue)
    BY <2>1, TailSet
  <2> HIDE DEF next
  <2>3. next.child \in Children /\ next.request \in Requests /\ next.child \notin Y
    BY <2>2, EntryIs
  <2>4. grant \in Messages /\ grant.type # "assignment"
    BY <2>3, PermitsAssumption DEF Message, Messages, Requests
  <2> HIDE DEF grant
  <2>5. CASE down' = ch
    BY <2>1, <2>3, <2>5 DEF Spared
  <2>6. CASE down' = Sent(ch, next.child, grant)
    <3>1. /\ \A x \in Children : x # next.child => Sent(ch, next.child, grant)[x] = ch[x]
          /\ \A x \in Children : \A w \in Contents(Sent(ch, next.child, grant))[x] :
                 w \in Contents(ch)[x] \/ w.type # "assignment"
      BY <2>3, <2>4, SentHands
    <3> QED
      BY <2>1, <2>3, <2>6, <3>1 DEF Spared
  <2> QED
    BY <2>1, <2>5, <2>6
<1> QED
  BY <1>1, <1>2

\* A step of the parent that ends by scheduling
LEMMA ScheduledHands ==
    ASSUME UnderstoodInv, process' = process, asking' = asking, cancelled' = cancelled, stopping' = stopping,
           slot' = slot, \A x \in Children : Contents(up')[x] \subseteq Contents(up)[x],
           NEW queue \in Seq(Entries), \A e \in ToSet(queue) : e.child \notin YoungOnes,
           NEW current, current = None \/ current = outstanding,
           NEW timer, NEW since, NEW unsettled, NEW ch \in Channels,
           \A x \in YoungOnes : ch[x] = down[x],
           \A x \in Children : \A m \in Contents(ch)[x] : m \in Contents(down)[x] \/ m.type # "assignment",
           Schedule(queue, current, timer, since, unsettled, ch)
    PROVE  Handed'
<1>1. coordinated \in BOOLEAN
  BY InvIs DEF UnderstoodInv
<1>2. current # None => current.child \notin YoungOnes
  BY YoungIs
<1>3. PICK Y : Y = YoungOnes
  OBVIOUS
<1>4. /\ \A e \in ToSet(queue) : e.child \notin Y
      /\ current # None => current.child \notin Y
  BY <1>2, <1>3
<1>5. Spared(Y, outstanding', down', ch)
  BY <1>1, <1>4, ScheduleHands
<1>6. /\ \A x \in YoungOnes : slot'[x] = slot[x] /\ down'[x] = down[x]
      /\ outstanding' # None => outstanding'.child \notin YoungOnes
      /\ \A x \in Children : \A m \in Contents(down')[x] : m \in Contents(down)[x] \/ m.type # "assignment"
  BY <1>3, <1>5 DEF YoungOnes, Spared
<1> QED
  BY <1>6, ParentHands

LEMMA GrantingHands ==
    ASSUME UnderstoodInv, GrantTimerFires \/ Tick \/ \E r \in permits : Settling(r)
    PROVE  Handed'
<1>1. /\ process' = process /\ asking' = asking /\ cancelled' = cancelled /\ stopping' = stopping
      /\ slot' = slot /\ up' = up
  BY DEF GrantTimerFires, Tick, Settling, PermitGiven, PermitRefused, childVars, parentVars
<1>2. /\ pending \in Seq(Entries) /\ down \in Channels
      /\ \A e \in ToSet(pending) : e.child \notin YoungOnes
      /\ outstanding # None => /\ outstanding.child \notin YoungOnes /\ outstanding \in Outstanding
                               /\ outstanding.child \in Children /\ outstanding.request \in Requests
  BY InvIs, YoungIs, KnownIs DEF UnderstoodInv
<1>3. CASE GrantTimerFires
  <2>1. Schedule(pending, outstanding, FALSE, age, permits, down)
    BY <1>3 DEF GrantTimerFires
  <2> QED
    BY <1>1, <1>2, <2>1, ScheduledHands
<1>4. CASE outstanding' = outstanding /\ down' = down
  BY <1>1, <1>2, <1>4, ParentHands
<1>5. ASSUME NEW r \in permits, Current(r), Settling(r)
      PROVE  Handed'
  <2> DEFINE c == outstanding.child
  <2>1. outstanding # None /\ c \in Children /\ r \in Requests /\ c \notin YoungOnes
    BY <1>2, <1>5 DEF Current
  <2> HIDE DEF c
  <2>2. ASSUME NEW type \in {"grant", "denied"}
        PROVE  /\ Sent(down, c, Message(type, r)) \in Channels
               /\ \A x \in YoungOnes : Sent(down, c, Message(type, r))[x] = down[x]
               /\ \A x \in Children : \A w \in Contents(Sent(down, c, Message(type, r)))[x] :
                      w \in Contents(down)[x] \/ w.type # "assignment"
    <3>1. Message(type, r) \in Messages /\ Message(type, r).type # "assignment"
      BY <2>1, PermitsAssumption DEF Message, Messages, Requests
    <3> QED
      BY <1>2, <2>1, <3>1, SentHands DEF YoungOnes
  <2>3. CASE PermitGiven(r)
    <3>1. /\ outstanding' = [outstanding EXCEPT !.granted = TRUE]
          /\ down' = Sent(down, c, Message("grant", r))
      BY <1>5, <2>3 DEF PermitGiven, c
    <3>2. outstanding'.child = c
      BY <1>2, <2>1, <3>1 DEF Outstanding, c
    <3> QED
      BY <1>1, <2>1, <2>2, <3>1, <3>2, ParentHands
  <2>4. CASE PermitRefused(r)
    <3> DEFINE sent == Sent(down, c, Message("denied", r))
    <3>1. Schedule(pending, None, grantTimer, age, permits \ {r}, sent)
      BY <1>5, <2>4 DEF PermitRefused, c
    <3>2. /\ sent \in Channels /\ \A x \in YoungOnes : sent[x] = down[x]
          /\ \A x \in Children : \A w \in Contents(sent)[x] : w \in Contents(down)[x] \/ w.type # "assignment"
      BY <2>2
    <3> HIDE DEF sent
    <3> QED
      BY <1>1, <1>2, <3>1, <3>2, ScheduledHands
  <2> QED
    BY <1>5, <2>3, <2>4 DEF Settling
<1>6. ASSUME NEW r \in permits, ~Current(r), Settling(r)
      PROVE  Handed'
  BY <1>4, <1>6 DEF Settling, PermitGiven, PermitRefused
<1>7. CASE Tick
  BY <1>4, <1>7 DEF Tick, grantVars
<1> QED
  BY <1>3, <1>5, <1>6, <1>7

\* A child with a client is asked to stop.
LEMMA StopsHands ==
    ASSUME UnderstoodInv, NEW c \in Children, c \notin YoungOnes, Stops({c}, down)
    PROVE  /\ \A x \in YoungOnes : down'[x] = down[x]
           /\ \A x \in Children : \A m \in Contents(down')[x] : m \in Contents(down)[x] \/ m.type # "assignment"
<1>1. down \in Channels /\ DownFine(down)
  BY InvIs, KnownIs DEF UnderstoodInv
<1>2. \A x \in YoungOnes : down'[x] = down[x]
  BY DEF Stops, YoungOnes
<1>3. \A x \in Children : \A m \in Contents(down')[x] :
          m \in Contents(down)[x] \/ (m.type = "shutdown" /\ m.request = 0)
  BY <1>1, StopsFine
<1> QED
  BY <1>2, <1>3

LEMMA AckExpiresHands ==
    ASSUME UnderstoodInv, AckExpires
    PROVE  Handed'
<1> DEFINE c == outstanding.child
<1>1. /\ process' = process /\ asking' = asking /\ cancelled' = cancelled /\ stopping' = stopping
      /\ slot' = slot /\ up' = up /\ outstanding # None
      /\ outstanding' = [outstanding EXCEPT !.stalled = TRUE] /\ Stops({c}, down)
  BY DEF AckExpires, childVars
<1>2. c \in Children /\ c \notin YoungOnes /\ outstanding'.child = c
  BY <1>1, YoungIs, KnownIs DEF Outstanding
<1> HIDE DEF c
<1> QED
  BY <1>1, <1>2, StopsHands, ParentHands

LEMMA DisconnectsHands ==
    ASSUME UnderstoodInv, NEW c \in Children, Disconnects(c)
    PROVE  Handed'
<1>1. /\ process' = process /\ asking' = asking /\ cancelled' = cancelled /\ stopping' = stopping
      /\ slot' = slot /\ down' = down /\ up' = [up EXCEPT ![c] = <<>>]
      /\ outstanding' = outstanding
             \/ (outstanding # None /\ outstanding' = [outstanding EXCEPT !.muted = TRUE])
  BY DEF Disconnects, Holds
<1>2. outstanding' # None => outstanding'.child \notin YoungOnes
  BY <1>1, YoungIs, KnownIs DEF Outstanding
<1>3. up \in Channels
  BY InvIs DEF UnderstoodInv
<1>4. \A x \in Children : Contents(up')[x] \subseteq Contents(up)[x]
  BY <1>1, <1>3, ClearedIs
<1> QED
  BY <1>1, <1>2, <1>4, ParentHands

\* A hello that is read is of a child that was told nothing yet, or that ended.
LEMMA HearsHelloHands ==
    ASSUME UnderstoodInv, NEW c \in Children, HearsHello(c)
    PROVE  Handed'
<1> DEFINE assignment == Message("assignment", 0)
<1>1. /\ process' = process /\ asking' = asking /\ cancelled' = cancelled /\ stopping' = stopping
      /\ outstanding' = outstanding /\ slot[c] = "starting" /\ slot' = [slot EXCEPT ![c] = "greeted"]
      /\ down' = Sent(down, c, assignment)
  BY DEF HearsHello, childVars, grantVars
<1>2. /\ up[c] # <<>> /\ \A x \in Children : Contents(up')[x] \subseteq Contents(up)[x]
      /\ down \in Channels /\ stopping = FALSE
  BY HeardFine DEF HearsHello
<1>3. /\ Shook(c) /\ Hand(c) /\ slot \in [Children -> Slots] /\ process \in [Children -> Processes]
  BY InvIs DEF UnderstoodInv, Handshaken, Handed, Sized
<1>4. process[c] \in {"greeting", "ended"} /\ c \in linked
  BY <1>1, <1>2, <1>3 DEF Shook, Processes
<1>5. assignment.type = "assignment" /\ assignment \in Messages
  BY PermitsAssumption DEF Message, Messages
<1> HIDE DEF assignment
<1>6. /\ \A x \in Children : x # c => down'[x] = down[x]
      /\ process[c] = "ended" => down'[c] = down[c]
      /\ process[c] # "ended" => down'[c] = Append(down[c], assignment)
  BY <1>1, <1>2, <1>4 DEF Sent, Reached, Channels
<1>7. \A x \in Children : x # c => slot'[x] = slot[x]
  BY <1>1, <1>3
<1>8. ASSUME NEW x \in Children, x # c \/ process[c] = "ended"
      PROVE  Hand(x)'
  <2>1. /\ down'[x] = down[x]
        /\ x \in YoungOnes => slot'[x] = slot[x]
        /\ \A m \in ToSet(up'[x]) : m \in ToSet(up[x])
        /\ outstanding' # None /\ outstanding'.child = x => x \notin YoungOnes
    BY <1>1, <1>2, <1>6, <1>7, <1>8, YoungIs DEF YoungOnes, Young, Contents
  <2> QED
    BY <1>1, <2>1, HandKept
<1>9. CASE process[c] = "greeting"
  <2>1. slot[c] = "starting" /\ down[c] = <<>>
    BY <1>1, <1>2, <1>3, <1>9 DEF Hand, Unassigned
  <2>2. down'[c] = <<assignment>>
    BY <1>6, <1>9, <2>1
  <2>3. /\ down'[c] # <<>> /\ Head(down'[c]) = assignment /\ Tail(down'[c]) = <<>>
        /\ ToSet(Tail(down'[c])) = {}
    BY <2>2, EmptySet
  <2>4. slot'[c] = "greeted"
    BY <1>1, <1>3
  <2>5. \A m \in ToSet(up'[c]) : m \in ToSet(up[c])
    BY <1>2 DEF Contents
  <2>6. Hand(c)'
    BY <1>1, <1>3, <1>5, <1>9, <2>3, <2>4, <2>5 DEF Hand, Holds, Young, Unassigned
  <2> QED
    BY <1>8, <2>6 DEF Handed
<1> QED
  BY <1>4, <1>8, <1>9 DEF Handed

LEMMA HearingHands ==
    ASSUME UnderstoodInv, NEW c \in Children, Hearing(c)
    PROVE  Handed'
<1>1. CASE HearsHello(c)
  BY <1>1, HearsHelloHands
<1>2. ASSUME ~HearsHello(c)
      PROVE  Handed'
  <2>1. PICK type \in {"ready", "identify", "cancel", "sent", "closed"} : Hears(c, type) /\ Takes(c)
    BY <1>2 DEF Hearing, HearsReady, HearsIdentify, HearsCancel, HearsSent, HearsEnd
  <2>2. /\ \A x \in Children : Contents(up')[x] \subseteq Contents(up)[x]
        /\ First(up, c) \in Messages /\ First(up, c) \in Contents(up)[c] /\ First(up, c).type = type
        /\ down \in Channels /\ pending \in Seq(Entries)
    BY <2>1, HeardFine
  <2>3. /\ c \notin YoungOnes /\ slot \in [Children -> Slots]
        /\ \A e \in ToSet(pending) : e.child \notin YoungOnes
        /\ outstanding # None => outstanding.child \notin YoungOnes
    BY <2>2, YoungIs DEF UnderstoodInv, Sized
  <2>4. /\ process' = process /\ asking' = asking /\ cancelled' = cancelled /\ stopping' = stopping
        /\ slot' = slot \/ slot' = [slot EXCEPT ![c] = "running"]
    BY <1>2 DEF Hearing, HearsReady, HearsIdentify, HearsCancel, HearsSent, HearsEnd, childVars, parentVars
  <2>5. \A x \in YoungOnes : slot'[x] = slot[x]
    BY <2>3, <2>4 DEF YoungOnes
  <2>6. CASE HearsReady(c)
    BY <2>2, <2>3, <2>4, <2>5, <2>6, ParentHands DEF HearsReady, grantVars
  <2>7. CASE HearsEnd(c)
    <3>1. Stops({c}, down) /\ outstanding' = outstanding
      BY <2>7 DEF HearsEnd, grantVars
    <3>2. /\ \A x \in YoungOnes : down'[x] = down[x]
          /\ \A x \in Children : \A m \in Contents(down')[x] : m \in Contents(down)[x] \/ m.type # "assignment"
      BY <2>3, <3>1, StopsHands
    <3> QED
      BY <2>2, <2>3, <2>4, <2>5, <3>1, <3>2, ParentHands
  <2>8. CASE HearsIdentify(c)
    <3> DEFINE e == [child |-> c, request |-> First(up, c).request]
               queue == Append(pending, e)
    <3>1. Schedule(queue, outstanding, grantTimer, age, permits, down) /\ slot' = slot
      BY <2>8 DEF HearsIdentify, parentVars
    <3>2. e \in Entries /\ e.child = c
      <4>1. /\ First(up, c) = Message("identify", First(up, c).request)
            /\ First(up, c) \in Contents(up)[c] /\ First(up, c) \in Messages
        BY <2>8, HeardFine DEF HearsIdentify
      <4>2. First(up, c).request >= 1 /\ First(up, c).request \in 0..MaxRequests
        BY <4>1, MessageIs DEF UnderstoodInv, PermitsInv, Good, Numbered, Message
      <4> QED
        BY <4>2, PermitsAssumption DEF Entries, Requests
    <3> HIDE DEF e
    <3>3. queue \in Seq(Entries) /\ ToSet(queue) = ToSet(pending) \cup {e}
      BY <2>2, <3>2, AppendSet
    <3> HIDE DEF queue
    <3>4. \A m \in ToSet(queue) : m.child \notin YoungOnes
      BY <2>3, <3>2, <3>3
    <3> QED
      BY <2>2, <2>4, <3>1, <3>3, <3>4, ScheduledHands
  <2>9. CASE HearsSent(c)
    <3>1. slot' = slot
      BY <2>9 DEF HearsSent, parentVars
    <3>2. CASE outstanding.stalled
      BY <2>2, <2>3, <2>4, <2>5, <2>9, <3>2, ParentHands DEF HearsSent, grantVars
    <3>3. CASE ~outstanding.stalled
      <4>1. Schedule(pending, None, grantTimer, FromIdentify, permits, down)
        BY <2>9, <3>3 DEF HearsSent
      <4> QED
        BY <2>2, <2>3, <2>4, <3>1, <4>1, ScheduledHands
    <3> QED
      BY <3>2, <3>3
  <2>10. CASE HearsCancel(c)
    <3> DEFINE m == Message("cancelled", First(up, c).request)
               reply == Sent(down, c, m)
    <3>1. m \in Messages /\ m.type # "assignment"
      BY <2>2, MessageIs DEF Message, Messages
    <3> HIDE DEF m
    <3>2. /\ reply \in Channels /\ \A x \in YoungOnes : reply[x] = down[x]
          /\ \A x \in Children : \A w \in Contents(reply)[x] : w \in Contents(down)[x] \/ w.type # "assignment"
      BY <2>2, <2>3, <3>1, SentHands DEF YoungOnes
    <3>3. slot' = slot
      BY <2>10 DEF HearsCancel, parentVars
    <3>4. \/ outstanding' = outstanding /\ down' \in {down, reply}
          \/ Schedule(pending, None, grantTimer, age, permits, reply)
      BY <2>10 DEF HearsCancel, grantVars, m
    <3> HIDE DEF reply
    <3>5. CASE outstanding' = outstanding /\ down' \in {down, reply}
      BY <2>2, <2>3, <2>4, <2>5, <3>2, <3>5, ParentHands
    <3>6. CASE Schedule(pending, None, grantTimer, age, permits, reply)
      BY <2>2, <2>3, <2>4, <3>2, <3>3, <3>6, ScheduledHands
    <3> QED
      BY <3>4, <3>5, <3>6
  <2> QED
    BY <1>2, <2>6, <2>7, <2>8, <2>9, <2>10 DEF Hearing
<1> QED
  BY <1>1, <1>2

\* A supervisor that begins to stop tells a child last, and those it does not tell run no more.
LEMMA ShutdownHands ==
    ASSUME UnderstoodInv, NEW left, NEW current, NEW channels \in Channels,
           BeginsShutdown(left, current, channels),
           current # None => /\ current = outstanding
                             /\ process'[current.child] = process[current.child],
           \A x \in Children : x \notin left =>
               process'[x] = "none" /\ asking'[x] = 0 /\ cancelled'[x] = {} /\ channels[x] = <<>>,
           \A x \in Children : x \in left =>
               /\ process'[x] = process[x] /\ process[x] # "none" /\ asking'[x] = asking[x]
               /\ cancelled'[x] = cancelled[x] /\ channels[x] = down[x]
    PROVE  Handed'
<1> DEFINE stop == Message("shutdown", 0)
<1>1. stop \in Messages /\ stop.type = "shutdown"
  BY PermitsAssumption DEF Message, Messages
<1>2. /\ stopping' = TRUE /\ \A x \in Children : up'[x] = <<>>
      /\ \A x \in Children : x \in left => slot'[x] = slot[x]
      /\ outstanding' = IF current = None \/ left = {} THEN None ELSE [current EXCEPT !.muted = TRUE]
      /\ \A x \in Children : x \notin left => down'[x] = channels[x]
      /\ \A x \in Children : down'[x] \in {channels[x], Append(channels[x], stop)}
  BY DEF BeginsShutdown, Stops
<1> HIDE DEF stop
<1>3. outstanding' # None => process'[outstanding'.child] \notin Young
  <2>1. outstanding # None =>
            /\ outstanding \in Outstanding /\ outstanding.child \in Children
            /\ outstanding.child \notin YoungOnes
    BY KnownIs, YoungIs
  <2> QED
    BY <1>2, <2>1 DEF YoungOnes, Outstanding
<1>4. ASSUME NEW x \in Children
      PROVE  Hand(x)'
  <2>1. ToSet(up'[x]) = {}
    BY <1>2, EmptySet
  <2>2. ~Holds(x)' \/ process'[x] \notin Young
    BY <1>3 DEF Holds
  <2>3. CASE x \notin left
    <3>1. down'[x] = <<>> /\ ToSet(down'[x]) = {}
      BY <1>2, <2>3, EmptySet
    <3> QED
      BY <2>1, <2>2, <2>3, <3>1 DEF Hand, Young, Unassigned
  <2>4. CASE x \in left
    <3>1. /\ process'[x] = process[x] /\ process[x] # "none" /\ asking'[x] = asking[x]
          /\ cancelled'[x] = cancelled[x] /\ slot'[x] = slot[x]
          /\ down'[x] \in {down[x], Append(down[x], stop)}
      BY <1>2, <2>4
    <3>2. down[x] \in Seq(Messages) /\ Hand(x)
      BY InvIs, YoungIs DEF UnderstoodInv, Channels
    <3>3. \A m \in ToSet(down'[x]) : m \in ToSet(down[x]) \/ m = stop
      <4>1. ToSet(Append(down[x], stop)) = ToSet(down[x]) \cup {stop}
        BY <1>1, <3>2, AppendSet
      <4> QED
        BY <3>1, <4>1
    <3>4. down[x] # <<>> => /\ down'[x] # <<>> /\ Head(down'[x]) = Head(down[x])
                            /\ \A m \in ToSet(Tail(down'[x])) : m \in ToSet(Tail(down[x])) \/ m = stop
      <4> SUFFICES ASSUME down[x] # <<>>
                   PROVE  /\ down'[x] # <<>> /\ Head(down'[x]) = Head(down[x])
                          /\ \A m \in ToSet(Tail(down'[x])) : m \in ToSet(Tail(down[x])) \/ m = stop
        OBVIOUS
      <4>1. CASE down'[x] = down[x]
        BY <4>1
      <4>2. CASE down'[x] = Append(down[x], stop)
        <5>0. Tail(down[x]) \in Seq(Messages)
          BY <3>2, TailSet
        <5>1. PICK rest \in Seq(Messages) : rest = Tail(down[x])
          BY <5>0
        <5>2. /\ Append(down[x], stop) # <<>> /\ Head(Append(down[x], stop)) = Head(down[x])
              /\ Tail(Append(down[x], stop)) = Append(rest, stop)
          BY <1>1, <3>2, <5>1
        <5>3. ToSet(Append(rest, stop)) = ToSet(rest) \cup {stop}
          BY <1>1, AppendSet
        <5>4. ToSet(Tail(down'[x])) = ToSet(Tail(down[x])) \cup {stop}
          BY ONLY <4>2, <5>1, <5>2, <5>3
        <5> QED
          BY <4>2, <5>2, <5>4
      <4> QED
        BY <3>1, <4>1, <4>2
    <3>5. process[x] \in Young => asking'[x] = 0 /\ cancelled'[x] = {}
      BY <3>1, <3>2 DEF Hand
    <3>6. process[x] \notin Unassigned => \A m \in ToSet(down'[x]) : m.type # "assignment"
      BY <1>1, <3>2, <3>3 DEF Hand
    <3>7. process[x] \in Unassigned =>
              \/ slot'[x] = "starting" /\ \A m \in ToSet(down'[x]) : m.type = "shutdown"
              \/ /\ slot'[x] = "greeted" /\ process'[x] = "greeting" /\ down'[x] # <<>>
                 /\ Head(down'[x]).type = "assignment"
                 /\ \A m \in ToSet(Tail(down'[x])) : m.type = "shutdown"
      BY <1>1, <3>1, <3>2, <3>3, <3>4 DEF Hand
    <3> QED
      BY <1>2, <2>1, <2>2, <3>1, <3>5, <3>6, <3>7 DEF Hand
  <2> QED
    BY <2>3, <2>4
<1> QED
  BY <1>4 DEF Handed

LEMMA ShutDownHands ==
    ASSUME UnderstoodInv, BeginsShutdown(Running, outstanding, down), UNCHANGED childVars
    PROVE  Handed'
<1>1. process' = process /\ asking' = asking /\ cancelled' = cancelled /\ down \in Channels
  BY InvIs DEF childVars, UnderstoodInv
<1>2. \A x \in Children : Hand(x)
  BY YoungIs
<1>3. \A x \in Children : x \in Running <=> process[x] # "none"
  BY DEF Running, Alive
<1>4. \A x \in Children : x \notin Running => asking[x] = 0 /\ cancelled[x] = {} /\ down[x] = <<>>
  BY <1>2, <1>3 DEF Hand, Young
<1> QED
  BY <1>1, <1>3, <1>4, ShutdownHands

LEMMA ExitsHands ==
    ASSUME UnderstoodInv, NEW c \in Children, Exits(c)
    PROVE  Handed'
<1> DEFINE rest == [down EXCEPT ![c] = <<>>]
           current == AfterExit(c)
           left == Running \ {c}
<1>1. /\ process' = [process EXCEPT ![c] = "none"]
      /\ asking' = [asking EXCEPT ![c] = 0] /\ cancelled' = [cancelled EXCEPT ![c] = {}]
      /\ \/ /\ stopping /\ stopping' = stopping /\ up' = up /\ down' = rest
            /\ slot' = [slot EXCEPT ![c] = "over"]
            /\ outstanding' = (IF left = {} THEN None ELSE current)
         \/ BeginsShutdown(left, current, rest)
         \/ /\ stopping' = stopping /\ up' = [up EXCEPT ![c] = <<>>]
            /\ slot' = [slot EXCEPT ![c] = "restarting"]
            /\ \E queue \in Left(RequestsOf(c)) :
                   Schedule(queue, current, grantTimer, SinceExit(c), permits, rest)
  BY DEF Exits
<1>2. /\ up \in Channels /\ down \in Channels /\ pending \in Seq(Entries) /\ coordinated \in BOOLEAN
      /\ process \in [Children -> Processes] /\ asking \in [Children -> 0..MaxRequests]
      /\ cancelled \in [Children -> SUBSET Requests] /\ slot \in [Children -> Slots]
  BY InvIs, KnownIs DEF UnderstoodInv, Sized
<1>3. /\ process'[c] = "none" /\ asking'[c] = 0 /\ cancelled'[c] = {}
      /\ \A x \in Children : x # c =>
             process'[x] = process[x] /\ asking'[x] = asking[x] /\ cancelled'[x] = cancelled[x]
  BY <1>1, <1>2
<1>4. rest \in Channels /\ rest[c] = <<>> /\ \A x \in Children : x # c => rest[x] = down[x]
  <2>1. <<>> \in Seq(Messages)
    OBVIOUS
  <2> QED
    BY <1>2, <2>1 DEF Channels
<1>5. current # None => /\ current = outstanding /\ current.child # c /\ current.child \in Children
                        /\ current.child \notin YoungOnes
  BY KnownIs, YoungIs DEF AfterExit, Holds
<1> HIDE DEF rest, current
\* What the steps that do not begin to stop leave
<1>6. ASSUME stopping' = stopping, up'[c] = <<>>, down'[c] = <<>>,
             \A x \in Children : x # c => up'[x] = up[x] /\ slot'[x] = slot[x],
             outstanding' # None => outstanding'.child \notin YoungOnes \cup {c},
             \A x \in YoungOnes : x # c => down'[x] = down[x],
             \A x \in Children : \A m \in Contents(down')[x] : m \in Contents(down)[x] \/ m.type # "assignment"
      PROVE  Handed'
  <2>1. Hand(c)'
    <3>1. ToSet(up'[c]) = {} /\ ToSet(down'[c]) = {} /\ ~Holds(c)'
      BY <1>6, EmptySet DEF Holds
    <3> QED
      BY <1>3, <1>6, <3>1 DEF Hand, Young, Unassigned
  <2>2. ASSUME NEW x \in Children, x # c
        PROVE  Hand(x)'
    <3>1. /\ \A m \in ToSet(up'[x]) : m \in ToSet(up[x])
          /\ \A m \in ToSet(down'[x]) : m \in ToSet(down[x]) \/ m.type # "assignment"
      BY <1>6, <2>2 DEF Contents
    <3> QED
      BY <1>3, <1>6, <2>2, <3>1, HandKept
  <2> QED
    BY <2>1, <2>2 DEF Handed
<1>7. CASE /\ stopping /\ stopping' = stopping /\ up' = up /\ down' = rest
           /\ slot' = [slot EXCEPT ![c] = "over"]
           /\ outstanding' = (IF left = {} THEN None ELSE current)
  <2>1. up'[c] = <<>>
    BY <1>7, InvIs DEF UnderstoodInv
  <2>2. \A x \in Children : \A m \in Contents(down')[x] : m \in Contents(down)[x] \/ m.type # "assignment"
    BY <1>4, <1>7, EmptySet DEF Contents
  <2>3. \A x \in YoungOnes : x # c => down'[x] = down[x]
    BY <1>4, <1>7 DEF YoungOnes
  <2> QED
    BY <1>2, <1>4, <1>5, <1>6, <1>7, <2>1, <2>2, <2>3
<1>8. CASE BeginsShutdown(left, current, rest)
  <2>1. \A x \in Children : x \in left <=> x # c /\ process[x] # "none"
    BY DEF Running, Alive
  <2>2. \A x \in Children : process[x] = "none" => asking[x] = 0 /\ cancelled[x] = {} /\ down[x] = <<>>
    BY YoungIs DEF Hand, Young
  <2> HIDE DEF left
  <2>3. \A x \in Children : x \notin left =>
            process'[x] = "none" /\ asking'[x] = 0 /\ cancelled'[x] = {} /\ rest[x] = <<>>
    BY <1>3, <1>4, <2>1, <2>2
  <2>4. \A x \in Children : x \in left =>
            /\ process'[x] = process[x] /\ process[x] # "none" /\ asking'[x] = asking[x]
            /\ cancelled'[x] = cancelled[x] /\ rest[x] = down[x]
    BY <1>3, <1>4, <2>1
  <2>5. current # None => current = outstanding /\ process'[current.child] = process[current.child]
    BY <1>3, <1>5
  <2> QED
    BY <1>4, <1>8, <2>3, <2>4, <2>5, ShutdownHands
<1>9. ASSUME stopping' = stopping, up' = [up EXCEPT ![c] = <<>>],
             slot' = [slot EXCEPT ![c] = "restarting"], NEW queue \in Left(RequestsOf(c)),
             Schedule(queue, current, grantTimer, SinceExit(c), permits, rest)
      PROVE  Handed'
  <2>1. PICK Y : Y = YoungOnes \cup {c}
    OBVIOUS
  <2>2. /\ queue \in Seq(Entries) /\ ToSet(queue) \subseteq ToSet(pending)
        /\ \A e \in ToSet(queue) : e \notin RequestsOf(c)
    BY <1>2, LeftIs, LeftKeeps, KnownIs
  <2>3. \A e \in ToSet(queue) : e.child \notin Y
    BY <2>1, <2>2, YoungIs DEF RequestsOf
  <2>4. current # None => current.child \notin Y
    BY <1>5, <2>1
  <2>5. Spared(Y, outstanding', down', rest)
    BY <1>2, <1>4, <1>9, <2>2, <2>3, <2>4, ScheduleHands
  <2>6. \A x \in Children : \A m \in Contents(down')[x] : m \in Contents(down)[x] \/ m.type # "assignment"
    BY <1>4, <2>5, EmptySet DEF Contents, Spared
  <2>7. down'[c] = <<>> /\ \A x \in YoungOnes : x # c => down'[x] = down[x]
    BY <1>4, <2>1, <2>5 DEF YoungOnes, Spared
  <2>8. up'[c] = <<>> /\ \A x \in Children : x # c => up'[x] = up[x] /\ slot'[x] = slot[x]
    BY <1>2, <1>9 DEF Channels
  <2> QED
    BY <1>6, <1>9, <2>1, <2>5, <2>6, <2>7, <2>8 DEF Spared
<1> QED
  BY <1>1, <1>7, <1>8, <1>9

\* A step of a child, or its start, leaves the others as they are.
LEMMA OthersHands ==
    ASSUME UnderstoodInv, NEW c \in Children, Hand(c)', stopping' = stopping, outstanding' = outstanding,
           \A x \in Children : x # c =>
               /\ process'[x] = process[x] /\ asking'[x] = asking[x] /\ cancelled'[x] = cancelled[x]
               /\ slot'[x] = slot[x] /\ up'[x] = up[x] /\ down'[x] = down[x]
    PROVE  Handed'
<1>1. ASSUME NEW x \in Children, x # c
      PROVE  Hand(x)'
  <2>1. outstanding' # None /\ outstanding'.child = x => x \notin YoungOnes
    BY YoungIs
  <2>2. /\ \A m \in ToSet(up'[x]) : m \in ToSet(up[x])
        /\ \A m \in ToSet(down'[x]) : m \in ToSet(down[x]) \/ m.type # "assignment"
    BY <1>1
  <2> QED
    BY <1>1, <2>1, <2>2, HandKept
<1> QED
  BY <1>1 DEF Handed

LEMMA SpawnsHands ==
    ASSUME UnderstoodInv, NEW c \in Children, Spawns(c)
    PROVE  Handed'
<1>1. /\ ~stopping /\ stopping' = stopping /\ outstanding' = outstanding /\ asking' = asking
      /\ cancelled' = cancelled /\ up' = up /\ down' = down /\ slot[c] = "restarting"
      /\ slot' = [slot EXCEPT ![c] = "starting"] /\ process' = [process EXCEPT ![c] = "booting"]
  BY DEF Spawns, grantVars
<1>2. /\ slot \in [Children -> Slots] /\ process \in [Children -> Processes] /\ Hand(c) /\ Shook(c)
  BY InvIs DEF UnderstoodInv, Sized, Handed, Handshaken
<1>3. /\ process'[c] = "booting" /\ slot'[c] = "starting"
      /\ \A x \in Children : x # c => process'[x] = process[x] /\ slot'[x] = slot[x]
  BY <1>1, <1>2
<1>4. process[c] = "none" /\ up[c] = <<>>
  BY <1>1, <1>2 DEF Shook
<1>5. down[c] = <<>> /\ ToSet(down[c]) = {} /\ ToSet(up[c]) = {} /\ asking[c] = 0 /\ cancelled[c] = {}
      /\ ~Holds(c)
  BY <1>2, <1>4, EmptySet DEF Hand, Young
<1>6. Hand(c)'
  BY <1>1, <1>3, <1>5 DEF Hand, Holds, Young, Unassigned
<1> QED
  BY <1>1, <1>3, <1>6, OthersHands

\* A child whose client runs is told nothing of the handshake any more.
LEMMA ClientHands ==
    ASSUME UnderstoodInv, NEW c \in Children, process'[c] \in {"on", "stopping", "ended"},
           process[c] \notin Unassigned \/ down'[c] = <<>>,
           \A m \in ToSet(down'[c]) : m \in ToSet(down[c])
    PROVE  Hand(c)'
<1>1. Hand(c)
  BY YoungIs
<1>2. \A m \in ToSet(down'[c]) : m.type # "assignment"
  BY <1>1, EmptySet DEF Hand
<1> QED
  BY <1>2 DEF Hand, Young, Unassigned

LEMMA ChildHands ==
    ASSUME UnderstoodInv, NEW c \in Children, ChildMoves(c)
    PROVE  Handed'
<1>1. /\ up \in Channels /\ down \in Channels
      /\ process \in [Children -> Processes] /\ asking \in [Children -> 0..MaxRequests]
      /\ cancelled \in [Children -> SUBSET Requests] /\ Hand(c) /\ down[c] \in Seq(Messages)
  BY InvIs, KnownIs, YoungIs DEF UnderstoodInv, Channels
<1>2. /\ stopping' = stopping /\ outstanding' = outstanding /\ slot' = slot
      /\ \A x \in Children : x # c =>
             /\ process'[x] = process[x] /\ asking'[x] = asking[x] /\ cancelled'[x] = cancelled[x]
             /\ up'[x] = up[x] /\ down'[x] = down[x]
      /\ \A m \in ToSet(down'[c]) : m \in ToSet(down[c])
  <2>1. stopping' = stopping /\ outstanding' = outstanding /\ slot' = slot
    BY DEF ChildMoves, Greets, TakesAssignment, Boots, Asks, Withdraws, Closes, LosesParent, Identifies,
           Answered, ToldToStop, MistakesShutdown, Told, ChildUnchanged, parentVars, grantVars
  <2>2. \A x \in Children : x # c => up'[x] = up[x]
    <3>1. up' = up \/ \E messages : Tells(c, messages)
      BY DEF ChildMoves, Greets, TakesAssignment, Boots, Asks, Withdraws, Closes, LosesParent, Identifies,
             Answered, ToldToStop, MistakesShutdown
    <3> QED
      BY <1>1, <3>1 DEF Tells, Channels
  <2>3. \A x \in Children : x # c =>
            process'[x] = process[x] /\ asking'[x] = asking[x] /\ cancelled'[x] = cancelled[x]
    BY <1>1 DEF ChildMoves, Greets, TakesAssignment, Boots, Asks, Withdraws, Closes, LosesParent,
           Identifies, Answered, ToldToStop, MistakesShutdown, Ends
  <2>4. \/ down' = down \/ down' = [down EXCEPT ![c] = <<>>]
        \/ down[c] # <<>> /\ down' = [down EXCEPT ![c] = Tail(@)]
    BY DEF ChildMoves, Greets, TakesAssignment, Boots, Asks, Withdraws, Closes, LosesParent, Identifies,
           Answered, ToldToStop, MistakesShutdown, Ends, ChildUnchanged, Told, Reads
  <2>5. /\ \A x \in Children : x # c => down'[x] = down[x]
        /\ down'[c] = down[c] \/ down'[c] = <<>> \/ (down[c] # <<>> /\ down'[c] = Tail(down[c]))
    BY <1>1, <2>4 DEF Channels
  <2>6. \A m \in ToSet(down'[c]) : m \in ToSet(down[c])
    BY <1>1, <2>5, TailSet, EmptySet
  <2> QED
    BY <2>1, <2>2, <2>3, <2>5, <2>6
<1>3. CASE /\ process'[c] \in {"on", "stopping", "ended"}
           /\ process[c] \notin Unassigned \/ down'[c] = <<>>
  BY <1>2, <1>3, ClientHands, OthersHands
<1>4. CASE Greets(c)
  <2>1. /\ process[c] = "booting" /\ process'[c] = "greeting" /\ down' = down /\ asking' = asking
        /\ cancelled' = cancelled /\ Tells(c, <<Message("hello", 0)>>)
    BY <1>1, <1>4 DEF Greets
  <2>2. \A m \in ToSet(up'[c]) : m \in ToSet(up[c]) \/ m.type = "hello"
    <3>1. Message("hello", 0) \in Messages /\ Message("hello", 0).type = "hello"
      BY PermitsAssumption DEF Message, Messages
    <3>2. /\ <<Message("hello", 0)>> \in Seq(Messages)
          /\ ToSet(<<Message("hello", 0)>>) = {Message("hello", 0)}
      BY <3>1, OneMessage
    <3>3. \A m \in Contents(up')[c] : m \in Contents(up)[c] \/ m \in ToSet(<<Message("hello", 0)>>)
      BY <1>1, <2>1, <3>2, TellsIs
    <3> QED
      BY <3>1, <3>2, <3>3 DEF Contents
  <2>3. Hand(c)'
    BY <1>1, <1>2, <2>1, <2>2 DEF Hand, Holds, Young, Unassigned
  <2> QED
    BY <1>2, <2>3, OthersHands
<1>5. CASE TakesAssignment(c)
  <2>1. /\ process[c] = "greeting" /\ process'[c] = "assigned" /\ asking' = asking /\ cancelled' = cancelled
        /\ up' = up /\ down[c] # <<>> /\ down'[c] = Tail(down[c]) /\ Head(down[c]).type = "assignment"
    BY <1>1, <1>5 DEF TakesAssignment, Told, Reads, First, Channels
  <2>2. Head(down[c]) \in ToSet(down[c])
    BY <1>1, <2>1, TailSet
  <2>3. \A m \in ToSet(down'[c]) : m.type = "shutdown"
    BY <1>1, <2>1, <2>2 DEF Hand, Unassigned
  <2>4. Hand(c)'
    BY <1>1, <1>2, <2>1, <2>3 DEF Hand, Holds, Young, Unassigned
  <2> QED
    BY <1>2, <2>4, OthersHands
<1>6. CASE Answered(c)
  <2>1. /\ process' = process /\ up' = up /\ Bridged(c) /\ down[c] # <<>>
        /\ Head(down[c]).type \in {"grant", "denied", "cancelled"}
        /\ asking'[c] \in {asking[c], 0} /\ cancelled'[c] \subseteq cancelled[c]
    BY <1>1, <1>6 DEF Answered, Told, Reads, First
  <2>2. Head(down[c]) \in ToSet(down[c])
    BY <1>1, <2>1, TailSet
  <2>3. process[c] \notin Unassigned /\ process[c] # "none"
    BY <1>1, <2>1, <2>2 DEF Hand, Unassigned, Bridged
  <2>4. Hand(c)'
    BY <1>1, <1>2, <2>1, <2>3 DEF Hand, Holds, Young, Unassigned
  <2> QED
    BY <1>2, <2>4, OthersHands
<1>7. CASE Boots(c) \/ Asks(c) \/ Withdraws(c) \/ Identifies(c) \/ ToldToStop(c)
  <2>1. process'[c] \in {"on", "stopping"} /\ process[c] \notin Unassigned
    BY <1>1, <1>7 DEF Boots, Asks, Withdraws, Identifies, ToldToStop, Told, Reads, Bridged, Unassigned
  <2> QED
    BY <1>3, <2>1
<1>8. CASE Closes(c) \/ LosesParent(c) \/ MistakesShutdown(c)
  <2>1. Ends(c)
    BY <1>8 DEF Closes, LosesParent, MistakesShutdown
  <2>2. process'[c] = "ended" /\ down'[c] = <<>>
    BY <1>1, <2>1 DEF Ends, Channels
  <2> QED
    BY <1>3, <2>2
<1> QED
  BY <1>4, <1>5, <1>6, <1>7, <1>8 DEF ChildMoves

\* Every step keeps what children without a client are told.
LEMMA HandedKept ==
    ASSUME UnderstoodInv, Next
    PROVE  Handed'
<1>1. CASE ShutDown \/ \E c \in Children : StartupExpires(c) \/ DisconnectExpires(c)
  <2>1. BeginsShutdown(Running, outstanding, down) /\ UNCHANGED childVars
    BY <1>1 DEF ShutDown, StartupExpires, DisconnectExpires
  <2> QED
    BY <2>1, ShutDownHands
<1> QED
  BY <1>1, GrantingHands, AckExpiresHands, DisconnectsHands, ExitsHands, SpawnsHands, HearingHands,
     ChildHands DEF Next

-----------------------------------------------------------------------------
(* Types *)

\* What every step keeps of a shutdown's types
LEMMA StopsSized ==
    ASSUME UnderstoodInv, NEW left, NEW current, NEW channels, left \subseteq Children,
           BeginsShutdown(left, current, channels)
    PROVE  /\ slot' \in [Children -> Slots]
           /\ lost' \subseteq Children /\ stopTimer' \subseteq Children
BY DEF BeginsShutdown, Stops, UnderstoodInv, Sized, Slots

\* Every step keeps the types that the first invariant does not state.
LEMMA SizedKept ==
    ASSUME UnderstoodInv, Next
    PROVE  Sized'
<1> DEFINE Types == /\ slot \in [Children -> Slots]
                    /\ restarts \in [Children -> 0..MaxAttempts]
                    /\ lost \subseteq Children /\ stopTimer \subseteq Children /\ linked \subseteq Children
<1> SUFFICES Types'
  BY DEF Sized
<1>1. Types
  BY DEF UnderstoodInv, Sized
<1>2. CASE GrantTimerFires \/ Tick
  BY <1>1, <1>2 DEF GrantTimerFires, Tick, parentVars, childVars
<1>3. CASE AckExpires
  <2>1. outstanding.child \in Children
    BY <1>3, KnownIs DEF AckExpires
  <2> QED
    BY <1>1, <1>3, <2>1 DEF AckExpires, Stops, childVars
<1>4. CASE ShutDown \/ \E c \in Children : StartupExpires(c) \/ DisconnectExpires(c)
  <2>1. BeginsShutdown(Running, outstanding, down) /\ restarts' = restarts /\ linked' = linked
    BY <1>4 DEF ShutDown, StartupExpires, DisconnectExpires, childVars
  <2>2. Running \subseteq Children
    BY DEF Running
  <2> QED
    BY <1>1, <2>1, <2>2, StopsSized
<1>5. ASSUME NEW r \in permits, Settling(r)
      PROVE  Types'
  BY <1>1, <1>5 DEF Settling, PermitGiven, PermitRefused, parentVars, childVars
<1>6. ASSUME NEW c \in Children, Disconnects(c) \/ Spawns(c)
      PROVE  Types'
  BY <1>1, <1>6 DEF Disconnects, Spawns, Slots
<1>7. ASSUME NEW c \in Children, Exits(c)
      PROVE  Types'
  <2>1. linked' \subseteq Children
    BY <1>1, <1>7 DEF Exits
  <2>2. CASE /\ slot' \in {[slot EXCEPT ![c] = "over"], [slot EXCEPT ![c] = "restarting"]}
             /\ stopTimer' = stopTimer \ {c} /\ lost' = lost \ {c}
             /\ \/ restarts' = restarts
                \/ restarts[c] < MaxAttempts /\ restarts' = [restarts EXCEPT ![c] = @ + 1]
    <3>1. restarts' \in [Children -> 0..MaxAttempts]
      <4>1. restarts[c] < MaxAttempts => restarts[c] + 1 \in 0..MaxAttempts
        BY <1>1, PermitsAssumption
      <4> QED
        BY <1>1, <2>2, <4>1
    <3>2. slot' \in [Children -> Slots]
      BY <1>1, <2>2 DEF Slots
    <3> QED
      BY <1>1, <2>1, <2>2, <3>1, <3>2
  <2>3. CASE BeginsShutdown(Running \ {c}, AfterExit(c), [down EXCEPT ![c] = <<>>]) /\ restarts' = restarts
    <3>1. Running \ {c} \subseteq Children
      BY DEF Running
    <3> QED
      BY <1>1, <2>1, <2>3, <3>1, StopsSized
  <2> QED
    BY <1>7, <2>2, <2>3 DEF Exits
<1>8. ASSUME NEW c \in Children, Hearing(c)
      PROVE  Types'
  <2>1. CASE HearsHello(c) \/ HearsReady(c)
    BY <1>1, <2>1 DEF HearsHello, HearsReady, childVars, Slots
  <2>2. CASE HearsEnd(c)
    BY <1>1, <2>2 DEF HearsEnd, Stops, childVars
  <2>3. CASE HearsIdentify(c) \/ HearsCancel(c) \/ HearsSent(c)
    BY <1>1, <2>3 DEF HearsIdentify, HearsCancel, HearsSent, parentVars, childVars
  <2> QED
    BY <1>8, <2>1, <2>2, <2>3 DEF Hearing
<1>9. ASSUME NEW c \in Children, ChildMoves(c)
      PROVE  Types'
  BY <1>1, <1>9 DEF ChildMoves, Greets, TakesAssignment, Boots, Asks, Withdraws, Closes, LosesParent,
     Identifies, Answered, ToldToStop, MistakesShutdown, Ends, Told, ChildUnchanged, parentVars
<1> QED
  BY <1>2, <1>3, <1>4, <1>5, <1>6, <1>7, <1>8, <1>9 DEF Next

-----------------------------------------------------------------------------

LEMMA InitUnderstood == Init => UnderstoodInv
<1> SUFFICES ASSUME Init
             PROVE  UnderstoodInv
  OBVIOUS
<1>1. PermitsInv
  BY InitHolds
<1>2. /\ \A c \in Children : up[c] = <<>> /\ down[c] = <<>> /\ asking[c] = 0 /\ process[c] = "on"
                             /\ slot[c] = "running"
      /\ pending = <<>> /\ outstanding = None /\ linked = Children
  BY DEF Init
<1>3. /\ \A c \in Children : ToSet(up[c]) = {} /\ Contents(up)[c] = {} /\ Contents(down)[c] = {}
      /\ ToSet(pending) = {}
  BY <1>2, EmptySet DEF Contents
<1>4. Sized
  BY PermitsAssumption DEF Init, Sized, Slots
<1>5. Handshaken /\ Handed
  <2>1. Handshaken
    BY <1>2, <1>3 DEF Handshaken, Shook, Greeted
  <2>2. \A c \in Children : cancelled[c] = {} /\ ToSet(up[c]) = {} /\ ToSet(down[c]) = {}
    BY <1>2, EmptySet DEF Init
  <2>3. Handed
    BY <1>2, <2>2 DEF Handed, Hand, Holds, Young, Unassigned
  <2> QED
    BY <2>1, <2>3
<1>6. UpFine(up) /\ DownFine(down) /\ InOrder(pending, Apart)
  BY <1>2, ShortOrder DEF UpFine, DownFine
<1>7. Reported
  BY <1>3 DEF Reported
<1>8. Fit(ToSet(pending), outstanding, Contents(down), Contents(up), asking, cancelled, process, requests)
  BY <1>2, <1>3 DEF Fit, Open, Waits, Has
<1>9. cancelled \in [Children -> SUBSET Requests]
  BY DEF Init
<1> QED
  BY <1>1, <1>4, <1>5, <1>6, <1>7, <1>8, <1>9 DEF UnderstoodInv, Fitting

LEMMA UnderstoodKept ==
    ASSUME UnderstoodInv, [Next]_vars
    PROVE  UnderstoodInv'
<1>1. CASE UNCHANGED vars
  <2>1. /\ coordinated' = coordinated /\ stopping' = stopping /\ age' = age /\ pending' = pending
        /\ outstanding' = outstanding /\ grantTimer' = grantTimer /\ permits' = permits
        /\ slot' = slot /\ restarts' = restarts /\ lost' = lost /\ stopTimer' = stopTimer
        /\ process' = process /\ linked' = linked /\ asking' = asking /\ cancelled' = cancelled
        /\ up' = up /\ down' = down
        /\ requests' = requests /\ socketAge' = socketAge
    BY <1>1 DEF vars, parentVars, grantVars, childVars, history
  <2>2. PermitsInv'
    BY StepHolds DEF UnderstoodInv
  <2>3. Sized'
    BY <2>1 DEF UnderstoodInv, Sized
  <2>4. Handshaken' /\ Handed'
    BY <2>1, HandshakenKept DEF UnderstoodInv, Handed, Hand, Holds
  <2>5. Reported'
    BY <2>1 DEF UnderstoodInv, Reported
  <2>6. Fitting' /\ UpFine(up')
    BY <2>1 DEF UnderstoodInv, Fitting
  <2> QED
    BY <2>2, <2>3, <2>4, <2>5, <2>6 DEF UnderstoodInv
<1>2. CASE Next
  <2>1. PermitsInv'
    BY StepHolds DEF UnderstoodInv
  <2> QED
    BY <1>2, <2>1, SizedKept, AllHandshaken, HandedKept, UpFineKept, ReportedKept, FittingKept
       DEF UnderstoodInv
<1> QED
  BY <1>1, <1>2

LEMMA InvUnderstood ==
    ASSUME UnderstoodInv
    PROVE  Understood
<1>1. PermitsTypeOK
  BY InvIs, KnownIs DEF PermitsTypeOK, UnderstoodInv, Sized, Channels, Entries
<1>2. ASSUME NEW c \in Children, Listens(c)
      PROVE  LET m == First(up, c)
             IN CASE m.type = "hello" -> slot[c] = "starting"
                  [] m.type = "ready" -> slot[c] = "greeted"
                  [] m.type = "identify" -> slot[c] = "running"
                  [] m.type = "sent" -> HoldsRequest(c, m.request) /\ outstanding.granted
                  [] m.type = "closed" -> slot[c] # "starting"
                  [] OTHER -> TRUE
  <2> DEFINE m == First(up, c)
  <2>1. up[c] # <<>> /\ up[c] \in Seq(Messages) /\ ~stopping
    BY <1>2, InvIs DEF Listens, UnderstoodInv, Channels
  <2>2. m = Head(up[c]) /\ m \in ToSet(up[c])
    BY <2>1, TailSet DEF First
  <2> HIDE DEF m
  <2>3. Shook(c)
    BY DEF UnderstoodInv, Handshaken
  <2>4. /\ m.type = "ready" => slot[c] = "greeted"
        /\ slot[c] = "starting" <=> m.type = "hello"
    BY <2>1, <2>2, <2>3 DEF Shook
  <2>5. m.type = "identify" => slot[c] = "running"
    BY <2>1, <2>2, <2>3 DEF Shook, Greeted
  <2>6. m.type = "sent" => HoldsRequest(c, m.request) /\ outstanding.granted
    BY <2>2 DEF UnderstoodInv, Reported, Has, HoldsRequest, Holds
  <2> QED
    BY <2>4, <2>5, <2>6 DEF m
<1>3. ASSUME NEW c \in Children, down[c] # <<>>, Bridged(c)
      PROVE  LET m == First(down, c)
             IN CASE m.type = "assignment" -> process[c] = "greeting"
                  [] m.type = "shutdown" -> process[c] = "greeting" => stopping /\ slot[c] = "starting"
                  [] m.type = "cancelled" -> process[c] # "greeting"
                  [] m.type \in {"grant", "denied"} ->
                         /\ process[c] # "greeting"
                         /\ m.request = asking[c] \/ m.request \in cancelled[c]
                  [] OTHER -> TRUE
  <2> DEFINE m == First(down, c)
  <2>1. down[c] \in Seq(Messages) /\ m = Head(down[c])
    BY InvIs DEF UnderstoodInv, Channels, First
  <2>2. m \in Contents(down)[c] /\ m \in ToSet(down[c]) /\ m \in Messages
    BY <1>3, <2>1, TailSet DEF Contents
  <2> HIDE DEF m
  <2>3. Hand(c)
    BY DEF UnderstoodInv, Handed
  <2>4. m.type = "assignment" => process[c] = "greeting"
    BY <1>3, <2>2, <2>3 DEF Hand, Unassigned, Bridged
  <2>5. process[c] = "greeting" =>
            \/ m.type = "shutdown" /\ slot[c] = "starting" /\ stopping
            \/ m.type = "assignment"
    BY <1>3, <2>1, <2>2, <2>3, InvIs DEF Hand, Unassigned, UnderstoodInv
  <2>6. m.type \in {"grant", "denied"} => m.request = asking[c] \/ m.request \in cancelled[c]
    BY <2>2 DEF UnderstoodInv, Fitting, Fit
  <2> QED
    BY <2>4, <2>5, <2>6 DEF m
<1> QED
  BY <1>1, <1>2, <1>3 DEF Understood

\* Neither side ever takes a message of the other for a protocol failure, in whatever order the
\* messages of the handshake (#lifecycleMessage, #assignmentMessage), of a request
\* (#identifySentMessage, #grantMessage, #deniedMessage) and of a stop (#shutdownMessage) cross, for
\* any number of children, requests and restarts. The one exception is stated in Understood: a
\* shutdown that reaches a child before its assignment, which only a stopping supervisor sends.
THEOREM CrossingsAreUnderstood == Spec => []Understood
<1>1. Init => UnderstoodInv
  BY InitUnderstood
<1>2. UnderstoodInv /\ [Next]_vars => UnderstoodInv'
  BY UnderstoodKept
<1>3. UnderstoodInv => Understood
  BY InvUnderstood
<1> QED
  BY <1>1, <1>2, <1>3, PTL DEF Spec

=============================================================================
