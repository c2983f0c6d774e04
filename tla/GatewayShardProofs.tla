------------------------- MODULE GatewayShardProofs -------------------------
(***************************************************************************)
(* Proofs about GatewayShard: dispatches are handed out in order, a session *)
(* whose socket was closed for good is not resumed unless a shutdown saved  *)
(* it, and what is saved names an unused, closed session, for every number  *)
(* of sessions, processes, attempts and frames.                             *)
(***************************************************************************)
EXTENDS GatewayShard, SequenceTheorems, TLAPS

FrameTypes == {"hello", "ready", "resumed", "dispatch"} \cup Disturbances
Frames == [type : FrameTypes, id : 0..MaxSessions, sequence : 0..MaxSequence, again : BOOLEAN]
Data == [type : {"ready", "resumed", "dispatch"}, id : Ids, sequence : 1..MaxSequence, again : BOOLEAN]
Controls == {f \in Frames : f.type \notin {"ready", "resumed", "dispatch"}}
Snapshots == {NoSession} \cup [id : Ids, sequence : 1..MaxSequence]
Commands == {NoCommand, [op |-> "identify"]}
            \cup [op : {"resume"}, id : Ids, sequence : 1..MaxSequence]
Codes == {"open", "kept", "reset", "failed", "shutdown", "resetSaved", "failedSaved"}
Handouts == [sequence : 1..MaxSequence, again : BOOLEAN]
States == {"Disconnected", "Connecting", "Connected", "Recovering", "Closing"}
Phases == {"idle", "marking", "connecting", "starting", "running", "closing", "off"}
Loops == [known : BOOLEAN, loaded : BOOLEAN, restored : BOOLEAN, established : BOOLEAN,
          connected : BOOLEAN, attempts : 0..MaxAttempts, anomalies : 0..ProtocolFailureLimit]
Attempts == [phase : Phases, resuming : BOOLEAN, hello : BOOLEAN, sent : BOOLEAN,
             ready : BOOLEAN, inTime : BOOLEAN, ended : Ends]

Typed ==
    /\ bound \in 0..MaxSessions /\ last \in [Ids -> 0..MaxSequence]
    /\ wire \in Seq(Data \cup Controls) /\ up \in Commands
    /\ runs \in 0..MaxRuns /\ lifetime \in {"down", "on", "draining", "closing"} /\ saving \in BOOLEAN
    /\ state \in States
    /\ session \in Snapshots /\ store \in Snapshots
    /\ lateSave \in {<<>>} \cup [{1} -> Snapshots]
    /\ loop \in Loops /\ attempt \in Attempts
    /\ cached \subseteq Ids \X (1..MaxSequence)
    /\ offered \in [Ids -> Seq(Handouts)] /\ closedAs \in [Ids -> Codes]

\* The loop's counters stay within the limits they are compared with.
Counted ==
    /\ attempt.phase # "off" => loop.anomalies < ProtocolFailureLimit
    /\ attempt.phase \in {"connecting", "starting", "running", "closing"} => loop.attempts < MaxAttempts

-----------------------------------------------------------------------------
(* The socket.  The k-th frame of the wire w is a dispatch of a session, or its READY. *)

DataAt(w, k) == k \in 1..Len(w) /\ w[k] \in Data
ReadyAt(w, k) == DataAt(w, k) /\ w[k].type = "ready"
ResumedAt(w, k) == DataAt(w, k) /\ w[k].type = "resumed"
NoReady(w) == \A k : ~ReadyAt(w, k)
NoData(w) == \A k : ~DataAt(w, k)

\* All dispatches under way are of one session: the one a READY before them starts, or the client's.
OneSession(w, i) ==
    /\ \A k, j : ReadyAt(w, k) /\ DataAt(w, j) => k <= j /\ w[j].id = w[k].id
    /\ NoReady(w) => \A j : DataAt(w, j) => w[j].id = i
BoundTo(w, b, i) ==
    b # NoId => /\ \A k : ReadyAt(w, k) => w[k].id = b
                /\ NoReady(w) => b = i

\* The frame f goes on from the sequence x; one that comes again may stay there.
Precedes(x, f) == x < f.sequence \/ (f.again /\ x = f.sequence)
\* What was handed out of a session goes on, or comes again.
InOrder(s) == \A m, n \in DOMAIN s : m < n => Precedes(s[m].sequence, s[n])
\* A frame either goes on from every dispatch before it, or falls behind one of them.
Forward(w, k, n) ==
    /\ \A j : DataAt(w, j) /\ j < k => Precedes(w[j].sequence, w[k])
    /\ NoReady(w) => Precedes(n, w[k])
Behind(w, k, n) ==
    \/ \E j : DataAt(w, j) /\ j < k /\ w[k].sequence < w[j].sequence
    \/ NoReady(w) /\ w[k].sequence < n
Ordered(w, n) == \A k : DataAt(w, k) => Forward(w, k, n) \/ Behind(w, k, n)

\* The gateway numbers on from what it sent, and has sent all of it.
Numbered(w, la) == \A k : DataAt(w, k) => w[k].sequence <= la[w[k].id]
LastSent(w, la, b, n) ==
    b # NoId => \/ \E k : DataAt(w, k) /\ w[k].sequence = la[b]
                \/ NoReady(w) /\ n = la[b]

\* What may be under way at this point of the attempt
Expected(w, u, a, b) ==
    /\ (a.sent => a.hello) /\ (a.ready => a.sent)
    /\ (u = [op |-> "identify"] \/ \E k : ReadyAt(w, k)) => ~a.resuming /\ ~a.ready
    /\ (u.op = "resume" \/ \E k : ResumedAt(w, k)) => a.resuming /\ ~a.ready
    /\ \A j, k : ResumedAt(w, j) /\ ResumedAt(w, k) => j = k
    /\ (b # NoId \/ \E k : DataAt(w, k)) => a.sent /\ (a.resuming \/ a.ready \/ \E j : ReadyAt(w, j))
    /\ u # NoCommand => a.sent /\ NoData(w) /\ b = NoId

\* The dispatches on the wire w of a session i at sequence n, with b bound and la sent
Carried(w, i, n, b, la) ==
    /\ OneSession(w, i) /\ BoundTo(w, b, i) /\ Ordered(w, n) /\ Numbered(w, la)
    /\ LastSent(w, la, b, n)
    /\ i # NoId => n <= la[i]

Line ==
    /\ Carried(wire, session.id, session.sequence, bound, last)
    /\ Expected(wire, up, attempt, bound)
    /\ up.op = "resume" => up.id = session.id /\ up.sequence = session.sequence
    /\ attempt.resuming => session.id # NoId
    /\ ~Reachable => wire = <<>> /\ up = NoCommand /\ bound = NoId
    /\ lifetime = "down" => attempt.phase = "idle" /\ loop.known = FALSE

-----------------------------------------------------------------------------
(* Sessions and snapshots *)

\* The snapshot of a write that was given up and may still happen
Late == IF lateSave = <<>> THEN NoSession ELSE lateSave[1]

\* x remembers its session up to the last dispatch of it that was handed out.
Final(x, la, of) ==
    x.id # NoId =>
        la[x.id] > 0 /\ x.sequence <= la[x.id] /\ \A k \in DOMAIN of[x.id] : of[x.id][k].sequence <= x.sequence
Apart(x, y) == x.id # NoId => x.id # y.id

\* How the socket of a saved session was closed
SavedCodes == {"kept", "resetSaved", "failedSaved"}
\* The client's session s, the stored snapshot st and the late one lt: one place remembers a
\* session, a READY under way starts a new one, and what is saved was closed, by no shutdown for good.
Memory(s, st, lt, w, la, of, cl) ==
    /\ \A i \in Ids : la[i] = 0 => cl[i] = "open" /\ of[i] = <<>>
    /\ Final(s, la, of) /\ Final(st, la, of) /\ Final(lt, la, of)
    /\ Apart(s, st) /\ Apart(s, lt) /\ Apart(st, lt)
    /\ \A k : ReadyAt(w, k) =>
        /\ la[w[k].id] > 0 /\ cl[w[k].id] = "open" /\ of[w[k].id] = <<>>
        /\ w[k].id \notin {s.id, st.id, lt.id}
    /\ st.id # NoId => cl[st.id] \in SavedCodes
    /\ lt.id # NoId => cl[lt.id] \in SavedCodes

Alive == {"open", "kept", "resetSaved", "failedSaved"}
\* What the code of the session's closed socket allows at this point of the loop
Usable(s, cl, a, life, save) ==
    s.id # NoId =>
        /\ a.phase \notin {"closing", "off"} => cl[s.id] \in Alive
        /\ a.phase = "closing" /\ a.ended # NoEnd /\ a.ended.retry /\ ~a.ended.reset => cl[s.id] \in Alive
        /\ cl[s.id] = "shutdown" => life = "closing" /\ ~save
        /\ cl[s.id] = "open" => a.phase \in {"starting", "running"}

Books ==
    /\ Memory(session, store, Late, wire, last, offered, closedAs)
    /\ Usable(session, closedAs, attempt, lifetime, saving)
    /\ attempt.phase = "closing" /\ attempt.ended = NoEnd => lifetime = "closing"

ShardInv == Typed /\ Counted /\ Line /\ Books /\ OfferedInOrder

-----------------------------------------------------------------------------
(* The wire *)

\* v is w with the frame f after it
Appends(v, w, f) ==
    /\ Len(v) = Len(w) + 1 /\ v[Len(v)] = f
    /\ \A k \in 1..Len(w) : v[k] = w[k]
\* v is w without its first frame
Drops(v, w) ==
    /\ Len(v) = Len(w) - 1
    /\ \A k \in 1..Len(v) : v[k] = w[k + 1]

LEMMA AppendsOne ==
    ASSUME NEW S, NEW w \in Seq(S), NEW f \in S
    PROVE  w \o <<f>> \in Seq(S) /\ Appends(w \o <<f>>, w, f)
BY DEF Appends

LEMMA DropsOne ==
    ASSUME NEW S, NEW w \in Seq(S), w # <<>>
    PROVE  Tail(w) \in Seq(S) /\ Drops(Tail(w), w) /\ Len(w) \in Nat \ {0} /\ Head(w) = w[1]
BY EmptySeq, HeadTailProperties, LenProperties DEF Drops

LEMMA DataOfAppended ==
    ASSUME NEW w, NEW v, NEW f, Len(w) \in Nat, Appends(v, w, f)
    PROVE  \A k : DataAt(v, k) <=> DataAt(w, k) \/ (k = Len(w) + 1 /\ f \in Data)
BY DEF Appends, DataAt

LEMMA DataOfDropped ==
    ASSUME NEW w, NEW v, Len(w) \in Nat \ {0}, Drops(v, w)
    PROVE  /\ \A k : DataAt(v, k) => k \in Nat \ {0} /\ DataAt(w, k + 1) /\ v[k] = w[k + 1]
           /\ \A k \in Int : DataAt(w, k) /\ k # 1 => DataAt(v, k - 1) /\ v[k - 1] = w[k]
           /\ \A k : DataAt(w, k) => k \in Nat \ {0}
BY DEF Drops, DataAt

\* A frame that is no dispatch changes nothing of what is carried.
LEMMA ControlAppended ==
    ASSUME NEW w, NEW v, NEW f, NEW i, NEW n, NEW b, NEW c \in {b, NoId}, NEW la, Len(w) \in Nat,
           Appends(v, w, f), f \notin Data, Carried(w, i, n, b, la)
    PROVE  Carried(v, i, n, c, la)
<1>1. \A k : DataAt(v, k) <=> DataAt(w, k)
    BY DataOfAppended
<1>2. \A k : DataAt(w, k) => v[k] = w[k] /\ k \in Int
    BY DEF Appends, DataAt
<1>3. \A k : ReadyAt(v, k) <=> ReadyAt(w, k)
    BY <1>1, <1>2 DEF ReadyAt
<1>4. NoReady(v) <=> NoReady(w)
    BY <1>3 DEF NoReady
<1>5. OneSession(v, i)
    BY <1>1, <1>2, <1>3, <1>4 DEF Carried, OneSession, ReadyAt
<1>6. BoundTo(v, c, i)
    BY <1>2, <1>3, <1>4 DEF Carried, BoundTo, ReadyAt
<1>7. Ordered(v, n)
    BY <1>1, <1>2, <1>4 DEF Carried, Ordered, Forward, Behind
<1>8. Numbered(v, la)
    BY <1>1, <1>2 DEF Carried, Numbered
<1>9. LastSent(v, la, c, n)
    BY <1>1, <1>2, <1>4 DEF Carried, LastSent
<1> QED BY <1>5, <1>6, <1>7, <1>8, <1>9 DEF Carried


\* The gateway goes on from the last dispatch it sent, or repeats an older one.
LEMMA DispatchAppended ==
    ASSUME NEW w, NEW v, NEW f \in Data, NEW i, NEW n \in Int, NEW b \in Ids,
           NEW la \in [Ids -> Int], NEW ll \in [Ids -> Int], Len(w) \in Nat, Appends(v, w, f),
           f.type = "dispatch", f.id = b, \A j \in Ids \ {b} : ll[j] = la[j],
           (f.sequence = la[b] + 1 /\ ll[b] = la[b] + 1) \/ (f.again /\ f.sequence <= la[b] /\ ll[b] = la[b]),
           i = NoId \/ i \in Ids, Carried(w, i, n, b, la)
    PROVE  Carried(v, i, n, b, ll)
<1> DEFINE m == Len(w) + 1
<1>0. b # NoId /\ v[m] = f /\ m \in Nat /\ (i # NoId => n <= la[i])
    BY DEF Ids, NoId, Appends, Carried
<1>1. \A k : DataAt(v, k) <=> DataAt(w, k) \/ k = m
    BY DataOfAppended
<1>2. \A k : DataAt(w, k) => /\ v[k] = w[k] /\ k \in Nat /\ k < m /\ w[k].id \in Ids
                             /\ w[k].sequence \in Int /\ w[k].sequence <= la[w[k].id]
    BY DEF Appends, DataAt, Data, Carried, Numbered
<1>3. \A k : ReadyAt(v, k) <=> ReadyAt(w, k)
    BY <1>0, <1>1, <1>2 DEF ReadyAt
<1>4. NoReady(v) <=> NoReady(w)
    BY <1>3 DEF NoReady
<1>5. \A k : ReadyAt(w, k) => DataAt(w, k) /\ w[k].id = b
    BY <1>0 DEF Carried, BoundTo, ReadyAt
<1>6. NoReady(w) => i = b /\ n <= la[b]
    BY <1>0 DEF Carried, BoundTo
<1>7. \A k : DataAt(w, k) => w[k].id = b
    <2> SUFFICES ASSUME NEW k, DataAt(w, k)
                 PROVE  w[k].id = b
        OBVIOUS
    <2>1. OneSession(w, i)
        BY DEF Carried
    <2>2. CASE NoReady(w)
        BY <2>1, <2>2, <1>6 DEF OneSession
    <2>3. CASE ~NoReady(w)
        <3>1. PICK j : ReadyAt(w, j)
            BY <2>3 DEF NoReady
        <3> QED BY <2>1, <3>1, <1>5 DEF OneSession
    <2> QED BY <2>2, <2>3
<1>8. la[b] \in Int /\ ll[b] \in Int /\ la[b] <= ll[b] /\ f.sequence \in Int /\ f.sequence <= ll[b]
    BY DEF Data
<1> HIDE DEF m
<1>9. OneSession(v, i)
    <2>1. ASSUME NEW k, NEW j, ReadyAt(v, k), DataAt(v, j)
          PROVE  k <= j /\ v[j].id = v[k].id
        <3>1. ReadyAt(w, k) /\ DataAt(w, k) /\ v[k].id = b /\ k \in Nat /\ k < m
            BY <2>1, <1>2, <1>3, <1>5
        <3>2. CASE j = m
            BY <3>1, <3>2, <1>0, <1>1
        <3>3. CASE DataAt(w, j)
            <4>1. k <= j
                BY <3>1, <3>3 DEF Carried, OneSession
            <4> QED BY <4>1, <3>1, <3>3, <1>2, <1>7
        <3> QED BY <2>1, <3>2, <3>3, <1>1
    <2>2. NoReady(v) => \A j : DataAt(v, j) => v[j].id = i
        BY <1>0, <1>1, <1>2, <1>4, <1>6, <1>7
    <2> QED BY <2>1, <2>2 DEF OneSession
<1>10. BoundTo(v, b, i)
    BY <1>2, <1>3, <1>4, <1>5, <1>6 DEF BoundTo
<1>11. Ordered(v, n)
    <2>1. ASSUME NEW k, DataAt(w, k)
          PROVE  Forward(v, k, n) \/ Behind(v, k, n)
        <3>1. Forward(w, k, n) \/ Behind(w, k, n)
            BY <2>1 DEF Carried, Ordered
        <3>2. \A j : DataAt(v, j) /\ j < k => DataAt(w, j)
            BY <2>1, <1>1, <1>2, <1>0
        <3> QED BY <3>1, <3>2, <2>1, <1>1, <1>2, <1>4 DEF Forward, Behind
    <2>2. CASE f.sequence = la[b] + 1
        <3>1. \A j : DataAt(v, j) /\ j < m => v[j].sequence < f.sequence
            BY <2>2, <1>0, <1>1, <1>2, <1>7, <1>8
        <3>2. NoReady(v) => n < f.sequence
            BY <2>2, <1>4, <1>6, <1>8
        <3>3. Forward(v, m, n)
            BY <3>1, <3>2, <1>0 DEF Forward, Precedes
        <3> QED BY <2>1, <3>3, <1>1 DEF Ordered
    <2>4. CASE f.again /\ f.sequence = la[b]
        <3>1. \A j : DataAt(v, j) /\ j < m => Precedes(v[j].sequence, f)
            BY <2>4, <1>0, <1>1, <1>2, <1>7, <1>8 DEF Precedes
        <3>2. NoReady(v) => Precedes(n, f)
            BY <2>4, <1>4, <1>6, <1>8 DEF Precedes
        <3>3. Forward(v, m, n)
            BY <3>1, <3>2, <1>0 DEF Forward
        <3> QED BY <2>1, <3>3, <1>1 DEF Ordered
    <2>3. CASE f.sequence < la[b]
        <3>1. CASE \E k : DataAt(w, k) /\ w[k].sequence = la[b]
            <4>1. PICK k : DataAt(w, k) /\ w[k].sequence = la[b]
                BY <3>1
            <4>2. DataAt(v, k) /\ k < m /\ v[m].sequence < v[k].sequence
                BY <4>1, <2>3, <1>0, <1>1, <1>2
            <4>3. Behind(v, m, n)
                BY <4>2 DEF Behind
            <4> QED BY <2>1, <4>3, <1>1 DEF Ordered
        <3>2. CASE NoReady(w) /\ n = la[b]
            <4>1. NoReady(v) /\ v[m].sequence < n
                BY <3>2, <2>3, <1>0, <1>4
            <4>2. Behind(v, m, n)
                BY <4>1 DEF Behind
            <4> QED BY <2>1, <4>2, <1>1 DEF Ordered
        <3> QED BY <3>1, <3>2, <1>0 DEF Carried, LastSent
    <2> QED BY <2>2, <2>3, <2>4, <1>8
<1>12. Numbered(v, ll)
    <2> SUFFICES ASSUME NEW k, DataAt(v, k)
                 PROVE  v[k].sequence <= ll[v[k].id]
        BY DEF Numbered
    <2>1. CASE k = m
        BY <2>1, <1>0, <1>8
    <2>2. CASE DataAt(w, k)
        <3>1. v[k] = w[k] /\ w[k].id = b /\ w[k].sequence \in Int /\ w[k].sequence <= la[b]
            BY <2>2, <1>2, <1>7
        <3> QED BY <3>1, <1>8
    <2> QED BY <2>1, <2>2, <1>1
<1>13. LastSent(v, ll, b, n)
    <2>1. CASE f.sequence = la[b] + 1 /\ ll[b] = la[b] + 1
        <3>1. DataAt(v, m) /\ v[m].sequence = ll[b]
            BY <2>1, <1>0, <1>1
        <3> QED BY <3>1 DEF LastSent
    <2>2. CASE ll[b] = la[b]
        <3>1. CASE \E k : DataAt(w, k) /\ w[k].sequence = la[b]
            BY <3>1, <2>2, <1>1, <1>2 DEF LastSent
        <3>2. CASE NoReady(w) /\ n = la[b]
            BY <3>2, <2>2, <1>4 DEF LastSent
        <3> QED BY <3>1, <3>2, <1>0 DEF Carried, LastSent
    <2> QED BY <2>1, <2>2
<1>14. i # NoId => n <= ll[i]
    BY <1>0, <1>8
<1> QED BY <1>9, <1>10, <1>11, <1>12, <1>13, <1>14 DEF Carried

\* READY of a new session, when nothing else is under way
LEMMA ReadyAppended ==
    ASSUME NEW w, NEW v, NEW f \in Data, NEW i, NEW n \in Int, NEW b \in Ids, NEW c,
           NEW la \in [Ids -> Int], NEW ll \in [Ids -> Int], Len(w) \in Nat, Appends(v, w, f), NoData(w),
           f.type = "ready", f.id = b, f.sequence = 1, ll[b] = 1, \A j \in Ids \ {b} : ll[j] = la[j],
           i = NoId \/ i \in Ids \ {b}, Carried(w, i, n, c, la)
    PROVE  Carried(v, i, n, b, ll)
<1> DEFINE m == Len(w) + 1
<1>1. v[m] = f /\ m \in Nat /\ b # NoId
    BY DEF Appends, Ids, NoId
<1>2. \A k : DataAt(v, k) <=> k = m
    BY DataOfAppended DEF NoData
<1> HIDE DEF m
<1>3. ReadyAt(v, m) /\ ~NoReady(v) /\ \A k : ReadyAt(v, k) => k = m
    BY <1>1, <1>2 DEF ReadyAt, NoReady
<1>4. OneSession(v, i)
    BY <1>1, <1>2, <1>3 DEF OneSession
<1>5. BoundTo(v, b, i)
    BY <1>1, <1>3 DEF BoundTo
<1>6. Ordered(v, n)
    <2>1. Forward(v, m, n)
        BY <1>1, <1>2, <1>3 DEF Forward
    <2> QED BY <2>1, <1>2 DEF Ordered
<1>7. Numbered(v, ll)
    BY <1>1, <1>2 DEF Numbered
<1>8. LastSent(v, ll, b, n)
    BY <1>1, <1>2 DEF LastSent
<1>9. i # NoId => n <= ll[i]
    BY DEF Carried
<1> QED BY <1>4, <1>5, <1>6, <1>7, <1>8, <1>9 DEF Carried


\* v is w with the answer to a Resume of i at sequence n: the r dispatches that followed, then
\* RESUMED under number z, its own or the last one again.
Confirmed(v, w, i, n, r, z) ==
    /\ Len(v) = Len(w) + r + 1 /\ \A k \in 1..Len(w) : v[k] = w[k]
    /\ \A k \in 1..(r + 1) :
         /\ v[Len(w) + k] \in Data
         /\ v[Len(w) + k].type = IF k = r + 1 THEN "resumed" ELSE "dispatch"
         /\ v[Len(w) + k].id = i
         /\ v[Len(w) + k].sequence = IF k = r + 1 THEN z ELSE n + k
    /\ z = n + r + 1 \/ (z = n + r /\ v[Len(w) + r + 1].again)

LEMMA ReplayAppended ==
    ASSUME NEW w, NEW v, NEW i \in Ids, NEW n \in Int, NEW r \in Nat, NEW l \in Int,
           NEW ll \in [Ids -> Int], Len(w) \in Nat, NoData(w), Confirmed(v, w, i, n, r, l), ll[i] = l
    PROVE  Carried(v, i, n, i, ll)
<1> USE DEF Confirmed
<1> DEFINE m == Len(w)
<1>1. \A k : DataAt(v, k) <=> k - m \in 1..(r + 1) /\ k \in Int
    <2>1. \A k \in 1..m : ~DataAt(v, k)
        BY DEF DataAt, NoData
    <2>2. \A k \in (m + 1)..(m + r + 1) : DataAt(v, k)
        <3> TAKE k \in (m + 1)..(m + r + 1)
        <3>1. k - m \in 1..(r + 1) /\ m + (k - m) = k
            OBVIOUS
        <3>2. v[m + (k - m)] \in Data
            BY <3>1
        <3> QED BY <3>1, <3>2 DEF DataAt
    <2> QED BY <2>1, <2>2 DEF DataAt
<1>2. \A k : DataAt(v, k) => /\ v[k].id = i /\ v[k].sequence = (IF k - m = r + 1 THEN l ELSE n + (k - m))
                             /\ k \in Int /\ v[k].type \in {"dispatch", "resumed"}
    <2> SUFFICES ASSUME NEW k, DataAt(v, k)
                 PROVE  /\ v[k].id = i /\ v[k].sequence = (IF k - m = r + 1 THEN l ELSE n + (k - m))
                        /\ k \in Int /\ v[k].type \in {"dispatch", "resumed"}
        OBVIOUS
    <2>1. k - m \in 1..(r + 1) /\ k \in Int /\ m + (k - m) = k
        BY <1>1
    <2> QED BY <2>1
<1>3. NoReady(v)
    BY <1>2 DEF NoReady, ReadyAt
<1>4. m \in Int /\ l \in {n + r, n + r + 1}
    OBVIOUS
<1>9. l = n + r => v[m + r + 1].again
    OBVIOUS
<1> HIDE DEF m
<1>5. OneSession(v, i) /\ BoundTo(v, i, i)
    BY <1>2, <1>3 DEF OneSession, BoundTo, NoReady
<1>6. Ordered(v, n)
    <2> SUFFICES ASSUME NEW k, DataAt(v, k)
                 PROVE  Forward(v, k, n)
        BY DEF Ordered
    <2>7. k \in Int /\ k - m \in 1..(r + 1)
        BY <1>1
    <2>1. k \in Int /\ k - m \in 1..(r + 1) /\ v[k].sequence = IF k - m = r + 1 THEN l ELSE n + (k - m)
        BY <2>7, <1>2
    <2>6. k \in Int /\ m \in Int /\ r \in Int
        BY <2>1, <1>4
    <2>2. k - m = r + 1 => k = m + r + 1
        BY ONLY <2>6
    <2>3. \A x \in Int : x < n + (k - m) => Precedes(x, v[k])
        <3> SUFFICES ASSUME NEW x \in Int, x < n + (k - m)
                     PROVE  Precedes(x, v[k])
            OBVIOUS
        <3>1. CASE k - m = r + 1 /\ l = n + r
            <4>1. v[k].sequence = l /\ v[k].again
                BY <1>9, <2>1, <2>2, <3>1
            <4>2. x < l \/ x = l
                BY <2>6, <3>1
            <4> QED BY <4>1, <4>2 DEF Precedes
        <3>2. CASE k - m = r + 1 /\ l = n + r + 1
            BY <2>1, <2>6, <3>2 DEF Precedes
        <3>3. CASE k - m # r + 1
            BY <2>1, <3>3 DEF Precedes
        <3> QED BY <1>4, <3>1, <3>2, <3>3
    <2>4. ASSUME NEW j, DataAt(v, j), j < k
          PROVE  Precedes(v[j].sequence, v[k])
        <3>2. j \in Int /\ v[j].sequence = IF j - m = r + 1 THEN l ELSE n + (j - m)
            BY <1>2, <2>4
        <3>3. j - m < r + 1
            BY <3>2, <2>4, <2>6, <2>7
        <3>1. j \in Int /\ j - m # r + 1 /\ v[j].sequence = n + (j - m)
            BY <3>2, <3>3, <2>6
        <3> QED BY <1>4, <2>1, <2>3, <2>4, <3>1
    <2>5. Precedes(n, v[k])
        BY <1>4, <2>1, <2>3
    <2> QED BY <2>4, <2>5 DEF Forward
<1>7. Numbered(v, ll)
    <2> SUFFICES ASSUME NEW k, DataAt(v, k)
                 PROVE  v[k].sequence <= l
        BY <1>2 DEF Numbered
    <2>1. k - m \in 1..(r + 1) /\ v[k].sequence = IF k - m = r + 1 THEN l ELSE n + (k - m)
        BY <1>1, <1>2
    <2> QED BY <2>1, <1>4
<1>8. LastSent(v, ll, i, n)
    <2>1. DataAt(v, m + r + 1)
        BY <1>1, <1>4
    <2>3. m \in Int /\ r \in Int
        BY <1>4
    <2>4. (m + r + 1) - m = r + 1
        BY ONLY <2>3
    <2>2. v[m + r + 1].sequence = ll[i]
        BY <2>1, <2>4, <1>2
    <2> QED BY <2>1, <2>2 DEF LastSent
<1> QED BY <1>5, <1>6, <1>7, <1>8 DEF Carried

\* The client reads the first frame of the wire.  READY starts its session, a dispatch that is not
\* behind moves its sequence, and any other frame leaves both.
LEMMA ReadsControl ==
    ASSUME NEW w, NEW v, NEW i, NEW n, NEW b, NEW la, Len(w) \in Nat \ {0}, Drops(v, w),
           w[1] \notin Data, Carried(w, i, n, b, la)
    PROVE  Carried(v, i, n, b, la)
<1>1. \A k : DataAt(v, k) => k \in Nat \ {0} /\ DataAt(w, k + 1) /\ v[k] = w[k + 1]
    BY DataOfDropped
<1>2. \A k : DataAt(w, k) => k \in Nat \ {0} /\ k # 1 /\ DataAt(v, k - 1) /\ v[k - 1] = w[k]
    BY DataOfDropped DEF DataAt
<1>3. NoReady(v) <=> NoReady(w)
    BY <1>1, <1>2 DEF NoReady, ReadyAt
<1>4. OneSession(v, i)
    <2>1. ASSUME NEW k, NEW j, ReadyAt(v, k), DataAt(v, j)
          PROVE  k <= j /\ v[j].id = v[k].id
        <3>1. k \in Nat /\ j \in Nat /\ ReadyAt(w, k + 1) /\ DataAt(w, j + 1)
              /\ v[k] = w[k + 1] /\ v[j] = w[j + 1]
            BY <2>1, <1>1 DEF ReadyAt
        <3>2. k + 1 <= j + 1 /\ w[j + 1].id = w[k + 1].id
            BY <3>1 DEF Carried, OneSession
        <3> QED BY <3>1, <3>2
    <2>2. NoReady(v) => \A j : DataAt(v, j) => v[j].id = i
        BY <1>1, <1>3 DEF Carried, OneSession
    <2> QED BY <2>1, <2>2 DEF OneSession
<1>5. BoundTo(v, b, i)
    BY <1>1, <1>3 DEF Carried, BoundTo, ReadyAt
<1>6. Ordered(v, n)
    <2> SUFFICES ASSUME NEW k, DataAt(v, k)
                 PROVE  Forward(v, k, n) \/ Behind(v, k, n)
        BY DEF Ordered
    <2>1. k \in Nat /\ DataAt(w, k + 1) /\ v[k] = w[k + 1]
        BY <1>1
    <2>2. Forward(w, k + 1, n) \/ Behind(w, k + 1, n)
        BY <2>1 DEF Carried, Ordered
    <2>3. CASE Forward(w, k + 1, n)
        BY <2>1, <2>3, <1>1, <1>3 DEF Forward
    <2>4. CASE \E j : DataAt(w, j) /\ j < k + 1 /\ w[k + 1].sequence < w[j].sequence
        <3>1. PICK j : DataAt(w, j) /\ j < k + 1 /\ w[k + 1].sequence < w[j].sequence
            BY <2>4
        <3>2. j \in Nat /\ DataAt(v, j - 1) /\ v[j - 1] = w[j] /\ j - 1 < k
            BY <3>1, <2>1, <1>2
        <3> QED BY <3>1, <3>2, <2>1 DEF Behind
    <2>5. CASE NoReady(w) /\ w[k + 1].sequence < n
        BY <2>5, <2>1, <1>3 DEF Behind
    <2> QED BY <2>2, <2>3, <2>4, <2>5 DEF Behind
<1>7. Numbered(v, la)
    BY <1>1 DEF Carried, Numbered
<1>8. LastSent(v, la, b, n)
    <2>1. ASSUME NEW k, DataAt(w, k), w[k].sequence = la[b]
          PROVE  \E j : DataAt(v, j) /\ v[j].sequence = la[b]
        BY <2>1, <1>2
    <2> QED BY <2>1, <1>3 DEF Carried, LastSent
<1> QED BY <1>4, <1>5, <1>6, <1>7, <1>8 DEF Carried

LEMMA ReadsDispatch ==
    ASSUME NEW w, NEW v, NEW i, NEW n \in Int, NEW b, NEW la \in [Ids -> Int],
           Len(w) \in Nat \ {0}, Drops(v, w), w[1] \in Data,
           w[1].type = "ready" \/ n <= w[1].sequence, i = NoId \/ i \in Ids, Carried(w, i, n, b, la)
    PROVE  Carried(v, w[1].id, w[1].sequence, b, la)
<1> DEFINE h == w[1]
<1>1. \A k : DataAt(v, k) => k \in Nat \ {0} /\ DataAt(w, k + 1) /\ v[k] = w[k + 1]
    BY DataOfDropped
<1>2. \A k : DataAt(w, k) => k \in Nat \ {0} /\ (k # 1 => DataAt(v, k - 1) /\ v[k - 1] = w[k])
    BY DataOfDropped DEF DataAt
<1>3. DataAt(w, 1) /\ h.id \in Ids /\ h.sequence \in Int /\ h.sequence <= la[h.id]
    BY DEF DataAt, Data, Carried, Numbered
<1>4. \A k : DataAt(w, k) => w[k].id = h.id /\ w[k].sequence \in Int
    <2>1. \A k : DataAt(w, k) => w[k].sequence \in Int
        BY DEF DataAt, Data
    <2>2. CASE NoReady(w)
        BY <2>1, <2>2, <1>3 DEF Carried, OneSession
    <2>3. CASE ~NoReady(w)
        <3>1. PICK k : ReadyAt(w, k)
            BY <2>3 DEF NoReady
        <3> QED BY <2>1, <3>1, <1>3 DEF Carried, OneSession
    <2> QED BY <2>2, <2>3
<1>5. NoReady(v)
    <2> SUFFICES ASSUME NEW k, ReadyAt(v, k)
                 PROVE  FALSE
        BY DEF NoReady
    <2>1. k \in Nat \ {0} /\ ReadyAt(w, k + 1)
        BY <1>1 DEF ReadyAt
    <2>2. k + 1 <= 1
        BY <2>1, <1>3 DEF Carried, OneSession
    <2> QED BY <2>1, <2>2
<1>6. NoReady(w) => n <= h.sequence
    BY <1>3 DEF NoReady, ReadyAt
<1> HIDE DEF h
<1>7. OneSession(v, h.id) /\ BoundTo(v, b, h.id)
    <2>1. \A k : DataAt(v, k) => v[k].id = h.id
        BY <1>1, <1>4
    <2>2. b # NoId => b = h.id
        <3>1. CASE NoReady(w)
            BY <3>1, <1>3, <1>4 DEF Carried, BoundTo, OneSession, h
        <3>2. CASE ~NoReady(w)
            BY <3>2, <1>4 DEF Carried, BoundTo, NoReady, ReadyAt
        <3> QED BY <3>1, <3>2
    <2> QED BY <2>1, <2>2, <1>5 DEF OneSession, BoundTo, NoReady
<1>8. Ordered(v, h.sequence)
    <2> SUFFICES ASSUME NEW k, DataAt(v, k)
                 PROVE  Forward(v, k, h.sequence) \/ Behind(v, k, h.sequence)
        BY DEF Ordered
    <2>1. k \in Nat \ {0} /\ DataAt(w, k + 1) /\ v[k] = w[k + 1]
        BY <1>1
    <2>2. Forward(w, k + 1, n) \/ Behind(w, k + 1, n)
        BY <2>1 DEF Carried, Ordered
    <2>3. CASE Forward(w, k + 1, n)
        <3>1. Precedes(h.sequence, v[k])
            BY <2>1, <2>3, <1>3 DEF Forward, h
        <3>2. \A j : DataAt(v, j) /\ j < k => Precedes(v[j].sequence, v[k])
            BY <2>1, <2>3, <1>1 DEF Forward
        <3> QED BY <3>1, <3>2 DEF Forward
    <2>4. CASE \E j : DataAt(w, j) /\ j < k + 1 /\ w[k + 1].sequence < w[j].sequence
        <3>1. PICK j : DataAt(w, j) /\ j < k + 1 /\ w[k + 1].sequence < w[j].sequence
            BY <2>4
        <3>2. CASE j = 1
            BY <3>1, <3>2, <2>1, <1>5 DEF Behind, h
        <3>3. CASE j # 1
            <4>1. j \in Nat /\ DataAt(v, j - 1) /\ v[j - 1] = w[j] /\ j - 1 < k
                BY <3>1, <3>3, <2>1, <1>2
            <4> QED BY <3>1, <4>1, <2>1 DEF Behind
        <3> QED BY <3>2, <3>3
    <2>5. CASE NoReady(w) /\ w[k + 1].sequence < n
        <3>1. v[k].sequence < h.sequence
            BY <2>5, <2>1, <1>3, <1>4, <1>6
        <3> QED BY <3>1, <1>5 DEF Behind
    <2> QED BY <2>2, <2>3, <2>4, <2>5 DEF Behind
<1>9. Numbered(v, la)
    BY <1>1 DEF Carried, Numbered
<1>10. LastSent(v, la, b, h.sequence)
    <2> SUFFICES ASSUME b # NoId
                 PROVE  \/ \E k : DataAt(v, k) /\ v[k].sequence = la[b]
                        \/ NoReady(v) /\ h.sequence = la[b]
        BY DEF LastSent
    <2>1. CASE \E k : DataAt(w, k) /\ w[k].sequence = la[b]
        <3>1. PICK k : DataAt(w, k) /\ w[k].sequence = la[b]
            BY <2>1
        <3>2. CASE k = 1
            BY <3>1, <3>2, <1>5 DEF h
        <3>3. CASE k # 1
            BY <3>1, <3>3, <1>2
        <3> QED BY <3>2, <3>3
    <2>2. CASE NoReady(w) /\ n = la[b]
        <3>1. i = b /\ h.id = i
            BY <2>2, <1>3 DEF Carried, BoundTo, OneSession, h
        <3>2. h.sequence = la[b]
            BY <3>1, <2>2, <1>3, <1>6
        <3> QED BY <3>2, <1>5
    <2> QED BY <2>1, <2>2 DEF Carried, LastSent
<1> QED BY <1>3, <1>7, <1>8, <1>9, <1>10 DEF Carried, h


-----------------------------------------------------------------------------
(* Types *)

LEMMA FrameKinds ==
    /\ \A f \in Data : f.type \in {"ready", "resumed", "dispatch"}
    /\ \A f \in Controls : f.type \in {"hello"} \cup Disturbances /\ f \notin Data
    /\ Control("hello") \in Controls /\ \A type \in Disturbances : Control(type) \in Controls
    /\ \A i \in Ids, n \in 1..MaxSequence, type \in {"ready", "resumed", "dispatch"} :
           /\ Frame(type, i, n) \in Data /\ Again(type, i, n) \in Data
           /\ Frame(type, i, n) = [type |-> type, id |-> i, sequence |-> n, again |-> FALSE]
           /\ Again(type, i, n) = [type |-> type, id |-> i, sequence |-> n, again |-> TRUE]
BY CountsAssumption DEF Data, Controls, Frames, FrameTypes, Disturbances, Control, Frame, Again, Ids, NoId

LEMMA AttemptTypes ==
    ASSUME Typed
    PROVE  /\ \A p \in Phases : [attempt EXCEPT !.phase = p] \in Attempts
           /\ \A e \in Ends : [attempt EXCEPT !.ended = e] \in Attempts
           /\ \A p \in Phases, e \in Ends : [attempt EXCEPT !.phase = p, !.ended = e] \in Attempts
           /\ Idle \in Attempts /\ \A p \in Phases : [Idle EXCEPT !.phase = p] \in Attempts
           /\ \A b \in BOOLEAN : [Idle EXCEPT !.phase = "connecting", !.resuming = b] \in Attempts
           /\ [attempt EXCEPT !.hello = TRUE] \in Attempts
           /\ [attempt EXCEPT !.sent = TRUE] \in Attempts
           /\ \A b \in BOOLEAN : [attempt EXCEPT !.ready = TRUE, !.inTime = b] \in Attempts
           /\ NoEnd \in Ends
BY DEF Typed, Attempts, Phases, Ends, Idle, NoEnd

LEMMA LoopTypes ==
    ASSUME Typed
    PROVE  /\ Fresh \in Loops
           /\ [loop EXCEPT !.known = TRUE] \in Loops /\ [loop EXCEPT !.loaded = TRUE] \in Loops
           /\ [loop EXCEPT !.restored = TRUE] \in Loops
           /\ [loop EXCEPT !.restored = FALSE, !.established = TRUE, !.connected = TRUE] \in Loops
<1>1. 0 \in 0..MaxAttempts /\ 0 \in 0..ProtocolFailureLimit
    BY CountsAssumption
<1>2. Fresh \in Loops
    <2>1. (~Persistent) \in BOOLEAN
        OBVIOUS
    <2>2. ASSUME NEW loaded \in BOOLEAN
          PROVE  [known |-> FALSE, loaded |-> loaded, restored |-> FALSE, established |-> FALSE,
                  connected |-> FALSE, attempts |-> 0, anomalies |-> 0] \in Loops
        BY <1>1 DEF Loops
    <2> QED BY <2>1, <2>2 DEF Fresh
<1> QED BY <1>2 DEF Typed, Loops

LEMMA Failures ==
    /\ {Retryable, Reset, ProtocolAnomaly, Permanent} \subseteq Ends \ {NoEnd}
    /\ \A type \in Disturbances : Meaning(type) \in Ends \ {NoEnd}
    /\ Retryable.reset = FALSE /\ Permanent.reset = FALSE
<1>1. {Retryable, Reset, ProtocolAnomaly, Permanent} \subseteq Ends \ {NoEnd}
    BY DEF Retryable, Reset, ProtocolAnomaly, Permanent, Failure, Ends, NoEnd
<1>2. \A type \in Disturbances : Meaning(type) \in {Retryable, Reset, ProtocolAnomaly, Permanent}
    BY DEF Meaning, Disturbances
<1>3. Retryable.reset = FALSE /\ Permanent.reset = FALSE
    BY DEF Retryable, Permanent, Failure
<1> QED BY <1>1, <1>2, <1>3

LEMMA FailTypes ==
    ASSUME Typed, NEW failure \in Ends \ {NoEnd}, Fail(failure)
    PROVE  /\ attempt' \in Attempts /\ state' \in States
           /\ \E e \in Ends \ {NoEnd} : attempt' = [attempt EXCEPT !.ended = e]
<1>1. attempt' = [attempt EXCEPT !.ended = IF attempt.ended = NoEnd THEN failure ELSE attempt.ended]
    BY DEF Fail
<1>2. PICK e \in Ends \ {NoEnd} : e = IF attempt.ended = NoEnd THEN failure ELSE attempt.ended
    BY DEF Typed, Attempts
<1>3. attempt' = [attempt EXCEPT !.ended = e]
    BY <1>1, <1>2
<1>4. attempt' \in Attempts
    BY <1>3, AttemptTypes
<1>5. state' \in States
    BY DEF Fail, ShardState, Typed, States
<1> QED BY <1>3, <1>4, <1>5


-----------------------------------------------------------------------------
(* Steps that leave sessions and the socket alone *)

LEMMA EmptyLine ==
    ASSUME wire' = <<>>, up' = NoCommand, bound' = NoId,
           session'.id # NoId => session'.sequence <= last'[session'.id],
           attempt'.sent => attempt'.hello, attempt'.ready => attempt'.sent, attempt'.resuming => session'.id # NoId,
           lifetime' = "down" => attempt'.phase = "idle" /\ loop'.known = FALSE
    PROVE  Line'
<1>1. NoData(wire') /\ NoReady(wire')
    BY DEF NoData, NoReady, ReadyAt, DataAt
<1>2. \A k : ~DataAt(wire', k) /\ ~ReadyAt(wire', k) /\ ~ResumedAt(wire', k)
    BY <1>1 DEF NoData, ReadyAt, ResumedAt
<1>3. Carried(wire', session'.id, session'.sequence, bound', last')
    BY <1>2 DEF Carried, OneSession, BoundTo, Ordered, Numbered, LastSent
<1>4. up'.op # "resume" /\ up' # [op |-> "identify"]
    BY DEF NoCommand
<1>5. Expected(wire', up', attempt', bound')
    BY <1>2, <1>4 DEF Expected
<1> QED BY <1>3, <1>4, <1>5 DEF Line

LEMMA SameLine ==
    ASSUME Line, UNCHANGED <<bound, last, wire, up, session>>,
           attempt'.resuming = attempt.resuming, attempt'.sent = attempt.sent,
           attempt'.ready = attempt.ready, attempt'.hello = attempt.hello,
           Reachable => Reachable', lifetime' = "down" => attempt'.phase = "idle" /\ loop'.known = FALSE
    PROVE  Line'
<1>1. Carried(wire, session.id, session.sequence, bound, last)' <=>
      Carried(wire, session.id, session.sequence, bound, last)
    OBVIOUS
<1>2. Expected(wire, up, attempt, bound)' <=> Expected(wire, up, attempt, bound)
    BY DEF Expected
<1> QED BY <1>1, <1>2 DEF Line

LEMMA Unreachable ==
    ASSUME Typed, Line, ~Reachable
    PROVE  /\ wire = <<>> /\ up = NoCommand /\ bound = NoId
           /\ session.id # NoId => session.sequence <= last[session.id]
BY DEF Line, Carried

Unused == <<bound, last, wire, up, session, store, lateSave, cached, offered, closedAs>>

LEMMA SameBooks ==
    ASSUME Books, UNCHANGED Unused, Usable(session, closedAs, attempt', lifetime', saving'),
           attempt'.phase = "closing" /\ attempt'.ended = NoEnd => lifetime' = "closing"
    PROVE  Books'
BY DEF Books, Late, Unused

LEMMA QuietStep ==
    ASSUME ShardInv, UNCHANGED Unused, UNCHANGED runs, loop' \in Loops, attempt' \in Attempts,
           lifetime' \in {"down", "on", "draining", "closing"}, saving' \in BOOLEAN, state' \in States,
           Counted', Line', Usable(session, closedAs, attempt', lifetime', saving'),
           attempt'.phase = "closing" /\ attempt'.ended = NoEnd => lifetime' = "closing"
    PROVE  ShardInv'
<1>1. Typed'
    BY DEF ShardInv, Typed, Unused
<1>2. OfferedInOrder'
    BY DEF ShardInv, OfferedInOrder, Unused
<1> QED BY <1>1, <1>2, SameBooks DEF ShardInv

\* So far the client only looks around, or moves to another phase of the same attempt.
LEMMA QuietSame ==
    ASSUME ShardInv, UNCHANGED Unused, UNCHANGED runs, loop' \in Loops, attempt' \in Attempts,
           lifetime' \in {"down", "on", "draining", "closing"}, saving' \in BOOLEAN, state' \in States,
           Counted', attempt'.resuming = attempt.resuming, attempt'.sent = attempt.sent,
           attempt'.ready = attempt.ready, attempt'.hello = attempt.hello,
           \/ attempt'.phase = attempt.phase /\ (attempt.ended # NoEnd \/ attempt.phase # "closing")
                  /\ (attempt.ended = attempt'.ended \/ attempt.phase # "closing")
           \/ attempt.phase = "starting" /\ attempt'.phase = "running",
           lifetime' # "down", lifetime # "closing" \/ (lifetime' = lifetime /\ saving' = saving)
    PROVE  ShardInv'
<1>1. Reachable => Reachable'
    BY DEF Reachable
<1>2. Line'
    BY <1>1, SameLine DEF ShardInv, Unused
<1>3. Usable(session, closedAs, attempt', lifetime', saving')
    BY DEF ShardInv, Books, Usable, Alive
<1>4. attempt'.phase = "closing" /\ attempt'.ended = NoEnd => lifetime' = "closing"
    BY DEF ShardInv, Books
<1> QED BY <1>2, <1>3, <1>4, QuietStep

LEMMA QuietIdle ==
    ASSUME ShardInv, UNCHANGED Unused, UNCHANGED <<runs, lifetime, saving, state>>, lifetime # "down",
           loop' \in Loops, attempt' \in Attempts, Counted', attempt.phase \in {"idle", "marking"},
           attempt'.phase \in {"idle", "marking", "connecting"},
           attempt'.sent = FALSE, attempt'.ready = FALSE, attempt'.resuming => Resumable
    PROVE  ShardInv'
<1>1. ~Reachable
    BY DEF Reachable
<1>2. Line'
    BY <1>1, Unreachable, EmptyLine DEF ShardInv, Unused, Resumable
<1>3. Usable(session, closedAs, attempt', lifetime', saving')
    BY DEF ShardInv, Books, Usable, Alive
<1>4. state' \in States /\ saving' \in BOOLEAN /\ lifetime' \in {"down", "on", "draining", "closing"}
    BY DEF ShardInv, Typed
<1> QED BY <1>2, <1>3, <1>4, QuietStep

LEMMA DiscoverStep == ASSUME ShardInv, Discover PROVE ShardInv'
<1> USE DEF Discover, ShardInv
<1>1. UNCHANGED Unused
    BY DEF Unused, gateway, socket, stored, history
<1>2. loop' \in Loops /\ attempt' = attempt /\ attempt \in Attempts /\ state \in States /\ saving \in BOOLEAN
      /\ lifetime \in {"down", "on", "draining", "closing"}
    BY LoopTypes DEF Typed
<1>3. Counted'
    BY DEF Counted, Typed, Loops
<1> QED BY <1>1, <1>2, <1>3, QuietSame

LEMMA LoadStep == ASSUME ShardInv, LoadSession PROVE ShardInv'
<1> USE DEF LoadSession, ShardInv
<1>1. UNCHANGED Unused
    BY DEF Unused, gateway, socket, stored, history
<1>2. loop' \in Loops /\ state \in States /\ saving \in BOOLEAN
      /\ lifetime \in {"on", "draining", "closing"}
    BY LoopTypes DEF Typed, Line
<1>3. Counted'
    BY DEF Counted, Typed, Loops, Idle
<1>4. CASE UNCHANGED attempt
    BY <1>1, <1>2, <1>3, <1>4, QuietSame DEF Typed
<1>5. CASE attempt' = [Idle EXCEPT !.phase = "marking"]
    <2>1. attempt' \in Attempts /\ attempt'.phase = "marking" /\ attempt'.sent = FALSE /\ attempt'.ready = FALSE /\ attempt'.resuming = FALSE
        BY <1>5, AttemptTypes DEF Idle, Phases
    <2> QED BY <1>1, <1>2, <1>3, <2>1, QuietIdle
<1> QED BY <1>4, <1>5

LEMMA ConnectStep == ASSUME ShardInv, Connect PROVE ShardInv'
<1> USE DEF Connect, ShardInv
<1>1. UNCHANGED Unused
    BY DEF Unused, gateway, socket, stored, history
<1>2. loop' \in Loops /\ lifetime # "down"
    BY DEF Typed, Line
<1>3. attempt' \in Attempts /\ attempt'.phase = "connecting" /\ attempt'.sent = FALSE /\ attempt'.ready = FALSE
      /\ attempt'.resuming = Resumable
    BY AttemptTypes DEF Idle, Resumable
<1>4. Counted'
    BY <1>3 DEF Counted
<1> QED BY <1>1, <1>2, <1>3, <1>4, QuietIdle

LEMMA StartupFailsStep == ASSUME ShardInv, StartupFails PROVE ShardInv'
<1> USE DEF StartupFails, ShardInv
<1>1. UNCHANGED Unused
    BY DEF Unused, gateway, socket, stored, history
<1>2. loop' \in Loops /\ state' \in States /\ saving' \in BOOLEAN /\ lifetime' = lifetime
      /\ attempt.phase \in {"connecting", "starting"} /\ lifetime \in {"on", "draining", "closing"}
    BY DEF Typed, Line, DeadlineRuns
<1>3. attempt' = [attempt EXCEPT !.ended = Retryable] /\ attempt' \in Attempts
    BY AttemptTypes, Failures
<1>4. attempt'.resuming = attempt.resuming /\ attempt'.sent = attempt.sent /\ attempt'.ready = attempt.ready
      /\ attempt'.hello = attempt.hello /\ attempt'.phase = attempt.phase
    BY <1>3 DEF Typed, Attempts
<1>5. Counted'
    BY <1>4 DEF Counted
<1> QED BY <1>1, <1>2, <1>3, <1>4, <1>5, QuietSame

LEMMA UnresponsiveStep == ASSUME ShardInv, Unresponsive PROVE ShardInv'
<1> USE DEF Unresponsive, ShardInv
<1>1. UNCHANGED Unused
    BY DEF Unused, gateway, socket, stored, history
<1>2. loop' \in Loops /\ saving' \in BOOLEAN /\ lifetime \in {"on", "draining", "closing"}
    BY DEF Typed, Line
<1>3. attempt' \in Attempts /\ state' \in States /\ \E e \in Ends : attempt' = [attempt EXCEPT !.ended = e]
    BY FailTypes, Failures
<1>4. attempt'.resuming = attempt.resuming /\ attempt'.sent = attempt.sent /\ attempt'.ready = attempt.ready
      /\ attempt'.hello = attempt.hello /\ attempt'.phase = attempt.phase
    BY <1>3 DEF Typed, Attempts
<1>5. Counted'
    BY <1>4 DEF Counted
<1> QED BY <1>1, <1>2, <1>3, <1>4, <1>5, QuietSame

LEMMA BecomeReadyStep == ASSUME ShardInv, BecomeReady PROVE ShardInv'
<1> USE DEF BecomeReady, ShardInv
<1>1. UNCHANGED Unused
    BY DEF Unused, gateway, socket, stored, history
<1>2. loop' \in Loops /\ saving' \in BOOLEAN /\ lifetime \in {"on", "draining", "closing"} /\ state' \in States
    BY LoopTypes DEF Typed, Line, ShardState, States
<1>3. attempt' \in Attempts /\ attempt' = [attempt EXCEPT !.phase = "running"]
    BY AttemptTypes DEF Phases
<1>4. attempt'.resuming = attempt.resuming /\ attempt'.sent = attempt.sent /\ attempt'.ready = attempt.ready
      /\ attempt'.hello = attempt.hello /\ attempt'.phase = "running"
    BY <1>3 DEF Typed, Attempts
<1>5. Counted'
    BY <1>4 DEF Counted, Typed, Loops
<1> QED BY <1>1, <1>2, <1>3, <1>4, <1>5, QuietSame

LEMMA DrainStep == ASSUME ShardInv, Drain PROVE ShardInv'
<1> USE DEF Drain, ShardInv
<1>1. UNCHANGED Unused
    BY DEF Unused, gateway, socket, stored, history
<1>2. Counted'
    BY DEF Counted
<1>3. attempt.phase = "closing" => attempt.ended # NoEnd
    BY DEF Books
<1> QED BY <1>1, <1>2, <1>3, QuietSame DEF Typed

LEMMA CloseStep == ASSUME ShardInv, Close PROVE ShardInv'
<1> USE DEF Close, ShardInv
<1>1. UNCHANGED Unused
    BY DEF Unused, gateway, socket, stored, history
<1>2. Counted'
    BY DEF Counted
<1>3. attempt.phase = "closing" => attempt.ended # NoEnd
    BY DEF Books
<1>4. saving' \in BOOLEAN /\ state' \in States
    BY CountsAssumption DEF SavesOnClose, States
<1> QED BY <1>1, <1>2, <1>3, <1>4, QuietSame DEF Typed


-----------------------------------------------------------------------------
(* Steps that leave no socket *)

\* Nothing is under way afterwards: what is left to show is about sessions and snapshots.
LEMMA SilentStep ==
    ASSUME ShardInv, wire' = <<>>, up' = NoCommand, bound' = NoId, last' = last, offered' = offered,
           runs' \in 0..MaxRuns, lifetime' \in {"down", "on", "draining", "closing"}, saving' \in BOOLEAN,
           state' \in States, loop' \in Loops, attempt' \in Attempts, session' \in Snapshots, store' \in Snapshots,
           lateSave' \in {<<>>} \cup [{1} -> Snapshots], cached' \subseteq Ids \X (1..MaxSequence),
           closedAs' \in [Ids -> Codes], Counted',
           attempt'.sent => attempt'.hello, attempt'.ready => attempt'.sent, attempt'.resuming => session'.id # NoId,
           lifetime' = "down" => attempt'.phase = "idle" /\ loop'.known = FALSE,
           Memory(session', store', Late', <<>>, last, offered, closedAs'),
           Usable(session', closedAs', attempt', lifetime', saving'),
           attempt'.phase = "closing" /\ attempt'.ended = NoEnd => lifetime' = "closing"
    PROVE  ShardInv'
<1>1. Typed'
    <2>1. wire' \in Seq(Data \cup Controls) /\ up' \in Commands
        BY EmptySeq DEF Commands
    <2>2. bound' \in 0..MaxSessions
        BY CountsAssumption DEF NoId
    <2> QED BY <2>1, <2>2 DEF ShardInv, Typed
<1>2. Line'
    BY EmptyLine DEF Memory, Final
<1>3. Books'
    BY DEF Books
<1>4. OfferedInOrder'
    BY DEF ShardInv, OfferedInOrder
<1> QED BY <1>1, <1>2, <1>3, <1>4 DEF ShardInv

\* Without a wire, memory is about the client's session and the snapshots alone.
LEMMA NothingReady ==
    ASSUME ShardInv
    PROVE  /\ \A k : ~ReadyAt(<<>>, k)
           /\ Memory(session, store, Late, <<>>, last, offered, closedAs)
           /\ Memory(NoSession, store, Late, <<>>, last, offered, closedAs)
<1>1. \A k : ~ReadyAt(<<>>, k)
    BY DEF ReadyAt, DataAt
<1>2. Memory(session, store, Late, <<>>, last, offered, closedAs)
    BY <1>1 DEF ShardInv, Books, Memory
<1>3. Memory(NoSession, store, Late, <<>>, last, offered, closedAs)
    <2>1. NoSession.id = NoId
        BY DEF NoSession
    <2> HIDE DEF NoSession
    <2>2. Final(NoSession, last, offered) /\ Apart(NoSession, store) /\ Apart(NoSession, Late)
        BY <2>1 DEF Final, Apart
    <2> QED BY <1>1, <1>2, <2>2 DEF Memory
<1> QED BY <1>1, <1>2, <1>3

\* Closing the socket notes how the client's session ended.
LEMMA ClosingMemory ==
    ASSUME ShardInv, NEW code \in Codes, NEW cl \in [Ids -> Codes],
           \A i \in Ids : cl[i] = IF i = session.id THEN code ELSE closedAs[i]
    PROVE  Memory(session, store, Late, <<>>, last, offered, cl)
<1>1. session \in Snapshots /\ store \in Snapshots /\ Late \in Snapshots /\ closedAs \in [Ids -> Codes]
    BY DEF ShardInv, Typed, Late, Snapshots
<1>2. \A x \in Snapshots : x.id # NoId => x.id \in Ids
    BY DEF Snapshots, NoSession
<1>3. Memory(session, store, Late, <<>>, last, offered, closedAs) /\ \A k : ~ReadyAt(<<>>, k)
    BY NothingReady
<1>4. session.id # NoId => last[session.id] # 0
    BY <1>1, <1>2, <1>3 DEF Memory, Final, ShardInv, Typed
<1>5. \A i \in Ids : last[i] = 0 => cl[i] = "open" /\ offered[i] = <<>>
    BY <1>1, <1>3, <1>4 DEF Memory, Ids, NoId
<1> QED BY <1>1, <1>2, <1>3, <1>5 DEF Memory, Apart

LEMMA LoseStep == ASSUME ShardInv, Lose PROVE ShardInv'
<1> USE DEF Lose, ShardInv
<1>1. attempt' \in Attempts /\ state' \in States /\ \E e \in Ends : attempt' = [attempt EXCEPT !.ended = e]
    BY FailTypes, Failures
<1>2. attempt'.resuming = attempt.resuming /\ attempt'.sent = attempt.sent
      /\ attempt'.ready = attempt.ready /\ attempt'.hello = attempt.hello /\ attempt'.phase = attempt.phase
    BY <1>1 DEF Typed, Attempts
<1>3. Counted'
    BY <1>2 DEF Counted
<1>4. Memory(session', store', Late', <<>>, last, offered, closedAs')
    BY NothingReady DEF Late, stored, history
<1>5. Usable(session', closedAs', attempt', lifetime', saving')
    BY <1>2 DEF Books, Usable, history
<1>6. (attempt'.sent => attempt'.hello) /\ (attempt'.ready => attempt'.sent)
    BY <1>2 DEF Line, Expected
<1>7. attempt'.resuming => session'.id # NoId
    BY <1>2 DEF Line
<1>8. lifetime' = "down" => attempt'.phase = "idle" /\ loop'.known = FALSE
    BY <1>2 DEF Line
<1> QED BY <1>1, <1>2, <1>3, <1>4, <1>5, <1>6, <1>7, <1>8, SilentStep DEF Typed, stored, history

LEMMA Closings ==
    ASSUME ShardInv, NEW preserve \in BOOLEAN, NEW reason \in Codes, CloseSocket(preserve, reason)
    PROVE  /\ closedAs' \in [Ids -> Codes]
           /\ session.id \in Ids => closedAs'[session.id] = IF preserve THEN "kept" ELSE reason
           /\ Memory(session, store, Late, <<>>, last, offered, closedAs')
           /\ wire' = <<>> /\ up' = NoCommand /\ bound' = NoId
<1>1. closedAs' \in [Ids -> Codes]
    BY DEF CloseSocket, ShardInv, Typed, Codes
<1>2. PICK code \in Codes : code = IF preserve THEN "kept" ELSE reason
    BY DEF Codes
<1>3. \A i \in Ids : closedAs'[i] = IF i = session.id THEN code ELSE closedAs[i]
    BY <1>2 DEF CloseSocket
<1>4. Memory(session, store, Late, <<>>, last, offered, closedAs')
    BY <1>1, <1>3, ClosingMemory
<1> QED BY <1>1, <1>2, <1>3, <1>4 DEF CloseSocket

LEMMA EndStep == ASSUME ShardInv, EndAttempt PROVE ShardInv'
<1> USE DEF ShardInv
<1> DEFINE wanted == attempt.ended.retry /\ ~attempt.ended.reset
           reason == IF attempt.ended.retry THEN "reset" ELSE "failed"
<1>1. CloseSocket(Preserves(wanted), reason) /\ reason \in {"reset", "failed"} /\ reason \in Codes
    BY DEF EndAttempt, Codes
<1>2. Preserves(wanted) \in BOOLEAN /\ (wanted /\ session.id # NoId => Preserves(wanted))
    BY DEF Preserves, Resumable
<1> HIDE DEF wanted, reason
<1>3. attempt' \in Attempts /\ attempt' = [attempt EXCEPT !.phase = "closing"]
    BY AttemptTypes DEF Phases, EndAttempt
<1>4. attempt'.resuming = attempt.resuming /\ attempt'.sent = attempt.sent
      /\ attempt'.ready = attempt.ready /\ attempt'.hello = attempt.hello /\ attempt'.phase = "closing" /\ attempt'.ended = attempt.ended
    BY <1>3 DEF Typed, Attempts
<1>5. Counted'
    BY <1>4 DEF Counted, EndAttempt
<1>6. /\ closedAs' \in [Ids -> Codes]
      /\ session.id \in Ids => closedAs'[session.id] = IF Preserves(wanted) THEN "kept" ELSE reason
      /\ Memory(session, store, Late, <<>>, last, offered, closedAs')
      /\ wire' = <<>> /\ up' = NoCommand /\ bound' = NoId
    BY <1>1, <1>2, Closings
<1>7. session.id # NoId => session.id \in Ids
    BY DEF Typed, Snapshots, NoSession
<1>8. Usable(session, closedAs', attempt', lifetime, saving)
    BY <1>1, <1>2, <1>4, <1>6, <1>7 DEF Usable, Alive, wanted
<1>9. UNCHANGED <<last, runs, lifetime, saving, state, session, loop, stored, cached, offered, Late>>
    BY DEF EndAttempt, stored, Late
<1>10. (attempt'.sent => attempt'.hello) /\ (attempt'.ready => attempt'.sent)
    BY <1>4 DEF Line, Expected
<1>11. /\ attempt'.resuming => session'.id # NoId
       /\ lifetime' = "down" => attempt'.phase = "idle" /\ loop'.known = FALSE
       /\ attempt'.ended # NoEnd
    BY <1>4, <1>9 DEF Line, EndAttempt
<1> QED BY <1>3, <1>5, <1>6, <1>8, <1>9, <1>10, <1>11, SilentStep DEF Typed, stored


LEMMA InterruptStep == ASSUME ShardInv, Interrupt PROVE ShardInv'
<1> USE DEF ShardInv
<1>1. CASE attempt.phase \in {"idle", "marking"} /\ attempt' = [Idle EXCEPT !.phase = "off"]
           /\ UNCHANGED <<bound, socket, closedAs>>
    <2>1. attempt' \in Attempts /\ attempt'.phase = "off" /\ attempt'.sent = FALSE /\ attempt'.ready = FALSE /\ attempt'.resuming = FALSE
        BY <1>1, AttemptTypes DEF Idle, Phases
    <2>2. Counted'
        BY <2>1 DEF Counted
    <2>3. /\ wire' = <<>> /\ up' = NoCommand /\ bound' = NoId
        BY <1>1, Unreachable DEF Reachable, socket
    <2>4. UNCHANGED <<last, runs, lifetime, saving, state, session, loop, stored, cached, history, Late>>
        BY <1>1 DEF Interrupt, stored, history, Late
    <2>5. Memory(session', store', Late', <<>>, last, offered, closedAs')
        BY <2>4, NothingReady DEF stored, history
    <2>6. Usable(session', closedAs', attempt', lifetime', saving')
        BY <1>1, <2>1, <2>4 DEF Books, Usable, history
    <2>7. lifetime' = "closing"
        BY <2>4 DEF Interrupt
    <2> QED BY <2>1, <2>2, <2>3, <2>4, <2>5, <2>6, <2>7, SilentStep DEF Typed, stored, history
<1>2. CASE /\ attempt.phase \in {"connecting", "starting", "running"}
           /\ CloseSocket(Preserves(saving), "shutdown")
           /\ attempt' = [attempt EXCEPT !.phase = "closing", !.ended = NoEnd]
    <2>1. attempt' \in Attempts
        BY <1>2, AttemptTypes DEF Phases
    <2>2. attempt'.resuming = attempt.resuming /\ attempt'.sent = attempt.sent
          /\ attempt'.ready = attempt.ready /\ attempt'.hello = attempt.hello /\ attempt'.phase = "closing" /\ attempt'.ended = NoEnd
        BY <1>2 DEF Typed, Attempts
    <2>3. Counted'
        BY <1>2, <2>2 DEF Counted, Interrupt
    <2>4. Preserves(saving) \in BOOLEAN /\ (saving /\ session.id # NoId => Preserves(saving)) /\ "shutdown" \in Codes
        BY DEF Preserves, Resumable, Codes
    <2>5. /\ closedAs' \in [Ids -> Codes]
          /\ session.id \in Ids => closedAs'[session.id] = IF Preserves(saving) THEN "kept" ELSE "shutdown"
          /\ Memory(session, store, Late, <<>>, last, offered, closedAs')
          /\ wire' = <<>> /\ up' = NoCommand /\ bound' = NoId
        BY <1>2, <2>4, Closings
    <2>6. session.id # NoId => session.id \in Ids
        BY DEF Typed, Snapshots, NoSession
    <2>7. UNCHANGED <<last, runs, lifetime, saving, state, session, loop, stored, cached, offered, Late>>
          /\ lifetime = "closing"
        BY DEF Interrupt, stored, Late
    <2>8. Usable(session, closedAs', attempt', lifetime, saving)
        BY <2>2, <2>4, <2>5, <2>6, <2>7 DEF Usable, Alive
    <2>9. /\ attempt'.sent => attempt'.hello
          /\ attempt'.ready => attempt'.sent
          /\ attempt'.resuming => session'.id # NoId
        BY <2>2, <2>7 DEF Line, Expected
    <2> QED BY <2>1, <2>3, <2>5, <2>7, <2>8, <2>9, SilentStep DEF Typed, stored
<1> QED BY <1>1, <1>2 DEF Interrupt

\* The loop after a failure: its counters stay within their limits, and a session is offered again
\* only when the failure keeps it.
LEMMA AfterFailureStep ==
    ASSUME ShardInv, NEW failure \in Ends, NEW attempts \in 0..MaxAttempts, AfterFailure(failure, attempts),
           UNCHANGED <<gateway, socket, runs, lifetime, saving, stored, history>>, ~Reachable, lifetime # "down",
           attempt.phase # "off",
           failure.retry /\ ~failure.reset /\ session.id # NoId => closedAs[session.id] \in Alive
    PROVE  ShardInv'
<1> USE DEF ShardInv
<1>1. PICK healthy \in {FALSE, loop.connected}, goesOn \in BOOLEAN :
        LET anomalies == (IF healthy THEN 0 ELSE loop.anomalies) + (IF failure.end = "protocol" THEN 1 ELSE 0)
        IN
        /\ goesOn => MayRetry(failure, anomalies, attempts)
        /\ session' = AfterReset(failure)
        /\ cached' = IF (loop.established \/ loop.restored) /\ session'.id = NoId THEN {} ELSE cached
        /\ loop' = [loop EXCEPT !.attempts = attempts, !.anomalies = anomalies,
                                !.connected = IF goesOn /\ loop.established THEN FALSE ELSE @]
        /\ state' = IF goesOn /\ loop.established THEN ShardState("Recovering") ELSE state
        /\ attempt' = IF goesOn THEN Idle ELSE [Idle EXCEPT !.phase = "off"]
    BY DEF AfterFailure
<1> DEFINE anomalies == (IF healthy THEN 0 ELSE loop.anomalies) + (IF failure.end = "protocol" THEN 1 ELSE 0)
<1>2. loop.anomalies \in 0..ProtocolFailureLimit /\ loop.anomalies < ProtocolFailureLimit
      /\ ProtocolFailureLimit \in Nat \ {0}
    BY CountsAssumption DEF Typed, Loops, Counted
<1>3. anomalies \in 0..ProtocolFailureLimit
    BY <1>2
<1>4. goesOn => MayRetry(failure, anomalies, attempts)
    BY <1>1
<1>5. /\ session' = AfterReset(failure)
      /\ cached' = IF (loop.established \/ loop.restored) /\ session'.id = NoId THEN {} ELSE cached
      /\ loop' = [loop EXCEPT !.attempts = attempts, !.anomalies = anomalies,
                              !.connected = IF goesOn /\ loop.established THEN FALSE ELSE @]
      /\ state' = IF goesOn /\ loop.established THEN ShardState("Recovering") ELSE state
      /\ attempt' = IF goesOn THEN Idle ELSE [Idle EXCEPT !.phase = "off"]
    BY <1>1
<1> HIDE DEF anomalies
<1>6. loop' \in Loops /\ loop'.anomalies = anomalies
    <2>1. PICK c \in BOOLEAN : loop' = [loop EXCEPT !.attempts = attempts, !.anomalies = anomalies, !.connected = c]
        BY <1>5 DEF Typed, Loops
    <2> QED BY <2>1, <1>3 DEF Typed, Loops
<1>7. /\ attempt' \in Attempts /\ attempt'.sent = FALSE /\ attempt'.ready = FALSE /\ attempt'.resuming = FALSE
      /\ attempt'.phase = IF goesOn THEN "idle" ELSE "off"
    BY <1>5, AttemptTypes DEF Idle, Phases
<1>8. Counted'
    BY <1>2, <1>3, <1>4, <1>6, <1>7 DEF Counted, MayRetry
<1>9. session' \in {NoSession, session} /\ (failure.reset => session' = NoSession)
    BY <1>5 DEF AfterReset
<1>10. session' \in Snapshots /\ state' \in States /\ cached' \subseteq Ids \X (1..MaxSequence)
    BY <1>5, <1>9 DEF Typed, Snapshots, ShardState, States
<1>11. UNCHANGED <<last, runs, lifetime, saving, stored, history, Late>>
    BY DEF gateway, stored, history, Late
<1>12. wire' = <<>> /\ up' = NoCommand /\ bound' = NoId
    BY Unreachable DEF gateway, socket
<1>13. Memory(session', store', Late', <<>>, last, offered, closedAs')
    BY <1>9, <1>11, NothingReady DEF stored, history
<1>14. Usable(session', closedAs', attempt', lifetime', saving')
    <2>1. CASE session' = NoSession
        BY <2>1 DEF Usable, NoSession
    <2>2. CASE session' = session /\ ~failure.reset
        <3>1. session.id # NoId => closedAs[session.id] # "open"
            BY DEF Books, Usable, Reachable
        <3> QED BY <2>2, <3>1, <1>4, <1>7, <1>11 DEF Usable, Books, MayRetry, history
    <2> QED BY <2>1, <2>2, <1>9
<1> QED BY <1>6, <1>7, <1>8, <1>10, <1>11, <1>12, <1>13, <1>14, SilentStep DEF Typed, stored, history

LEMMA ClosedStep == ASSUME ShardInv, Closed PROVE ShardInv'
<1> USE DEF ShardInv
<1>1. ~Reachable /\ lifetime # "down" /\ attempt.phase = "closing"
    BY DEF Closed, Reachable, Line
<1>2. CASE attempt.ended # NoEnd /\ AfterFailure(attempt.ended, loop.attempts + 1)
    <2>1. attempt.ended \in Ends /\ loop.attempts + 1 \in 0..MaxAttempts
        BY <1>1, CountsAssumption DEF Typed, Attempts, Loops, Counted
    <2>2. attempt.ended.retry /\ ~attempt.ended.reset /\ session.id # NoId => closedAs[session.id] \in Alive
        BY <1>1, <1>2 DEF Books, Usable
    <2> QED BY <1>1, <1>2, <2>1, <2>2, AfterFailureStep DEF Closed
<1>3. CASE lifetime = "closing" /\ attempt' = [Idle EXCEPT !.phase = "off"]
           /\ UNCHANGED <<state, session, loop, cached>>
    <2>1. attempt' \in Attempts /\ attempt'.phase = "off" /\ attempt'.sent = FALSE /\ attempt'.ready = FALSE /\ attempt'.resuming = FALSE
        BY <1>3, AttemptTypes DEF Idle, Phases
    <2>2. Counted'
        BY <2>1 DEF Counted
    <2>3. wire' = <<>> /\ up' = NoCommand /\ bound' = NoId
        BY <1>1, Unreachable DEF socket, gateway, Closed
    <2>4. UNCHANGED <<last, runs, lifetime, saving, stored, history, Late>>
        BY DEF Closed, stored, history, Late, gateway
    <2>5. Memory(session', store', Late', <<>>, last, offered, closedAs')
        BY <1>3, <2>4, NothingReady DEF stored, history
    <2>6. Usable(session', closedAs', attempt', lifetime', saving')
        BY <1>1, <1>3, <2>1, <2>4 DEF Books, Usable, history
    <2> QED BY <1>3, <2>1, <2>2, <2>3, <2>4, <2>5, <2>6, SilentStep DEF Typed, stored, history
<1> QED BY <1>2, <1>3 DEF Closed

LEMMA DiscoveryFailsStep ==
    ASSUME ShardInv, NEW failure \in {Retryable, Permanent}, DiscoveryFails(failure)
    PROVE  ShardInv'
<1> USE DEF ShardInv
<1>1. ~Reachable /\ lifetime # "down" /\ attempt.phase = "idle" /\ failure \in Ends
    BY Failures DEF DiscoveryFails, Reachable
<1>2. PICK counted \in {0, 1} : AfterFailure(failure, loop.attempts + counted)
    BY DEF DiscoveryFails
<1>3. loop.attempts + counted \in 0..MaxAttempts
    <2>1. loop.attempts \in 0..MaxAttempts
        BY DEF Typed, Loops
    <2>2. loop.attempts < MaxAttempts /\ MaxAttempts \in Nat
        BY CountsAssumption DEF DiscoveryFails
    <2> QED BY <2>1, <2>2
<1>4. session.id # NoId => closedAs[session.id] \in Alive
    BY <1>1 DEF Books, Usable
<1> QED BY <1>1, <1>2, <1>3, <1>4, AfterFailureStep DEF DiscoveryFails


-----------------------------------------------------------------------------
(* The process and the store *)

\* A process that is over has no session; its snapshot may be written now, later or never.
LEMMA DownStep ==
    ASSUME ShardInv, wire' = <<>>, up' = NoCommand, bound' = NoId, UNCHANGED <<last, runs, offered>>,
           lifetime' = "down", saving' = FALSE, state' = "Disconnected", session' = NoSession,
           loop' = Fresh, attempt' = Idle, cached' = {}, store' \in Snapshots,
           lateSave' \in {<<>>} \cup [{1} -> Snapshots], closedAs' \in [Ids -> Codes],
           Memory(NoSession, store', Late', <<>>, last, offered, closedAs')
    PROVE  ShardInv'
<1> USE DEF ShardInv
<1>1. loop' \in Loops /\ loop'.known = FALSE /\ loop'.anomalies = 0 /\ attempt' \in Attempts /\ attempt'.phase = "idle"
      /\ attempt'.sent = FALSE /\ attempt'.ready = FALSE /\ attempt'.resuming = FALSE
    BY LoopTypes, AttemptTypes DEF Fresh, Idle
<1>2. Counted'
    BY <1>1, CountsAssumption DEF Counted
<1>3. Usable(session', closedAs', attempt', lifetime', saving')
    BY DEF Usable, NoSession
<1>4. session' \in Snapshots /\ state' \in States
    BY DEF Snapshots, States
<1> QED BY <1>1, <1>2, <1>3, <1>4, SilentStep DEF Typed

LEMMA CrashStep == ASSUME ShardInv, Crash PROVE ShardInv'
<1>1. store' \in Snapshots /\ lateSave' \in {<<>>} \cup [{1} -> Snapshots]
      /\ store' = store /\ Late' = Late /\ UNCHANGED <<offered, closedAs>> /\ closedAs \in [Ids -> Codes]
    BY DEF Crash, ShardInv, Typed, stored, history, Late
<1>2. Memory(NoSession, store', Late', <<>>, last, offered, closedAs')
    BY <1>1, NothingReady
<1> QED BY <1>1, <1>2, DownStep DEF Crash

LEMMA StartStep == ASSUME ShardInv, Start PROVE ShardInv'
<1> USE DEF ShardInv
<1>1. loop' \in Loops /\ loop'.anomalies = 0 /\ attempt' \in Attempts /\ attempt'.phase = "idle"
      /\ attempt'.sent = FALSE /\ attempt'.ready = FALSE /\ attempt'.resuming = FALSE
    BY LoopTypes, AttemptTypes DEF Fresh, Idle, Start
<1>2. Counted'
    BY <1>1, CountsAssumption DEF Counted
<1>3. Usable(session', closedAs', attempt', lifetime', saving')
    BY DEF Usable, NoSession, Start
<1>4. session' = NoSession /\ session' \in Snapshots /\ state' \in States /\ runs' \in 0..MaxRuns /\ lifetime' = "on"
      /\ saving' = FALSE /\ cached' = {}
    BY CountsAssumption DEF Snapshots, States, Start, Typed
<1>5. wire' = <<>> /\ up' = NoCommand /\ bound' = NoId
    BY Unreachable DEF Start, Line, Reachable, socket, gateway
<1>6. UNCHANGED <<last, stored, history, Late>>
    BY DEF Start, gateway, stored, history, Late
<1>7. Memory(session', store', Late', <<>>, last, offered, closedAs')
    BY <1>4, <1>6, NothingReady DEF stored, history
<1> QED BY <1>1, <1>2, <1>3, <1>4, <1>5, <1>6, <1>7, SilentStep DEF Typed, stored, history

\* Where a snapshot may be after it was saved, or was not.
LEMMA SavesSession ==
    ASSUME ShardInv, session.id # NoId, NEW code \in SavedCodes, NEW cl \in [Ids -> Codes],
           \A i \in Ids : cl[i] = IF i = session.id THEN code ELSE closedAs[i],
           Saved(session) \/ NotSaved(session)
    PROVE  /\ store' \in Snapshots /\ lateSave' \in {<<>>} \cup [{1} -> Snapshots]
           /\ Memory(NoSession, store', Late', <<>>, last, offered, cl)
<1>1. session \in Snapshots /\ store \in Snapshots /\ lateSave \in {<<>>} \cup [{1} -> Snapshots]
    BY DEF ShardInv, Typed
<1>2. NoSession.id = NoId /\ session.id \in Ids
    BY <1>1 DEF NoSession, Snapshots
<1> HIDE DEF NoSession
<1>3. Memory(session, store, Late, <<>>, last, offered, cl) /\ \A k : ~ReadyAt(<<>>, k)
    BY ClosingMemory, NothingReady DEF SavedCodes, Codes
<1>4. CASE Saved(session)
    <2>1. store' = session /\ lateSave' = lateSave /\ Late' = Late
        BY <1>4 DEF Saved, Late
    <2>2. Memory(NoSession, session, Late, <<>>, last, offered, cl)
        BY <1>2, <1>3 DEF Memory, Final, Apart
    <2> QED BY <1>1, <2>1, <2>2
<1>5. CASE UNCHANGED store /\ lateSave' = lateSave
    <2>1. Memory(NoSession, store, Late, <<>>, last, offered, cl) /\ Late' = Late
        BY <1>2, <1>3, <1>5 DEF Late, Memory, Final, Apart
    <2> QED BY <1>1, <1>5, <2>1
<1>6. CASE UNCHANGED store /\ lateSave' = <<session>>
    <2>1. lateSave' \in [{1} -> Snapshots] /\ Late' = session
        BY <1>1, <1>6 DEF Late
    <2>2. Memory(NoSession, store, session, <<>>, last, offered, cl)
        BY <1>2, <1>3 DEF Memory, Final, Apart
    <2> QED BY <1>1, <1>6, <2>1, <2>2
<1> QED BY <1>4, <1>5, <1>6 DEF NotSaved

LEMMA FinishStep == ASSUME ShardInv, Finish PROVE ShardInv'
<1> USE DEF ShardInv
<1>1. wire' = <<>> /\ up' = NoCommand /\ bound' = NoId /\ UNCHANGED last
    BY Unreachable DEF Finish, Reachable, socket, gateway
<1>2. store' \in Snapshots /\ lateSave' \in {<<>>} \cup [{1} -> Snapshots] /\ closedAs' \in [Ids -> Codes]
      /\ Memory(NoSession, store', Late', <<>>, last, offered, closedAs')
    <2>1. CASE lifetime = "closing" /\ saving /\ Resumable
        <3>1. session.id \in Ids /\ session.id # NoId
            BY <2>1 DEF Resumable, Typed, Snapshots, NoSession
        <3>2. closedAs[session.id] \in Codes \ {"open", "shutdown"}
            BY <2>1, <3>1 DEF Finish, Books, Usable, Typed
        <3>3. PICK code \in SavedCodes : code = SavedAfter(closedAs[session.id])
            BY <3>2 DEF SavedAfter, SavedCodes, Codes
        <3>4. Saved(session) \/ NotSaved(session)
            BY <2>1 DEF Finish
        <3>5. closedAs' = [closedAs EXCEPT ![session.id] = code]
            BY <2>1, <3>3 DEF Finish
        <3>6. closedAs' \in [Ids -> Codes] /\ \A i \in Ids : closedAs'[i] = IF i = session.id THEN code ELSE closedAs[i]
            BY <3>1, <3>5 DEF Typed, SavedCodes, Codes
        <3> QED BY <3>1, <3>4, <3>6, SavesSession
    <2>2. CASE ~(lifetime = "closing" /\ saving /\ Resumable)
        <3>1. UNCHANGED <<stored, closedAs>> /\ Late' = Late
            BY <2>2 DEF Finish, stored, Late
        <3> QED BY <3>1, NothingReady DEF stored, Typed
    <2> QED BY <2>1, <2>2
<1> QED BY <1>1, <1>2, DownStep DEF Finish

LEMMA MarkUsedStep == ASSUME ShardInv, MarkUsed PROVE ShardInv'
<1> USE DEF ShardInv
<1>1. lifetime \in {"on", "draining", "closing"} /\ ~Reachable
    BY DEF Typed, Line, Reachable, MarkUsed
<1>2. attempt' \in Attempts /\ attempt'.phase = "idle" /\ attempt'.sent = FALSE /\ attempt'.ready = FALSE /\ attempt'.resuming = FALSE
    BY AttemptTypes DEF MarkUsed, Idle
<1>3. loop' \in Loops /\ loop'.anomalies = loop.anomalies
    BY LoopTypes DEF Typed, Loops, MarkUsed
<1>4. Counted'
    BY <1>2, <1>3 DEF Counted, MarkUsed
<1>5. wire' = <<>> /\ up' = NoCommand /\ bound' = NoId
    BY <1>1, Unreachable DEF MarkUsed, socket, gateway
<1>6. UNCHANGED <<last, offered, runs, lifetime, saving, state, cached>>
    BY DEF MarkUsed, gateway, history
<1>7. NoSession.id = NoId /\ NoSession \in Snapshots
    BY DEF NoSession, Snapshots
<1>8. Memory(session, store, Late, <<>>, last, offered, closedAs) /\ \A k : ~ReadyAt(<<>>, k)
    BY NothingReady
<1>9. CASE /\ store # NoSnapshot
           /\ Saved(UsedSnapshot(store))
           /\ session' = store
    <2>1. store.id \in Ids /\ store \in Snapshots /\ store.id # NoId
        BY <1>9 DEF Typed, Snapshots, NoSnapshot, Ids, NoId
    <2>2. closedAs' = closedAs /\ closedAs[store.id] \in SavedCodes
        BY <1>8, <2>1 DEF MarkUsed, history, Memory
    <2>3. store' = NoSession /\ lateSave' = lateSave /\ Late' = Late
        BY <1>9 DEF Saved, UsedSnapshot, NoSnapshot, Late
    <2>4. Late.id = NoId \/ Late.id \in Ids
        BY DEF Typed, Snapshots, Late, NoSession
    <2> HIDE DEF NoSession
    <2>5. Memory(store, NoSession, Late, <<>>, last, offered, closedAs)
        BY <1>7, <1>8, <2>1 DEF Memory, Final, Apart
    <2>6. Usable(session', closedAs', attempt', lifetime', saving')
        BY <1>2, <1>9, <2>2 DEF Usable, Alive, SavedCodes
    <2>7. session' \in Snapshots /\ store' \in Snapshots /\ lateSave' \in {<<>>} \cup [{1} -> Snapshots]
        BY <1>7, <1>9, <2>1, <2>3 DEF Typed
    <2>8. Memory(session', store', Late', <<>>, last, offered, closedAs')
        BY <1>6, <1>9, <2>2, <2>3, <2>5
    <2>9. closedAs' \in [Ids -> Codes]
        BY <2>2 DEF Typed
    <2> QED BY <1>1, <1>2, <1>3, <1>4, <1>5, <1>6, <2>9, <2>6, <2>7, <2>8, SilentStep DEF Typed
<1>10. CASE NotSaved(UsedSnapshot(store)) /\ UNCHANGED <<session, loop>>
    <2>1. UNCHANGED <<store, closedAs>> /\ (UNCHANGED lateSave \/ lateSave' = <<NoSession>>)
        BY <1>10 DEF MarkUsed, history, NotSaved, UsedSnapshot, NoSnapshot
    <2>2. lateSave' \in {<<>>} \cup [{1} -> Snapshots] /\ Late' \in {Late, NoSession}
        BY <2>1, <1>7 DEF Typed, Late
    <2> HIDE DEF NoSession
    <2>3. Memory(session, store, NoSession, <<>>, last, offered, closedAs)
        BY <1>7, <1>8 DEF Memory, Final, Apart
    <2>4. Memory(session', store', Late', <<>>, last, offered, closedAs')
        BY <1>8, <1>10, <2>1, <2>2, <2>3
    <2>5. Usable(session', closedAs', attempt', lifetime', saving')
        BY <1>2, <1>6, <1>10, <2>1 DEF Books, Usable, MarkUsed
    <2> QED BY <1>1, <1>2, <1>3, <1>4, <1>5, <1>6, <1>10, <2>1, <2>2, <2>4, <2>5, SilentStep DEF Typed
<1> QED BY <1>9, <1>10 DEF MarkUsed

LEMMA LateWriteStep == ASSUME ShardInv, LateWrite PROVE ShardInv'
<1> USE DEF ShardInv, LateWrite
<1>1. UNCHANGED <<bound, last, wire, up, session, cached, runs, lifetime, saving, state, loop, attempt, offered, closedAs>>
    BY DEF gateway, socket, client, history
<1>2. store' = Late /\ Late \in Snapshots /\ lateSave' = <<>> /\ Late' = NoSession
    BY DEF Late, Typed, Snapshots
<1>3. Typed'
    BY <1>1, <1>2 DEF Typed
<1>4. NoSession.id = NoId
    BY DEF NoSession
<1> HIDE DEF NoSession
<1>5. \A k : ReadyAt(wire, k) => wire[k].id \in Ids /\ wire[k].id # NoId
    BY DEF ReadyAt, DataAt, Data, Ids, NoId
<1>6. Memory(session, Late, NoSession, wire, last, offered, closedAs)
    BY <1>4, <1>5 DEF Books, Memory, Final, Apart
<1>7. Books'
    BY <1>1, <1>2, <1>6 DEF Books
<1>8. Counted' /\ OfferedInOrder'
    BY <1>1 DEF Counted, OfferedInOrder
<1>9. Reachable' = Reachable
    BY <1>1 DEF Reachable
<1>10. Line'
    BY <1>1, <1>9, SameLine DEF Line
<1> QED BY <1>3, <1>7, <1>8, <1>10


-----------------------------------------------------------------------------
(* The socket's traffic *)

\* Steps that change nothing but the socket, what the gateway knows and how a session was closed
LEMMA SocketStep ==
    ASSUME ShardInv, UNCHANGED <<runs, lifetime, saving, state, session, stored, cached, offered>>,
           bound' \in 0..MaxSessions, last' \in [Ids -> 0..MaxSequence], closedAs' \in [Ids -> Codes],
           wire' \in Seq(Data \cup Controls), up' \in Commands,
           loop' = loop, attempt' \in Attempts, attempt'.phase = "starting" \/ attempt' = attempt,
           attempt'.phase \in {"starting", "running"}, attempt.phase = "idle" => attempt'.phase = "idle",
           attempt'.phase = "starting" => attempt.phase \in {"connecting", "starting"},
           attempt'.resuming = attempt.resuming,
           Carried(wire', session.id, session.sequence, bound', last'),
           Expected(wire', up', attempt', bound'),
           up'.op = "resume" => up'.id = session.id /\ up'.sequence = session.sequence,
           Memory(session, store, Late, wire', last', offered, closedAs'),
           Usable(session, closedAs', attempt', lifetime, saving)
    PROVE  ShardInv'
<1> USE DEF ShardInv
<1>1. Typed'
    BY DEF Typed, stored
<1>2. Counted'
    BY DEF Counted
<1>3. Late' = Late
    BY DEF stored, Late
<1>4. Usable(session', closedAs', attempt', lifetime', saving')
    BY DEF Books, Usable
<1>5. Books'
    BY <1>3, <1>4 DEF Books, stored
<1>6. OfferedInOrder'
    BY DEF OfferedInOrder
<1>7. Line'
    BY DEF Line, Reachable
<1> QED BY <1>1, <1>2, <1>5, <1>6, <1>7

LEMMA TrafficStep ==
    ASSUME ShardInv, UNCHANGED <<runs, lifetime, saving, state, session, stored, cached, history>>,
           bound' \in 0..MaxSessions, last' \in [Ids -> 0..MaxSequence],
           wire' \in Seq(Data \cup Controls), up' \in Commands,
           loop' = loop, attempt' \in Attempts, attempt'.phase = "starting" \/ attempt' = attempt,
           attempt'.phase \in {"starting", "running"}, attempt.phase = "idle" => attempt'.phase = "idle",
           attempt'.phase = "starting" => attempt.phase \in {"connecting", "starting"},
           attempt'.resuming = attempt.resuming,
           Carried(wire', session.id, session.sequence, bound', last'),
           Expected(wire', up', attempt', bound'),
           up'.op = "resume" => up'.id = session.id /\ up'.sequence = session.sequence,
           Memory(session, store, Late, wire', last', offered, closedAs)
    PROVE  ShardInv'
<1>1. UNCHANGED <<offered, closedAs>> /\ closedAs' \in [Ids -> Codes]
    BY DEF history, ShardInv, Typed
<1>2. Usable(session, closedAs', attempt', lifetime, saving)
    BY <1>1 DEF ShardInv, Books, Usable
<1> QED BY <1>1, <1>2, SocketStep

LEMMA ControlSame ==
    ASSUME NEW w, NEW v, NEW f, Len(w) \in Nat, Appends(v, w, f), f \notin Data
    PROVE  /\ \A k : DataAt(v, k) <=> DataAt(w, k)
           /\ \A k : DataAt(w, k) => v[k] = w[k]
           /\ \A k : ReadyAt(v, k) <=> ReadyAt(w, k)
           /\ \A k : ResumedAt(v, k) <=> ResumedAt(w, k)
           /\ NoData(v) <=> NoData(w)
<1>1. \A k : DataAt(v, k) <=> DataAt(w, k)
    BY DataOfAppended
<1>2. \A k : DataAt(w, k) => v[k] = w[k]
    BY DEF Appends, DataAt
<1> QED BY <1>1, <1>2 DEF ReadyAt, ResumedAt, NoData

\* A control frame changes nothing of what may follow.
LEMMA ControlExpected ==
    ASSUME NEW w, NEW v, NEW f, NEW a, NEW u, NEW x \in {u, NoCommand}, NEW b, NEW c \in {b, NoId},
           Len(w) \in Nat, Appends(v, w, f), f \notin Data, Expected(w, u, a, b)
    PROVE  Expected(v, x, a, c)
<1>1. NoCommand.op # "resume" /\ NoCommand # [op |-> "identify"]
    BY DEF NoCommand
<1> HIDE DEF NoCommand
<1>2. /\ x = [op |-> "identify"] => u = [op |-> "identify"]
      /\ x.op = "resume" => u.op = "resume"
      /\ x # NoCommand => u # NoCommand
      /\ c # NoId => b # NoId
      /\ b = NoId => c = NoId
    BY <1>1
<1>3. /\ \A k : DataAt(v, k) <=> DataAt(w, k)
      /\ \A k : ReadyAt(v, k) <=> ReadyAt(w, k)
      /\ \A k : ResumedAt(v, k) <=> ResumedAt(w, k)
      /\ NoData(v) <=> NoData(w)
    BY ControlSame
<1> QED BY <1>2, <1>3 DEF Expected

LEMMA ControlMemory ==
    ASSUME NEW w, NEW v, NEW f, NEW s, NEW st, NEW lt, NEW la, NEW of, NEW cl,
           Len(w) \in Nat, Appends(v, w, f), f \notin Data, Memory(s, st, lt, w, la, of, cl)
    PROVE  Memory(s, st, lt, v, la, of, cl)
<1>1. \A k : ReadyAt(v, k) => ReadyAt(w, k) /\ v[k] = w[k]
    BY ControlSame DEF ReadyAt
<1> QED BY <1>1 DEF Memory

LEMMA DisturbStep == ASSUME ShardInv, NEW type \in Disturbances, Disturb(type) PROVE ShardInv'
<1> USE DEF ShardInv
<1>1. Control(type) \in Data \cup Controls /\ Control(type) \notin Data /\ Len(wire) \in Nat
    BY FrameKinds, LenProperties DEF Typed
<1>2. wire' \in Seq(Data \cup Controls) /\ Appends(wire', wire, Control(type))
    BY <1>1, AppendsOne DEF Disturb, Send, Typed
<1>3. UNCHANGED <<last, up, runs, lifetime, saving, state, session, loop, attempt, stored, cached, history>>
      /\ bound' \in {bound, NoId} /\ Reachable
    BY DEF Disturb, client
<1>4. bound' \in 0..MaxSessions /\ attempt'.phase \in {"starting", "running"}
    BY <1>3, CountsAssumption DEF Typed, NoId, Reachable
<1>5. Carried(wire', session.id, session.sequence, bound', last)
    BY <1>1, <1>2, <1>3, ControlAppended DEF Line
<1>6. Expected(wire', up, attempt, bound')
    BY <1>1, <1>2, <1>3, ControlExpected DEF Line
<1>7. Memory(session, store, Late, wire', last, offered, closedAs)
    BY <1>1, <1>2, ControlMemory DEF Books
<1>8. /\ Carried(wire', session.id, session.sequence, bound', last')
      /\ Expected(wire', up', attempt', bound')
      /\ Memory(session, store, Late, wire', last', offered, closedAs)
    BY <1>3, <1>5, <1>6, <1>7
<1>9. last' \in [Ids -> 0..MaxSequence] /\ up' \in Commands /\ attempt' \in Attempts /\ attempt' = attempt
      /\ loop' = loop
    BY <1>3 DEF Typed
<1>10. /\ up'.op = "resume" => up'.id = session.id /\ up'.sequence = session.sequence
       /\ attempt'.resuming = attempt.resuming
       /\ attempt.phase = "idle" => attempt'.phase = "idle"
       /\ attempt'.phase = "starting" => attempt.phase \in {"connecting", "starting"}
    BY <1>3 DEF Line
<1>11. UNCHANGED <<runs, lifetime, saving, state, session, stored, cached, history>>
    BY <1>3
<1> QED BY <1>2, <1>4, <1>8, <1>9, <1>10, <1>11, TrafficStep

LEMMA OpenedStep == ASSUME ShardInv, Opened PROVE ShardInv'
<1> USE DEF ShardInv
<1>1. Control("hello") \in Data \cup Controls /\ Control("hello") \notin Data
    BY FrameKinds
<1>2. wire = <<>> /\ up = NoCommand /\ bound = NoId /\ wire' = <<Control("hello")>>
    BY Unreachable DEF Opened, Reachable
<1>3. Len(wire) \in Nat /\ wire' \in Seq(Data \cup Controls) /\ Appends(wire', wire, Control("hello"))
    BY <1>1, <1>2 DEF Appends
<1>4. UNCHANGED <<bound, last, up, runs, lifetime, saving, state, session, loop, stored, cached, history>>
    BY DEF Opened, gateway
<1>5. attempt' \in Attempts /\ attempt' = [attempt EXCEPT !.phase = "starting"]
    BY AttemptTypes DEF Opened, Phases
<1>6. attempt'.resuming = attempt.resuming /\ attempt'.sent = attempt.sent /\ attempt'.ready = attempt.ready
      /\ attempt'.hello = attempt.hello /\ attempt'.phase = "starting" /\ attempt.phase = "connecting"
    BY <1>5 DEF Typed, Attempts, Opened
<1>7. Carried(wire', session.id, session.sequence, bound, last)
    BY <1>1, <1>3, ControlAppended DEF Line
<1>8. Expected(wire', up, attempt, bound)
    BY <1>1, <1>3, ControlExpected DEF Line
<1>9. Expected(wire', up, attempt', bound)
    BY <1>6, <1>8 DEF Expected
<1>10. Memory(session, store, Late, wire', last, offered, closedAs)
    BY <1>1, <1>3, ControlMemory DEF Books
<1>11. up.op = "resume" => up.id = session.id /\ up.sequence = session.sequence
    BY DEF Line
<1>12. attempt'.phase \in {"starting", "running"}
    BY <1>6
<1>13. /\ Carried(wire', session.id, session.sequence, bound', last')
       /\ Expected(wire', up', attempt', bound')
       /\ Memory(session, store, Late, wire', last', offered, closedAs)
    BY <1>4, <1>7, <1>9, <1>10
<1>14. bound' \in 0..MaxSessions /\ last' \in [Ids -> 0..MaxSequence] /\ up' \in Commands
    BY <1>4 DEF Typed
<1>15. up'.op = "resume" => up'.id = session.id /\ up'.sequence = session.sequence
    BY <1>4, <1>11
<1>16. UNCHANGED <<runs, lifetime, saving, state, session, stored, cached, history>> /\ loop' = loop
    BY <1>4
<1> QED BY <1>3, <1>5, <1>6, <1>12, <1>13, <1>14, <1>15, <1>16, TrafficStep

LEMMA AuthenticateStep == ASSUME ShardInv, Authenticate PROVE ShardInv'
<1> USE DEF ShardInv
<1>1. attempt.phase = "starting" /\ attempt.hello = TRUE /\ attempt.sent = FALSE
    BY DEF Authenticate, Typed, Attempts
<1>2. attempt' \in Attempts /\ attempt' = [attempt EXCEPT !.sent = TRUE]
    BY AttemptTypes DEF Authenticate
<1>3. attempt'.resuming = attempt.resuming /\ attempt'.sent = TRUE /\ attempt'.ready = attempt.ready
      /\ attempt'.hello = attempt.hello /\ attempt'.phase = "starting"
    BY <1>1, <1>2 DEF Typed, Attempts
<1>4. UNCHANGED <<bound, last, wire, runs, lifetime, saving, state, session, loop, stored, cached, history>>
    BY DEF Authenticate, gateway
<1>5. bound = NoId /\ \A k : ~DataAt(wire, k)
    BY <1>1 DEF Line, Expected
<1>6. \A k : ~ReadyAt(wire, k) /\ ~ResumedAt(wire, k)
    BY <1>5 DEF ReadyAt, ResumedAt
<1>7. \/ /\ attempt.resuming
         /\ up' = [op |-> "resume", id |-> session.id, sequence |-> session.sequence]
      \/ attempt.resuming = FALSE /\ up' = [op |-> "identify"]
    BY DEF Authenticate, Typed, Attempts
<1>8. up' \in Commands /\ (up'.op = "resume" => up'.id = session.id /\ up'.sequence = session.sequence)
      /\ (up'.op = "resume" => attempt.resuming) /\ (up' = [op |-> "identify"] => ~attempt.resuming)
    <2>1. CASE /\ attempt.resuming
               /\ up' = [op |-> "resume", id |-> session.id, sequence |-> session.sequence]
        <3>1. session \in [id : Ids, sequence : 1..MaxSequence]
            BY <2>1 DEF Line, Typed, Snapshots, NoSession
        <3>2. up' \in Commands /\ up'.op = "resume" /\ up'.id = session.id /\ up'.sequence = session.sequence
            BY <2>1, <3>1 DEF Commands
        <3>3. up' # [op |-> "identify"]
            BY <3>2
        <3> QED BY <2>1, <3>2, <3>3
    <2>2. CASE attempt.resuming = FALSE /\ up' = [op |-> "identify"]
        BY <2>2 DEF Commands
    <2> QED BY <1>7, <2>1, <2>2
<1>9. attempt.ready = FALSE
    BY <1>1 DEF Line, Expected, Typed, Attempts
<1>10. Expected(wire', up', attempt', bound')
    <2>1. /\ attempt'.hello /\ attempt'.sent
          /\ ~attempt'.ready
          /\ up'.op = "resume" => attempt'.resuming
          /\ up' = [op |-> "identify"] => ~attempt'.resuming
        BY <1>1, <1>3, <1>8, <1>9
    <2>2. NoData(wire)
        BY <1>5 DEF NoData
    <2> QED BY <1>4, <1>5, <1>6, <2>1, <2>2 DEF Expected
<1>11. Carried(wire', session.id, session.sequence, bound', last')
    BY <1>4 DEF Line
<1>12. Memory(session, store, Late, wire', last', offered, closedAs)
    BY <1>4 DEF Books
<1>13. attempt'.phase \in {"starting", "running"}
    BY <1>3
<1>14. /\ bound' \in 0..MaxSessions /\ last' \in [Ids -> 0..MaxSequence]
       /\ wire' \in Seq(Data \cup Controls) /\ loop' = loop
       /\ attempt.phase = "idle" => attempt'.phase = "idle"
       /\ attempt'.phase = "starting" => attempt.phase \in {"connecting", "starting"}
    BY <1>1, <1>3, <1>4 DEF Typed
<1>15. UNCHANGED <<runs, lifetime, saving, state, session, stored, cached, history>>
    BY <1>4
<1> QED BY <1>2, <1>3, <1>8, <1>10, <1>11, <1>12, <1>13, <1>14, <1>15, TrafficStep


LEMMA SnapshotsAre ==
    ASSUME NEW x \in Snapshots
    PROVE  x.sequence \in Int /\ (x.id = NoId \/ x.id \in Ids)
<1>1. CASE x = NoSession
    BY <1>1 DEF NoSession
<1>2. CASE x \in [id : Ids, sequence : 1..MaxSequence]
    BY <1>2, CountsAssumption
<1> QED BY <1>1, <1>2 DEF Snapshots

LEMMA LateIs == Typed => Late \in Snapshots
BY DEF Typed, Late, Snapshots

LEMMA Identities ==
    ASSUME ShardInv
    PROVE  /\ session.id = NoId \/ session.id \in Ids
           /\ session.sequence \in Int /\ last \in [Ids -> Int] /\ Len(wire) \in Nat
           /\ store.id = NoId \/ store.id \in Ids
           /\ Late.id = NoId \/ Late.id \in Ids
           /\ \A k : DataAt(wire, k) => wire[k].id \in Ids
<1> USE DEF ShardInv
<1>1. session \in Snapshots /\ store \in Snapshots /\ Late \in Snapshots
    BY LateIs DEF Typed
<1>2. last \in [Ids -> Int]
    BY CountsAssumption DEF Typed
<1>3. Len(wire) \in Nat
    BY LenProperties DEF Typed
<1>4. \A k : DataAt(wire, k) => wire[k].id \in Ids
    BY DEF DataAt, Data
<1> QED BY <1>1, <1>2, <1>3, <1>4, SnapshotsAre

\* The gateway counts on: what was closed, remembered or handed out of a session stays behind it.
LEMMA MemoryGrows ==
    ASSUME ShardInv, NEW v, NEW ll \in [Ids -> Int], NEW b \in Ids, last[b] <= ll[b], last[b] > 0,
           \A j \in Ids \ {b} : ll[j] = last[j],
           \A k : ReadyAt(v, k) => ReadyAt(wire, k) /\ v[k] = wire[k]
    PROVE  Memory(session, store, Late, v, ll, offered, closedAs)
<1> USE DEF ShardInv
<1>1. \A i \in Ids : last[i] \in Int /\ last[i] <= ll[i] /\ (ll[i] = 0 => last[i] = 0)
    BY Identities
<1>2. Memory(session, store, Late, wire, last, offered, closedAs)
    BY DEF Books
<1>3. \A x \in {session, store, Late} : x.sequence \in Int /\ (x.id = NoId \/ x.id \in Ids) /\ Final(x, last, offered)
    <2>1. Late.sequence \in Int /\ (Late.id = NoId \/ Late.id \in Ids)
        BY SnapshotsAre, LateIs DEF Typed
    <2>2. \A x \in {session, store} : x.sequence \in Int /\ (x.id = NoId \/ x.id \in Ids)
        BY SnapshotsAre DEF Typed
    <2>3. \A x \in {session, store, Late} : Final(x, last, offered)
        BY <1>2 DEF Memory
    <2> QED BY <2>1, <2>2, <2>3
<1>4. \A x \in {session, store, Late} : Final(x, ll, offered)
    BY <1>1, <1>3 DEF Final
<1>5. \A k : ReadyAt(wire, k) => wire[k].id \in Ids
    BY Identities DEF ReadyAt
<1>6. \A k : ReadyAt(v, k) =>
        /\ ll[v[k].id] > 0 /\ closedAs[v[k].id] = "open" /\ offered[v[k].id] = <<>>
        /\ v[k].id \notin {session.id, store.id, Late.id}
    BY <1>1, <1>2, <1>5 DEF Memory
<1>7. \A i \in Ids : ll[i] = 0 => closedAs[i] = "open" /\ offered[i] = <<>>
    BY <1>1, <1>2 DEF Memory
<1> QED BY <1>2, <1>4, <1>6, <1>7 DEF Memory

\* A further dispatch of the bound session is sent, the next one or a repeated one.
LEMMA DispatchSent ==
    ASSUME ShardInv, NEW f \in Data, f.type = "dispatch", f.id = bound, bound # NoId,
           UNCHANGED <<bound, up, runs, lifetime, saving, state, session, loop, attempt, stored, cached, history>>,
           Send(<<f>>), last' \in [Ids -> 0..MaxSequence],
           \A j \in Ids \ {bound} : last'[j] = last[j],
           \/ f.sequence = last[bound] + 1 /\ last'[bound] = last[bound] + 1
           \/ f.again /\ f.sequence <= last[bound] /\ last'[bound] = last[bound]
    PROVE  ShardInv'
<1> USE DEF ShardInv
<1>1. bound \in Ids
    BY DEF Typed, Ids, NoId
<1>2. f \in Data /\ f.type = "dispatch" /\ f.id = bound
    OBVIOUS
<1>3. f \in Data \cup Controls /\ wire' = wire \o <<f>> /\ Len(wire) \in Nat
    BY <1>2, LenProperties DEF Send, Typed
<1>4. wire' \in Seq(Data \cup Controls) /\ Appends(wire', wire, f)
    BY <1>3, AppendsOne DEF Typed
<1>5. Carried(wire, session.id, session.sequence, bound, last)
    BY DEF Line
<1>6. last' \in [Ids -> Int]
    OBVIOUS
<1>7. Carried(wire', session.id, session.sequence, bound, last')
    <2>1. /\ session.sequence \in Int /\ last \in [Ids -> Int] /\ Len(wire) \in Nat
          /\ session.id = NoId \/ session.id \in Ids
        BY Identities
    <2>2. /\ \A j \in Ids \ {bound} : last'[j] = last[j]
          /\ \/ f.sequence = last[bound] + 1 /\ last'[bound] = last[bound] + 1
             \/ f.again /\ f.sequence <= last[bound] /\ last'[bound] = last[bound]
        BY <1>2
    <2> QED BY <1>1, <1>2, <1>4, <1>5, <1>6, <2>1, <2>2, DispatchAppended
<1>8. attempt.phase \in {"starting", "running"}
    BY DEF Line, Reachable
<1> DEFINE m == Len(wire) + 1
<1>9. m \in Nat /\ wire'[m] = f /\ \A k : DataAt(wire', k) <=> DataAt(wire, k) \/ k = m
    <2>1. \A k : DataAt(wire', k) <=> DataAt(wire, k) \/ (k = m /\ f \in Data)
        BY <1>3, <1>4, DataOfAppended
    <2>2. m \in Nat /\ wire'[m] = f
        BY <1>3, <1>4 DEF Appends
    <2> QED BY <1>2, <2>1, <2>2
<1>10. \A k : DataAt(wire, k) => k \in Nat /\ k # m /\ wire'[k] = wire[k]
    BY <1>3, <1>4 DEF Appends, DataAt
<1> HIDE DEF m
<1>11. \A k : (ReadyAt(wire', k) <=> ReadyAt(wire, k)) /\ (ResumedAt(wire', k) <=> ResumedAt(wire, k))
    BY <1>2, <1>9, <1>10 DEF ReadyAt, ResumedAt
<1>12. Expected(wire', up, attempt, bound)
    BY <1>9, <1>11 DEF Line, Expected
<1>13. last[bound] > 0 /\ last[bound] <= last'[bound]
    <2>1. last[bound] \in Int /\ last[bound] \in 0..MaxSequence
        BY <1>1, Identities DEF Typed
    <2>2. CASE \E k : DataAt(wire, k) /\ wire[k].sequence = last[bound]
        BY <2>2, <2>1 DEF DataAt, Data
    <2>3. CASE NoReady(wire) /\ session.sequence = last[bound]
        <3>1. session.id = bound
            BY <2>3, <1>5 DEF Carried, BoundTo
        <3>2. session.sequence \in 1..MaxSequence
            BY <3>1 DEF Typed, Snapshots, NoSession
        <3> QED BY <2>3, <3>2, <2>1
    <2> QED BY <2>1, <2>2, <2>3, <1>5 DEF Carried, LastSent
<1>14. \A k : ReadyAt(wire', k) => ReadyAt(wire, k) /\ wire'[k] = wire[k]
    BY <1>10, <1>11 DEF ReadyAt
<1>15. Memory(session, store, Late, wire', last', offered, closedAs)
    BY <1>1, <1>6, <1>13, <1>14, MemoryGrows
<1>16. Carried(wire', session.id, session.sequence, bound', last') /\ Expected(wire', up', attempt', bound')
    BY <1>7, <1>12
<1>17. up'.op = "resume" => up'.id = session.id /\ up'.sequence = session.sequence
    BY DEF Line
<1> QED BY <1>4, <1>8, <1>15, <1>16, <1>17, TrafficStep DEF Typed

LEMMA DispatchStep == ASSUME ShardInv, Dispatch PROVE ShardInv'
<1> USE DEF ShardInv
<1>1. bound \in Ids /\ last[bound] \in 0..MaxSequence /\ last[bound] < MaxSequence /\ MaxSequence \in Nat
    BY CountsAssumption DEF Dispatch, Typed, Ids, NoId
<1>2. last' \in [Ids -> 0..MaxSequence] /\ last'[bound] = last[bound] + 1 /\ \A j \in Ids \ {bound} : last'[j] = last[j]
    BY <1>1 DEF Dispatch, Typed
<1>3. last[bound] + 1 \in 1..MaxSequence
    BY <1>1
<1>4. PICK f \in Data : /\ f = Frame("dispatch", bound, last[bound] + 1)
                        /\ f.type = "dispatch" /\ f.id = bound /\ f.sequence = last[bound] + 1
    BY <1>1, <1>3, FrameKinds
<1>5. Send(<<f>>) /\ bound # NoId
    BY <1>4 DEF Dispatch
<1> QED BY <1>2, <1>4, <1>5, DispatchSent DEF Dispatch, client

LEMMA RepeatStep == ASSUME ShardInv, Repeat PROVE ShardInv'
<1> USE DEF ShardInv
<1>1. bound \in Ids /\ last[bound] \in 0..MaxSequence /\ MaxSequence \in Nat
    BY CountsAssumption DEF Repeat, Typed, Ids, NoId
<1>2. last' = last /\ last' \in [Ids -> 0..MaxSequence] /\ bound' = bound
    BY DEF Repeat, Typed, gateway
<1>3. PICK n \in 1..last[bound] : Send(<<Again("dispatch", bound, n)>>)
    BY DEF Repeat
<1>4. n \in 1..MaxSequence /\ n <= last[bound]
    BY <1>1
<1>5. PICK f \in Data : /\ f = Again("dispatch", bound, n)
                        /\ f.type = "dispatch" /\ f.id = bound /\ f.sequence = n /\ f.again
    BY <1>1, <1>4, FrameKinds
<1>6. Send(<<f>>) /\ bound # NoId
    BY <1>3, <1>5 DEF Repeat
<1> QED BY <1>2, <1>4, <1>5, <1>6, DispatchSent DEF Repeat, client


LEMMA AnswerIdentifyStep == ASSUME ShardInv, NEW i \in Ids, AnswerIdentify(i) PROVE ShardInv'
<1> USE DEF ShardInv
<1>1. last[i] = 0 /\ up.op = "identify" /\ attempt.phase \in {"starting", "running"} /\ MaxSequence \in Nat \ {0}
    BY CountsAssumption DEF AnswerIdentify, Reachable
<1>2. PICK f \in Data : f = Frame("ready", i, 1) /\ f.type = "ready" /\ f.id = i /\ f.sequence = 1
    BY <1>1, FrameKinds
<1>3. f \in Data \cup Controls /\ wire' = wire \o <<f>> /\ Len(wire) \in Nat
    BY <1>2, LenProperties DEF AnswerIdentify, Send, Typed
<1>4. wire' \in Seq(Data \cup Controls) /\ Appends(wire', wire, f)
    BY <1>3, AppendsOne DEF Typed
<1>5. last' \in [Ids -> 0..MaxSequence] /\ last'[i] = 1 /\ (\A j \in Ids \ {i} : last'[j] = last[j])
      /\ bound' = i /\ bound' \in 0..MaxSessions /\ up' = NoCommand
    BY <1>1, CountsAssumption DEF AnswerIdentify, Typed, Ids
<1>6. up = [op |-> "identify"] /\ up # NoCommand
    BY <1>1 DEF Typed, Commands, NoCommand
<1>7. NoData(wire) /\ bound = NoId /\ attempt.sent /\ attempt.hello /\ ~attempt.resuming /\ ~attempt.ready
    BY <1>6 DEF Line, Expected
<1>8. Memory(session, store, Late, wire, last, offered, closedAs) /\ last \in [Ids -> Int]
    BY Identities DEF Books
<1>9. \A x \in {session, store, Late} : x.id # i /\ (x.id = NoId \/ x.id \in Ids) /\ Final(x, last, offered)
    <2>1. \A x \in {session, store, Late} : (x.id = NoId \/ x.id \in Ids) /\ Final(x, last, offered)
        BY <1>8, Identities DEF Memory
    <2>2. i # NoId
        BY DEF Ids, NoId
    <2> QED BY <1>1, <2>1, <2>2 DEF Final
<1>10. last' \in [Ids -> Int]
    BY <1>5
<1>11. Carried(wire', session.id, session.sequence, i, last')
    <2>1. Carried(wire, session.id, session.sequence, bound, last)
        BY DEF Line
    <2>2. session.id = NoId \/ session.id \in Ids \ {i}
        BY <1>9
    <2> QED BY <1>2, <1>3, <1>4, <1>5, <1>7, <1>10, <2>1, <2>2, Identities, ReadyAppended
<1> DEFINE m == Len(wire) + 1
<1>12. m \in Nat /\ wire'[m] = f /\ \A k : DataAt(wire', k) <=> k = m
    <2>1. \A k : DataAt(wire', k) <=> DataAt(wire, k) \/ (k = m /\ f \in Data)
        BY <1>3, <1>4, DataOfAppended
    <2>2. m \in Nat /\ wire'[m] = f
        BY <1>3, <1>4 DEF Appends
    <2> QED BY <1>2, <1>7, <2>1, <2>2 DEF NoData
<1> HIDE DEF m
<1>13. ReadyAt(wire', m) /\ (\A k : ReadyAt(wire', k) => k = m) /\ \A k : ~ResumedAt(wire', k)
    BY <1>2, <1>12 DEF ReadyAt, ResumedAt
<1>14. Expected(wire', NoCommand, attempt, i)
    BY <1>7, <1>13 DEF Expected, NoCommand
<1>15. Memory(session, store, Late, wire', last', offered, closedAs)
    <2>1. \A x \in {session, store, Late} : Final(x, last', offered)
        BY <1>5, <1>9 DEF Final
    <2>2. \A k : ReadyAt(wire', k) => wire'[k].id = i
        BY <1>2, <1>12, <1>13
    <2>3. closedAs[i] = "open" /\ offered[i] = <<>>
        BY <1>1, <1>8 DEF Memory
    <2>4. \A j \in Ids : last'[j] = 0 => closedAs[j] = "open" /\ offered[j] = <<>>
        BY <1>5, <1>8 DEF Memory
    <2>5. i \notin {session.id, store.id, Late.id}
        BY <1>9
    <2> QED BY <1>5, <1>8, <2>1, <2>2, <2>3, <2>4, <2>5 DEF Memory
<1>16. UNCHANGED <<runs, lifetime, saving, state, session, loop, attempt, stored, cached, history>>
    BY DEF AnswerIdentify, client
<1>17. Carried(wire', session.id, session.sequence, bound', last') /\ Expected(wire', up', attempt', bound')
    BY <1>5, <1>11, <1>14, <1>16
<1>18. up'.op # "resume" /\ up' \in Commands
    BY <1>5 DEF NoCommand, Commands
<1>19. /\ attempt' \in Attempts /\ attempt' = attempt /\ attempt'.phase \in {"starting", "running"}
       /\ attempt.phase = "idle" => attempt'.phase = "idle"
       /\ attempt'.phase = "starting" => attempt.phase \in {"connecting", "starting"}
       /\ attempt'.resuming = attempt.resuming /\ loop' = loop
    BY <1>1, <1>16 DEF Typed
<1> QED BY <1>4, <1>5, <1>15, <1>16, <1>17, <1>18, <1>19, TrafficStep

\* The frames that answer a Resume at sequence n of session i, whose last dispatch is l, with RESUMED f
Missed(i, n, r) == [k \in 1..r |-> Frame("dispatch", i, n + k)]
Answer(i, n, l, f) == Missed(i, n, l - n) \o <<f>>
\* RESUMED under a number of its own, or under the last one again
Confirms(f, i, l) ==
    f.type = "resumed" /\ f.id = i /\ (f.sequence = l + 1 \/ (f.again /\ f.sequence = l))

LEMMA Replays ==
    ASSUME NEW r \in Nat, NEW i \in Ids, NEW n \in Nat, n + r <= MaxSequence
    PROVE  /\ Missed(i, n, r) \in Seq(Data) /\ Len(Missed(i, n, r)) = r
           /\ \A k \in 1..r : /\ Missed(i, n, r)[k] \in Data /\ Missed(i, n, r)[k].type = "dispatch"
                              /\ Missed(i, n, r)[k].id = i /\ Missed(i, n, r)[k].sequence = n + k
<1> DEFINE replay == Missed(i, n, r)
<1>1. ASSUME NEW k \in 1..r
      PROVE  replay[k] \in Data /\ replay[k].type = "dispatch" /\ replay[k].id = i /\ replay[k].sequence = n + k
    <2>1. n + k \in 1..MaxSequence
        BY CountsAssumption
    <2>2. replay[k] = Frame("dispatch", i, n + k)
        BY DEF Missed
    <2> HIDE DEF replay
    <2> QED BY <2>1, <2>2, FrameKinds
<1>2. DOMAIN replay = 1..r /\ replay = [k \in 1..r |-> replay[k]]
    BY DEF Missed
<1> HIDE DEF replay
<1>3. replay \in [1..r -> Data]
    BY <1>1, <1>2
<1>4. replay \in Seq(Data) /\ Len(replay) = r
    BY <1>2, <1>3
<1> QED BY <1>1, <1>4 DEF replay

LEMMA Concats ==
    ASSUME NEW S, NEW w \in Seq(S), NEW u \in Seq(S)
    PROVE  /\ w \o u \in Seq(S) /\ Len(w \o u) = Len(w) + Len(u) /\ Len(w) \in Nat /\ Len(u) \in Nat
           /\ \A k \in 1..Len(w) : (w \o u)[k] = w[k]
           /\ \A k \in 1..Len(u) : (w \o u)[Len(w) + k] = u[k]
<1>1. Len(w) \in Nat /\ Len(u) \in Nat
    BY LenProperties
<1>2. \A k \in 1..(Len(w) + Len(u)) : (w \o u)[k] = IF k <= Len(w) THEN w[k] ELSE u[k - Len(w)]
    BY ConcatProperties
<1>3. ASSUME NEW k \in 1..Len(u)
      PROVE  (w \o u)[Len(w) + k] = u[k]
    <2>1. Len(w) + k \in 1..(Len(w) + Len(u)) /\ ~(Len(w) + k <= Len(w)) /\ (Len(w) + k) - Len(w) = k
        BY <1>1
    <2> QED BY <1>2, <2>1
<1>4. \A k \in 1..Len(w) : (w \o u)[k] = w[k]
    BY <1>1, <1>2
<1> QED BY <1>1, <1>3, <1>4, ConcatProperties

LEMMA Answers ==
    ASSUME NEW i \in Ids, NEW n \in 1..MaxSequence, NEW l \in n..MaxSequence, NEW f \in Data, Confirms(f, i, l)
    PROVE  /\ Answer(i, n, l, f) \in Seq(Data) /\ Len(Answer(i, n, l, f)) = (l - n) + 1 /\ l - n \in Nat
           /\ Answer(i, n, l, f)[l - n + 1] = f
           /\ \A k \in 1..(l - n + 1) :
                /\ Answer(i, n, l, f)[k] \in Data
                /\ Answer(i, n, l, f)[k].type = IF k = l - n + 1 THEN "resumed" ELSE "dispatch"
                /\ Answer(i, n, l, f)[k].id = i
                /\ Answer(i, n, l, f)[k].sequence = IF k = l - n + 1 THEN f.sequence ELSE n + k
<1> DEFINE r == l - n
           replay == Missed(i, n, r)
           a == Answer(i, n, l, f)
<1>1. MaxSequence \in Nat /\ n \in Nat /\ l \in Nat /\ r \in Nat /\ n + r <= MaxSequence /\ n + r = l
    BY CountsAssumption
<1>2. f.type = "resumed" /\ f.id = i
    BY DEF Confirms
<1>3. a = replay \o <<f>>
    BY DEF Answer
<1> HIDE DEF a
<1> HIDE DEF r
<1>9. i \in Ids
    OBVIOUS
<1>4. /\ replay \in Seq(Data) /\ Len(replay) = r
      /\ \A k \in 1..r : /\ replay[k] \in Data /\ replay[k].type = "dispatch"
                         /\ replay[k].id = i /\ replay[k].sequence = n + k
    <2>1. r \in Nat /\ n \in Nat /\ n + r <= MaxSequence
        BY <1>1
    <2> QED BY ONLY <2>1, <1>9, Replays
<1> HIDE DEF replay
<1>5. <<f>> \in Seq(Data) /\ Len(<<f>>) = 1 /\ <<f>>[1] = f
    OBVIOUS
<1>6. /\ replay \o <<f>> \in Seq(Data) /\ Len(replay \o <<f>>) = r + 1
      /\ \A k \in 1..r : (replay \o <<f>>)[k] = replay[k]
      /\ (replay \o <<f>>)[r + 1] = f
    BY <1>1, <1>4, <1>5, Concats
<1>7. ASSUME NEW k \in 1..(r + 1)
      PROVE  /\ a[k] \in Data /\ a[k].type = IF k = r + 1 THEN "resumed" ELSE "dispatch"
             /\ a[k].id = i /\ a[k].sequence = IF k = r + 1 THEN f.sequence ELSE n + k
    <2>1. CASE k = r + 1
        <3>1. a[k] = f
            BY <2>1, <1>1, <1>3, <1>6
        <3> QED BY <2>1, <3>1, <1>2
    <2>2. CASE k \in 1..r
        <3>1. a[k] = replay[k] /\ k # r + 1
            BY <2>2, <1>1, <1>3, <1>6
        <3> QED BY <2>2, <3>1, <1>4
    <2> QED BY <2>1, <2>2, <1>1
<1>8. a \in Seq(Data) /\ Len(a) = r + 1 /\ r \in Nat /\ a[r + 1] = f
    BY <1>1, <1>3, <1>6
<1> QED BY <1>7, <1>8 DEF r, a

\* The gateway resumes the session i of the client, at sequence n, with r dispatches it missed.
ResumedWith(i, n, r, z) ==
    /\ session.id = i /\ session.sequence = n /\ bound' = i
    /\ closedAs' = [closedAs EXCEPT ![i] = "open"]
    /\ last' \in [Ids -> 0..MaxSequence] /\ last[i] = n + r /\ last'[i] = z
    /\ \A j \in Ids \ {i} : last'[j] = last[j]
    /\ wire' \in Seq(Data \cup Controls) /\ Confirmed(wire', wire, i, n, r, z)

LEMMA ResumeAnswered ==
    ASSUME ShardInv, up.op = "resume", attempt.phase \in {"starting", "running"}, up' = NoCommand,
           UNCHANGED <<runs, lifetime, saving, state, session, loop, attempt, stored, cached, offered>>,
           NEW i \in Ids, NEW n \in 1..MaxSequence, NEW r \in Nat, NEW z \in Int, ResumedWith(i, n, r, z)
    PROVE  ShardInv'
<1> USE DEF ShardInv, ResumedWith
<1>1. NoData(wire) /\ bound = NoId /\ attempt.sent /\ attempt.hello
      /\ attempt.resuming /\ ~attempt.ready
    BY DEF Line, Expected, NoCommand
<1>2. Len(wire) \in Nat /\ n \in Nat
    BY LenProperties DEF Typed
<1>3. Carried(wire', i, n, i, last')
    <2>1. last \in [Ids -> Int] /\ last' \in [Ids -> Int]
        BY Identities
    <2>2. n \in Int /\ last'[i] = z /\ Confirmed(wire', wire, i, n, r, z)
        BY <1>2
    <2> HIDE DEF ShardInv, ResumedWith
    <2> QED BY <1>1, <1>2, <2>1, <2>2, ReplayAppended
<1> DEFINE m == Len(wire)
<1>4. \A k : DataAt(wire', k) => k \in Int /\ k - m \in 1..(r + 1) /\ wire'[k].type = IF k = m + r + 1 THEN "resumed" ELSE "dispatch"
    <2> SUFFICES ASSUME NEW k, DataAt(wire', k)
                 PROVE  k \in Int /\ k - m \in 1..(r + 1) /\ wire'[k].type = IF k = m + r + 1 THEN "resumed" ELSE "dispatch"
        OBVIOUS
    <2>1. k \in 1..(m + r + 1) /\ m \in Nat
        BY <1>2 DEF DataAt, Confirmed
    <2>2. k \notin 1..m
        BY <1>1 DEF DataAt, NoData, Confirmed
    <2>3. k - m \in 1..(r + 1) /\ m + (k - m) = k /\ (k - m = r + 1 <=> k = m + r + 1)
        BY <2>1, <2>2
    <2>4. wire'[m + (k - m)].type = IF k - m = r + 1 THEN "resumed" ELSE "dispatch"
        BY <2>3 DEF Confirmed
    <2> QED BY <2>1, <2>3, <2>4
<1> HIDE DEF m
<1>5. /\ \A k : ~ReadyAt(wire', k)
      /\ \A k : ResumedAt(wire', k) => k = m + r + 1
    BY <1>4 DEF ReadyAt, ResumedAt
<1>6. Expected(wire', NoCommand, attempt, i)
    BY <1>1, <1>5 DEF Expected, NoCommand
<1>7. Memory(session, store, Late, wire', last', offered, closedAs)
    <2>1. last' \in [Ids -> Int] /\ last[i] <= last'[i] /\ last[i] > 0
        BY <1>2 DEF Confirmed
    <2> QED BY <2>1, <1>5, MemoryGrows
<1>11. closedAs' \in [Ids -> Codes] /\ closedAs'[i] = "open" /\ \A j \in Ids \ {i} : closedAs'[j] = closedAs[j]
    BY DEF Typed, Codes
<1>12. Memory(session, store, Late, wire', last', offered, closedAs')
    <2>1. i # NoId /\ (store.id = NoId \/ store.id \in Ids) /\ (Late.id = NoId \/ Late.id \in Ids)
        BY Identities DEF Ids, NoId
    <2>2. i # store.id /\ i # Late.id
        BY <1>7, <2>1 DEF Memory, Apart
    <2> QED BY <1>5, <1>7, <1>11, <2>1, <2>2 DEF Memory
<1>13. Usable(session, closedAs', attempt', lifetime, saving)
    BY <1>11 DEF Usable, Alive
<1>8. /\ Carried(wire', session.id, session.sequence, bound', last')
      /\ Expected(wire', up', attempt', bound')
    BY <1>3, <1>6
<1>9. bound' \in 0..MaxSessions /\ up' \in Commands /\ up'.op # "resume"
    BY DEF Ids, Commands, NoCommand
<1>10. /\ attempt' \in Attempts /\ attempt' = attempt /\ attempt'.phase \in {"starting", "running"}
       /\ attempt.phase = "idle" => attempt'.phase = "idle"
       /\ attempt'.phase = "starting" => attempt.phase \in {"connecting", "starting"}
       /\ attempt'.resuming = attempt.resuming /\ loop' = loop
    BY DEF Typed
<1> QED BY <1>8, <1>9, <1>10, <1>11, <1>12, <1>13, SocketStep

\* The frames a replay the r dispatches of session i that follow sequence n and confirm the Resume
\* under number z.
IsReplay(a, i, n, r, z) ==
    /\ a \in Seq(Data \cup Controls) /\ Len(a) = r + 1
    /\ \A k \in 1..(r + 1) : /\ a[k] \in Data /\ a[k].type = IF k = r + 1 THEN "resumed" ELSE "dispatch"
                             /\ a[k].id = i /\ a[k].sequence = IF k = r + 1 THEN z ELSE n + k
    /\ z = n + r + 1 \/ (z = n + r /\ a[r + 1].again)

LEMMA AnswerReplays ==
    ASSUME NEW i \in Ids, NEW n \in Nat, NEW l \in Nat, 1 <= n, n <= l, l <= MaxSequence,
           NEW f \in Data, Confirms(f, i, l)
    PROVE  l - n \in Nat /\ IsReplay(Answer(i, n, l, f), i, n, l - n, f.sequence)
<1>1. n \in 1..MaxSequence /\ l \in n..MaxSequence
    BY CountsAssumption
<1> DEFINE r == l - n
           a == Answer(i, n, l, f)
<1>2. r \in Nat /\ a \in Seq(Data) /\ Len(a) = r + 1 /\ a[r + 1] = f
      /\ \A k \in 1..(r + 1) : /\ a[k] \in Data /\ a[k].type = IF k = r + 1 THEN "resumed" ELSE "dispatch"
                               /\ a[k].id = i /\ a[k].sequence = IF k = r + 1 THEN f.sequence ELSE n + k
    BY <1>1, Answers
<1>3. a \in Seq(Data \cup Controls)
    BY <1>2, SeqMonotonic
<1>4. f.sequence = n + r + 1 \/ (f.again /\ f.sequence = n + r)
    BY <1>1 DEF Confirms
<1> HIDE DEF r, a
<1>5. r \in Nat /\ IsReplay(a, i, n, r, f.sequence)
    BY <1>2, <1>3, <1>4 DEF IsReplay
<1> QED BY <1>5 DEF r, a

\* What a Resume the gateway accepts adds to the wire
Answered(f) ==
    /\ f = Frame("resumed", up.id, last[up.id] + 1) \/ f = Again("resumed", up.id, last[up.id])
    /\ f.sequence <= MaxSequence
    /\ bound' = up.id /\ last' = [last EXCEPT ![up.id] = f.sequence]
    /\ closedAs' = [closedAs EXCEPT ![up.id] = "open"]
    /\ Send(Replay(up) \o <<f>>)

LEMMA AnswersAre ==
    ASSUME ShardInv, AnswerResume
    PROVE  (\E f : Answered(f)) \/ (Send(<<Control("invalid")>>) /\ UNCHANGED <<bound, last, closedAs>>)
<1> DEFINE f == Frame("resumed", up.id, last[up.id] + 1)
           g == Again("resumed", up.id, last[up.id])
<1>1. up.id \in Ids /\ last[up.id] \in 0..MaxSequence /\ last \in [Ids -> 0..MaxSequence] /\ MaxSequence \in Nat
    BY CountsAssumption DEF AnswerResume, ShardInv, Typed, Commands, NoCommand
<1>2. f.sequence = last[up.id] + 1 /\ g.sequence = last[up.id]
    BY DEF Frame, Again
<1>3. last = [last EXCEPT ![up.id] = last[up.id]]
    BY <1>1
<1> HIDE DEF f, g
<1>4. ASSUME last[up.id] < MaxSequence, bound' = up.id, last' = [last EXCEPT ![up.id] = last[up.id] + 1],
             closedAs' = [closedAs EXCEPT ![up.id] = "open"], Send(Replay(up) \o <<f>>)
      PROVE  Answered(f)
    <2>1. f.sequence <= MaxSequence /\ last' = [last EXCEPT ![up.id] = f.sequence]
        BY <1>1, <1>2, <1>4
    <2> QED BY <2>1, <1>4 DEF Answered, f
<1>5. ASSUME bound' = up.id, last' = last,
             closedAs' = [closedAs EXCEPT ![up.id] = "open"], Send(Replay(up) \o <<g>>)
      PROVE  Answered(g)
    <2>1. g.sequence <= MaxSequence /\ last' = [last EXCEPT ![up.id] = g.sequence]
        BY <1>1, <1>2, <1>3, <1>5
    <2> QED BY <2>1, <1>5 DEF Answered, g
<1> QED BY <1>4, <1>5 DEF AnswerResume, f, g

LEMMA AnsweredWire ==
    ASSUME ShardInv, up.op = "resume", NEW f, Answered(f)
    PROVE  \E i \in Ids, n \in 1..MaxSequence, r \in Nat, z \in Int : ResumedWith(i, n, r, z)
<1> USE DEF ShardInv, Answered
<1>1. up.id = session.id /\ up.sequence = session.sequence /\ attempt.resuming
    BY DEF Line, Expected
<1>2. PICK i \in Ids, n \in 1..MaxSequence : i = session.id /\ n = session.sequence
    <2>1. session.id # NoId
        BY <1>1 DEF Line
    <2> QED BY <2>1 DEF Typed, Snapshots, NoSession
<1>3. wire' = wire \o Answer(i, n, last[i], f) /\ bound' = i /\ last' = [last EXCEPT ![i] = f.sequence]
      /\ closedAs' = [closedAs EXCEPT ![i] = "open"]
    BY <1>1, <1>2 DEF Send, Answer, Missed, Replay
<1>4. PICK l \in n..MaxSequence : l = last[i]
    <2>1. n <= last[i]
        BY <1>2 DEF Line, Carried, Ids, NoId
    <2>2. last[i] \in Nat /\ last[i] <= MaxSequence
        BY <1>1, <1>2, CountsAssumption DEF Typed
    <2> QED BY <2>1, <2>2, CountsAssumption
<1>13. PICK z \in 1..MaxSequence : z = f.sequence /\ f \in Data /\ Confirms(f, i, l)
    <2>1. MaxSequence \in Nat /\ l \in 1..MaxSequence
        BY CountsAssumption
    <2>2. CASE f = Again("resumed", up.id, last[up.id])
        BY <1>1, <1>2, <1>4, <2>1, <2>2, FrameKinds DEF Confirms
    <2>3. CASE f = Frame("resumed", up.id, last[up.id] + 1)
        <3>1. f.sequence = l + 1
            BY <1>1, <1>2, <1>4, <2>3 DEF Frame
        <3>2. l + 1 \in 1..MaxSequence
            BY <2>1, <3>1
        <3> QED BY <1>1, <1>2, <1>4, <2>3, <3>2, FrameKinds DEF Confirms
    <2> QED BY <2>2, <2>3
<1> HIDE DEF Answered
<1>5. PICK r \in Nat : r = l - n /\ IsReplay(Answer(i, n, l, f), i, n, r, z)
    <2>1. n \in Nat /\ l \in Nat /\ 1 <= n /\ n <= l /\ l <= MaxSequence
        BY CountsAssumption
    <2> HIDE DEF ShardInv
    <2> QED BY <1>13, <2>1, AnswerReplays
<1>6. /\ last' \in [Ids -> 0..MaxSequence] /\ last'[i] = z /\ last[i] = n + r
      /\ \A j \in Ids \ {i} : last'[j] = last[j]
    <2>1. last \in [Ids -> 0..MaxSequence] /\ i \in Ids
        BY <1>1 DEF Typed
    <2>2. z \in 0..MaxSequence /\ l \in Nat /\ n \in Nat
        BY <1>4, CountsAssumption
    <2>3. last'[i] = z /\ last' \in [Ids -> 0..MaxSequence] /\ \A j \in Ids \ {i} : last'[j] = last[j]
        BY <1>3, <1>13, <2>1, <2>2
    <2>4. last[i] = n + r
        BY <1>4, <1>5, <2>2
    <2> QED BY <2>3, <2>4
<1>7. PICK a : wire' = wire \o a /\ IsReplay(a, i, n, r, z)
    BY <1>3, <1>4, <1>5
<1>8. /\ wire \o a \in Seq(Data \cup Controls) /\ Len(wire \o a) = Len(wire) + Len(a) /\ Len(wire) \in Nat
      /\ \A k \in 1..Len(wire) : (wire \o a)[k] = wire[k]
      /\ \A k \in 1..Len(a) : (wire \o a)[Len(wire) + k] = a[k]
    <2>1. wire \in Seq(Data \cup Controls)
        BY DEF Typed
    <2>2. a \in Seq(Data \cup Controls)
        BY <1>7 DEF IsReplay
    <2> QED BY <2>1, <2>2, Concats
<1>9. /\ wire' \in Seq(Data \cup Controls) /\ Len(wire') = Len(wire) + r + 1
      /\ \A k \in 1..Len(wire) : wire'[k] = wire[k]
      /\ \A k \in 1..(r + 1) : wire'[Len(wire) + k] = a[k]
    BY <1>7, <1>8 DEF IsReplay
<1>10. \A k \in 1..(r + 1) :
         /\ wire'[Len(wire) + k] \in Data
         /\ wire'[Len(wire) + k].type = IF k = r + 1 THEN "resumed" ELSE "dispatch"
         /\ wire'[Len(wire) + k].id = i
         /\ wire'[Len(wire) + k].sequence = IF k = r + 1 THEN z ELSE n + k
    <2> SUFFICES ASSUME NEW k \in 1..(r + 1)
                 PROVE  wire'[Len(wire) + k] = a[k]
        BY <1>7 DEF IsReplay
    <2> QED BY <1>9
<1>11. session.id = i /\ session.sequence = n /\ bound' = i /\ z \in Int
       /\ closedAs' = [closedAs EXCEPT ![i] = "open"]
    BY <1>2, <1>3
<1>12. z = n + r + 1 \/ (z = n + r /\ wire'[Len(wire) + r + 1].again)
    <2>1. r + 1 \in 1..(r + 1) /\ Len(wire) + (r + 1) = Len(wire) + r + 1
        BY <1>8
    <2>2. wire'[Len(wire) + r + 1] = a[r + 1]
        BY <1>9, <2>1
    <2> QED BY <1>7, <2>2 DEF IsReplay
<1> HIDE DEF ShardInv
<1>14. Confirmed(wire', wire, i, n, r, z)
    BY <1>9, <1>10, <1>12 DEF Confirmed
<1>15. ResumedWith(i, n, r, z)
    BY <1>6, <1>9, <1>11, <1>14 DEF ResumedWith
<1> QED BY <1>11, <1>15

LEMMA AnswerResumeStep == ASSUME ShardInv, AnswerResume PROVE ShardInv'
<1> USE DEF ShardInv
<1>1. up.op = "resume" /\ attempt.phase \in {"starting", "running"} /\ up' = NoCommand
      /\ UNCHANGED <<runs, lifetime, saving, state, session, loop, attempt, stored, cached, offered>>
    BY DEF AnswerResume, Reachable, client
<1>2. CASE \E f : Answered(f)
    <2>1. PICK f : Answered(f)
        BY <1>2
    <2> HIDE DEF ShardInv
    <2>2. PICK i \in Ids, n \in 1..MaxSequence, r \in Nat, z \in Int : ResumedWith(i, n, r, z)
        BY <1>1, <2>1, AnsweredWire
    <2> QED BY <1>1, <2>2, ResumeAnswered
<1>3. CASE Send(<<Control("invalid")>>) /\ UNCHANGED <<bound, last, closedAs>>
    <2>1. Control("invalid") \in Data \cup Controls /\ Control("invalid") \notin Data /\ Len(wire) \in Nat
        BY FrameKinds, LenProperties DEF Typed, Disturbances
    <2>2. wire' \in Seq(Data \cup Controls) /\ Appends(wire', wire, Control("invalid"))
        BY <1>3, <2>1, AppendsOne DEF Send, Typed
    <2>3. /\ Carried(wire', session.id, session.sequence, bound, last)
          /\ Expected(wire', NoCommand, attempt, bound)
          /\ Memory(session, store, Late, wire', last, offered, closedAs)
        BY <2>1, <2>2, ControlAppended, ControlExpected, ControlMemory DEF Line, Books
    <2>4. /\ Carried(wire', session.id, session.sequence, bound', last')
          /\ Expected(wire', up', attempt', bound')
          /\ Memory(session, store, Late, wire', last', offered, closedAs)
        BY <1>1, <1>3, <2>3
    <2>5. bound' \in 0..MaxSessions /\ last' \in [Ids -> 0..MaxSequence] /\ up' \in Commands /\ up'.op # "resume"
        BY <1>1, <1>3 DEF Typed, Commands, NoCommand
    <2>6. /\ attempt' \in Attempts /\ attempt' = attempt /\ attempt'.phase \in {"starting", "running"}
          /\ attempt.phase = "idle" => attempt'.phase = "idle"
          /\ attempt'.phase = "starting" => attempt.phase \in {"connecting", "starting"}
          /\ attempt'.resuming = attempt.resuming /\ loop' = loop
        BY <1>1 DEF Typed
    <2>7. UNCHANGED history
        BY <1>1, <1>3 DEF history
    <2> QED BY <1>1, <2>2, <2>4, <2>5, <2>6, <2>7, TrafficStep
<1> QED BY <1>2, <1>3, AnswersAre


-----------------------------------------------------------------------------
(* The client reads a frame *)

LEMMA ReadStep ==
    ASSUME ShardInv, attempt.phase \in {"starting", "running"},
           UNCHANGED <<bound, last, up, runs, lifetime, saving, loop, stored, closedAs>>,
           wire' \in Seq(Data \cup Controls), attempt' \in Attempts, attempt'.phase = attempt.phase,
           attempt'.resuming = attempt.resuming, state' \in States, session' \in Snapshots,
           cached' \subseteq Ids \X (1..MaxSequence), offered' \in [Ids -> Seq(Handouts)],
           Carried(wire', session'.id, session'.sequence, bound, last),
           Expected(wire', up, attempt', bound),
           up.op = "resume" => session' = session, session.id # NoId => session'.id # NoId,
           Memory(session', store, Late, wire', last, offered', closedAs),
           session'.id # NoId => closedAs[session'.id] \in Alive,
           \A i \in Ids : InOrder(offered'[i])
    PROVE  ShardInv'
<1> USE DEF ShardInv
<1>1. Typed'
    BY DEF Typed, stored
<1>2. Counted'
    BY DEF Counted
<1>3. Usable(session', closedAs', attempt', lifetime', saving')
    BY DEF Usable, Alive
<1>4. Books'
    <2>1. Late' = Late /\ store' = store
        BY DEF stored, Late
    <2>2. Memory(session', store', Late', wire', last', offered', closedAs')
        BY <2>1
    <2> QED BY <1>3, <2>2 DEF Books
<1>5. OfferedInOrder'
    BY DEF OfferedInOrder, InOrder, Precedes
<1>6. Line'
    <2>1. Carried(wire', session'.id, session'.sequence, bound', last') /\ Expected(wire', up', attempt', bound')
        OBVIOUS
    <2> QED BY <2>1 DEF Line, Reachable
<1> QED BY <1>1, <1>2, <1>4, <1>5, <1>6

\* A control frame is read: what is carried and expected stays.
LEMMA ControlRead ==
    ASSUME NEW w, NEW v, NEW a, NEW u, NEW b, Len(w) \in Nat \ {0}, Drops(v, w), w[1] \notin Data,
           Expected(w, u, a, b)
    PROVE  Expected(v, u, a, b)
<1>1. \A k : DataAt(v, k) => k \in Nat \ {0} /\ DataAt(w, k + 1) /\ v[k] = w[k + 1]
    BY DataOfDropped
<1>2. \A k : DataAt(w, k) => k \in Nat \ {0} /\ DataAt(v, k - 1) /\ v[k - 1] = w[k]
    BY DataOfDropped DEF DataAt
<1>3. /\ \A k : ReadyAt(v, k) => ReadyAt(w, k + 1)
      /\ \A k : ResumedAt(v, k) => k \in Nat /\ ResumedAt(w, k + 1)
      /\ \A k : ReadyAt(w, k) => ReadyAt(v, k - 1)
    BY <1>1, <1>2 DEF ReadyAt, ResumedAt
<1>4. \A j, k : ResumedAt(v, j) /\ ResumedAt(v, k) => j = k
    <2> SUFFICES ASSUME NEW j, NEW k, ResumedAt(v, j), ResumedAt(v, k)
                 PROVE  j = k
        OBVIOUS
    <2>1. j \in Nat /\ k \in Nat /\ j + 1 = k + 1
        BY <1>3 DEF Expected
    <2> QED BY <2>1
<1>5. NoData(w) => NoData(v)
    BY <1>1 DEF NoData
<1>6. /\ (a.sent => a.hello) /\ (a.ready => a.sent)
      /\ (u = [op |-> "identify"] \/ \E k : ReadyAt(v, k)) => ~a.resuming /\ ~a.ready
      /\ (u.op = "resume" \/ \E k : ResumedAt(v, k)) => a.resuming /\ ~a.ready
      /\ u # NoCommand => a.sent /\ NoData(v) /\ b = NoId
    BY <1>3, <1>5 DEF Expected
<1>7. (b # NoId \/ \E k : DataAt(v, k)) => a.sent /\ (a.resuming \/ a.ready \/ \E j : ReadyAt(v, j))
    BY <1>1, <1>3 DEF Expected
<1> QED BY <1>4, <1>6, <1>7 DEF Expected

LEMMA MemoryRead ==
    ASSUME NEW w, NEW v, NEW s, NEW st, NEW lt, NEW la, NEW of, NEW cl,
           Len(w) \in Nat \ {0}, Drops(v, w), Memory(s, st, lt, w, la, of, cl)
    PROVE  Memory(s, st, lt, v, la, of, cl)
<1>1. \A k : ReadyAt(v, k) => ReadyAt(w, k + 1) /\ v[k] = w[k + 1]
    BY DataOfDropped DEF ReadyAt
<1> QED BY <1>1 DEF Memory

\* A frame behind the client's sequence is dropped: what follows it is as before.
LEMMA ReadsBehind ==
    ASSUME NEW w, NEW v, NEW i, NEW n \in Int, NEW b, NEW la \in [Ids -> Int],
           Len(w) \in Nat \ {0}, Drops(v, w), w[1] \in Data, NoReady(w), w[1].sequence < n,
           i = NoId \/ i \in Ids, Carried(w, i, n, b, la)
    PROVE  Carried(v, i, n, b, la)
<1>1. \A k : DataAt(v, k) => k \in Nat \ {0} /\ DataAt(w, k + 1) /\ v[k] = w[k + 1]
    BY DataOfDropped
<1>2. \A k : DataAt(w, k) => k \in Nat \ {0} /\ (k # 1 => DataAt(v, k - 1) /\ v[k - 1] = w[k])
    BY DataOfDropped DEF DataAt
<1>3. DataAt(w, 1) /\ \A k : DataAt(w, k) => w[k].id = i /\ w[k].sequence \in Int
    BY DEF Carried, OneSession, DataAt, Data
<1>4. NoReady(v)
    BY <1>1 DEF NoReady, ReadyAt
<1>5. OneSession(v, i) /\ BoundTo(v, b, i)
    BY <1>1, <1>3, <1>4 DEF OneSession, BoundTo, Carried, NoReady
<1>6. Ordered(v, n)
    <2> SUFFICES ASSUME NEW k, DataAt(v, k)
                 PROVE  Forward(v, k, n) \/ Behind(v, k, n)
        BY DEF Ordered
    <2>1. k \in Nat \ {0} /\ DataAt(w, k + 1) /\ v[k] = w[k + 1]
        BY <1>1
    <2>2. Forward(w, k + 1, n) \/ Behind(w, k + 1, n)
        BY <2>1 DEF Carried, Ordered
    <2>3. CASE Forward(w, k + 1, n)
        BY <2>1, <2>3, <1>1, <1>4 DEF Forward
    <2>4. CASE \E j : DataAt(w, j) /\ j < k + 1 /\ w[k + 1].sequence < w[j].sequence
        <3>1. PICK j : DataAt(w, j) /\ j < k + 1 /\ w[k + 1].sequence < w[j].sequence
            BY <2>4
        <3>2. CASE j = 1
            <4>1. v[k].sequence < n
                BY <3>1, <3>2, <2>1, <1>3
            <4> QED BY <4>1, <1>4 DEF Behind
        <3>3. CASE j # 1
            <4>1. j \in Nat /\ DataAt(v, j - 1) /\ v[j - 1] = w[j] /\ j - 1 < k
                BY <3>1, <3>3, <2>1, <1>2
            <4> QED BY <3>1, <4>1, <2>1 DEF Behind
        <3> QED BY <3>2, <3>3
    <2>5. CASE w[k + 1].sequence < n
        BY <2>5, <2>1, <1>4 DEF Behind
    <2> QED BY <2>2, <2>3, <2>4, <2>5 DEF Behind
<1>7. Numbered(v, la)
    BY <1>1 DEF Carried, Numbered
<1>8. LastSent(v, la, b, n)
    <2> SUFFICES ASSUME b # NoId
                 PROVE  \/ \E k : DataAt(v, k) /\ v[k].sequence = la[b]
                        \/ NoReady(v) /\ n = la[b]
        BY DEF LastSent
    <2>1. CASE \E k : DataAt(w, k) /\ w[k].sequence = la[b]
        <3>1. PICK k : DataAt(w, k) /\ w[k].sequence = la[b]
            BY <2>1
        <3>2. i = b /\ n <= la[b] /\ la[b] \in Int
            BY DEF Carried, BoundTo
        <3>3. k # 1
            BY <3>1, <3>2, <1>3
        <3> QED BY <3>1, <3>3, <1>2
    <2>2. CASE NoReady(w) /\ n = la[b]
        BY <2>2, <1>4
    <2> QED BY <2>1, <2>2 DEF Carried, LastSent
<1>9. i # NoId => n <= la[i]
    BY DEF Carried
<1> QED BY <1>5, <1>6, <1>7, <1>8, <1>9 DEF Carried


\* What may come first: READY of a fresh Identify, RESUMED of a Resume, and dispatches only where
\* the session takes them.  So nothing but a sequence that runs backwards is ever unexpected.
LEMMA FirstDispatch ==
    ASSUME NEW w, NEW v, NEW i, NEW u, NEW a, NEW b, Len(w) \in Nat \ {0}, Drops(v, w), w[1] \in Data,
           OneSession(w, i), Expected(w, u, a, b)
    PROVE  /\ u = NoCommand /\ a.sent /\ a.hello
           /\ w[1].type = "ready" => ~a.ready /\ ~a.resuming
           /\ w[1].type = "resumed" => ~a.ready /\ a.resuming
           /\ w[1].type # "ready" => NoReady(w) /\ (a.resuming \/ a.ready)
           /\ \A k : ~ReadyAt(v, k)
           /\ w[1].type # "dispatch" => \A k : ~ResumedAt(v, k)
           /\ \A k : ResumedAt(v, k) => k \in Nat /\ ResumedAt(w, k + 1)
<1>1. \A k : DataAt(v, k) => k \in Nat \ {0} /\ DataAt(w, k + 1) /\ v[k] = w[k + 1]
    BY DataOfDropped
<1>2. DataAt(w, 1)
    BY DEF DataAt
<1>3. \A k : ReadyAt(w, k) => k = 1
    <2> SUFFICES ASSUME NEW k, ReadyAt(w, k)
                 PROVE  k = 1
        OBVIOUS
    <2>1. k <= 1 /\ k \in 1..Len(w)
        BY <1>2 DEF OneSession, ReadyAt, DataAt
    <2> QED BY <2>1
<1>4. \A k : ~ReadyAt(v, k)
    <2> SUFFICES ASSUME NEW k, ReadyAt(v, k)
                 PROVE  FALSE
        OBVIOUS
    <2>1. k \in Nat \ {0} /\ ReadyAt(w, k + 1)
        BY <1>1 DEF ReadyAt
    <2> QED BY <2>1, <1>3
<1>5. \A k : ResumedAt(v, k) => k \in Nat \ {0} /\ ResumedAt(w, k + 1)
    BY <1>1 DEF ResumedAt
<1>6. u = NoCommand /\ a.sent /\ a.hello
    BY <1>2 DEF Expected, NoData
<1>7. w[1].type = "ready" => ReadyAt(w, 1) /\ ~a.ready /\ ~a.resuming
    BY <1>2 DEF Expected, ReadyAt
<1>8. w[1].type = "resumed" => ResumedAt(w, 1) /\ ~a.ready /\ a.resuming
    BY <1>2 DEF Expected, ResumedAt
<1>9. w[1].type # "ready" => NoReady(w) /\ (a.resuming \/ a.ready)
    BY <1>2, <1>3 DEF Expected, ReadyAt, NoReady
<1>10. ASSUME w[1].type # "dispatch", NEW k, ResumedAt(v, k)
       PROVE  FALSE
    <2>1. k \in Nat \ {0} /\ ResumedAt(w, k + 1)
        BY <1>5, <1>10
    <2>2. CASE w[1].type = "resumed"
        <3>1. k + 1 = 1
            BY <2>1, <2>2, <1>8 DEF Expected
        <3> QED BY <2>1, <3>1
    <2>3. CASE w[1].type = "ready"
        BY <2>1, <2>3, <1>7 DEF Expected
    <2> QED BY <2>2, <2>3, <1>10 DEF Data
<1> QED BY <1>4, <1>5, <1>6, <1>7, <1>8, <1>9, <1>10

\* What may follow once that frame was read: its READY or RESUMED makes the attempt ready.
LEMMA ExpectedAfter ==
    ASSUME NEW w, NEW v, NEW i, NEW u, NEW a, NEW x, NEW b, Len(w) \in Nat \ {0}, Drops(v, w), w[1] \in Data,
           OneSession(w, i), Expected(w, u, a, b), x.sent = a.sent, x.hello = a.hello, x.resuming = a.resuming,
           \/ w[1].type = "dispatch" /\ x.ready = a.ready
           \/ w[1].type = "resumed" /\ x.ready = a.ready
           \/ w[1].type # "dispatch" /\ x.ready = TRUE
    PROVE  Expected(v, u, x, b)
<1>1. /\ u = NoCommand /\ a.sent /\ a.hello
      /\ w[1].type # "ready" => NoReady(w) /\ (a.resuming \/ a.ready)
      /\ \A k : ~ReadyAt(v, k)
      /\ w[1].type # "dispatch" => \A k : ~ResumedAt(v, k)
      /\ \A k : ResumedAt(v, k) => k \in Nat /\ ResumedAt(w, k + 1)
    BY FirstDispatch
<1>2. u # [op |-> "identify"] /\ u.op # "resume"
    BY <1>1 DEF NoCommand
<1>3. \A j, k : ResumedAt(v, j) /\ ResumedAt(v, k) => j = k
    <2> SUFFICES ASSUME NEW j, NEW k, ResumedAt(v, j), ResumedAt(v, k)
                 PROVE  j = k
        OBVIOUS
    <2>1. j \in Nat /\ k \in Nat /\ ResumedAt(w, j + 1) /\ ResumedAt(w, k + 1)
        BY <1>1
    <2>2. j + 1 = k + 1
        BY <2>1 DEF Expected
    <2> QED BY <2>1, <2>2
<1>4. (\E k : ResumedAt(v, k)) => x.resuming /\ ~x.ready
    <2> SUFFICES ASSUME NEW k, ResumedAt(v, k)
                 PROVE  x.resuming /\ ~x.ready
        OBVIOUS
    <2>1. w[1].type = "dispatch" /\ ResumedAt(w, k + 1)
        BY <1>1
    <2> QED BY <2>1 DEF Expected
<1>5. x.sent /\ x.hello /\ (x.resuming \/ x.ready)
    BY <1>1
<1> QED BY <1>1, <1>2, <1>3, <1>4, <1>5 DEF Expected

\* A handed out dispatch extends its session's history.
LEMMA Extends ==
    ASSUME NEW of \in [Ids -> Seq(Handouts)], NEW i \in Ids, NEW x \in Handouts,
           \A k \in DOMAIN of[i] : Precedes(of[i][k].sequence, x),
           \A j \in Ids : InOrder(of[j])
    PROVE  LET ext == [of EXCEPT ![i] = Append(of[i], x)] IN
           /\ ext \in [Ids -> Seq(Handouts)] /\ \A j \in Ids \ {i} : ext[j] = of[j]
           /\ \A k \in DOMAIN ext[i] : ext[i][k].sequence <= x.sequence
           /\ \A j \in Ids : InOrder(ext[j])
<1> DEFINE s == of[i]
           t == Append(s, x)
           ext == [of EXCEPT ![i] = t]
<1>1. s \in Seq(Handouts)
    OBVIOUS
<1>2. DOMAIN s = 1..Len(s) /\ Len(s) \in Nat /\ \A k \in 1..Len(s) : s[k].sequence \in Int
    <2> HIDE DEF s
    <2>1. DOMAIN s = 1..Len(s) /\ Len(s) \in Nat /\ \A k \in 1..Len(s) : s[k] \in Handouts
        BY <1>1, LenProperties, ElementOfSeq
    <2> QED BY <2>1, CountsAssumption DEF Handouts
<1>3. /\ t \in Seq(Handouts) /\ DOMAIN t = 1..(Len(s) + 1) /\ t[Len(s) + 1] = x
      /\ \A k \in 1..Len(s) : t[k] = s[k]
    <2> HIDE DEF s
    <2> QED BY <1>1, <1>2, AppendProperties, LenProperties
<1>4. ext \in [Ids -> Seq(Handouts)] /\ ext[i] = t /\ \A j \in Ids \ {i} : ext[j] = of[j]
    BY <1>3
<1>5. \A k \in 1..Len(s) : Precedes(s[k].sequence, x)
    BY <1>2
<1>6. \A m, k \in 1..Len(s) : m < k => Precedes(s[m].sequence, s[k])
    BY <1>2 DEF InOrder
<1> HIDE DEF ext, t, s
<1>7. MaxSequence \in Nat /\ x.sequence \in Nat
    BY CountsAssumption DEF Handouts
<1>8. \A k \in DOMAIN t : t[k].sequence <= x.sequence
    BY <1>2, <1>3, <1>5, <1>7 DEF Precedes
<1>9. InOrder(t)
    <2> SUFFICES ASSUME NEW m \in 1..(Len(s) + 1), NEW k \in 1..(Len(s) + 1), m < k
                 PROVE  Precedes(t[m].sequence, t[k])
        BY <1>3 DEF InOrder
    <2>1. m \in 1..Len(s)
        BY <1>2
    <2>2. CASE k = Len(s) + 1
        BY <2>1, <2>2, <1>3, <1>5
    <2>3. CASE k \in 1..Len(s)
        BY <2>1, <2>3, <1>3, <1>6
    <2> QED BY <2>2, <2>3, <1>2
<1>10. \A j \in Ids : InOrder(ext[j])
    <2> SUFFICES ASSUME NEW j \in Ids
                 PROVE  InOrder(ext[j])
        OBVIOUS
    <2>1. CASE j = i
        BY <2>1, <1>4, <1>9
    <2>2. CASE j # i
        BY <2>2, <1>4
    <2> QED BY <2>1, <2>2
<1> QED BY <1>4, <1>8, <1>10 DEF ext, t, s


\* A step of the client's attempt that fails or not, while it reads
LEMMA Reading ==
    ASSUME ShardInv, Receive
    PROVE  /\ attempt.phase \in {"starting", "running"}
           /\ UNCHANGED <<bound, last, up, runs, lifetime, saving, loop, stored, closedAs>>
           /\ wire' \in Seq(Data \cup Controls) /\ Drops(wire', wire) /\ Len(wire) \in Nat \ {0}
           /\ Head(wire) = wire[1] /\ wire[1] \in Data \cup Controls
           /\ session.id # NoId => closedAs[session.id] \in Alive
<1>1. wire # <<>> /\ wire' = Tail(wire) /\ wire \in Seq(Data \cup Controls)
    BY DEF Receive, ShardInv, Typed
<1>2. wire' \in Seq(Data \cup Controls) /\ Drops(wire', wire) /\ Len(wire) \in Nat \ {0} /\ Head(wire) = wire[1]
    BY <1>1, DropsOne
<1>3. wire[1] \in Data \cup Controls
    BY <1>1, <1>2, ElementOfSeq
<1>4. attempt.phase \in {"starting", "running"}
      /\ UNCHANGED <<bound, last, up, runs, lifetime, saving, loop, stored, closedAs>>
    BY DEF Receive, Reachable, gateway
<1>5. session.id # NoId => closedAs[session.id] \in Alive
    BY <1>4 DEF ShardInv, Books, Usable
<1> QED BY <1>2, <1>3, <1>4, <1>5

\* A control frame leaves the client's session as it is.
LEMMA ControlReadStep ==
    ASSUME ShardInv, Receive, wire[1] \notin Data, UNCHANGED <<session, cached, offered>>,
           attempt' \in Attempts, attempt'.phase = attempt.phase, attempt'.resuming = attempt.resuming,
           attempt'.sent = attempt.sent, attempt'.ready = attempt.ready,
           attempt'.hello = attempt.hello \/ attempt'.hello = TRUE, state' \in States
    PROVE  ShardInv'
<1> USE DEF ShardInv
<1>1. /\ attempt.phase \in {"starting", "running"}
      /\ UNCHANGED <<bound, last, up, runs, lifetime, saving, loop, stored, closedAs>>
      /\ wire' \in Seq(Data \cup Controls) /\ Drops(wire', wire) /\ Len(wire) \in Nat \ {0}
      /\ session.id # NoId => closedAs[session.id] \in Alive
    BY Reading
<1>2. Carried(wire', session.id, session.sequence, bound, last)
    BY <1>1, ReadsControl DEF Line
<1>3. Expected(wire', up, attempt, bound)
    BY <1>1, ControlRead DEF Line
<1>4. Expected(wire', up, attempt', bound)
    BY <1>3 DEF Expected
<1>5. Memory(session, store, Late, wire', last, offered, closedAs)
    BY <1>1, MemoryRead DEF Books
<1>6. /\ Carried(wire', session'.id, session'.sequence, bound, last)
      /\ Memory(session', store, Late, wire', last, offered', closedAs)
      /\ up.op = "resume" => session' = session
      /\ session.id # NoId => session'.id # NoId
      /\ session'.id # NoId => closedAs[session'.id] \in Alive
    BY <1>1, <1>2, <1>5
<1>7. /\ session' \in Snapshots /\ cached' \subseteq Ids \X (1..MaxSequence) /\ offered' \in [Ids -> Seq(Handouts)]
      /\ \A i \in Ids : InOrder(offered'[i])
    BY DEF Typed, OfferedInOrder, InOrder, Precedes
<1> QED BY <1>1, <1>4, <1>6, <1>7, ReadStep

\* An unexpected dispatch is one whose sequence runs backwards.
LEMMA RejectedStep ==
    ASSUME ShardInv, Receive, wire[1] \in Data, Unexpected(wire[1]), Fail(ProtocolAnomaly),
           UNCHANGED <<session, cached, offered>>
    PROVE  ShardInv'
<1> USE DEF ShardInv
<1>1. /\ attempt.phase \in {"starting", "running"}
      /\ UNCHANGED <<bound, last, up, runs, lifetime, saving, loop, stored, closedAs>>
      /\ wire' \in Seq(Data \cup Controls) /\ Drops(wire', wire) /\ Len(wire) \in Nat \ {0}
      /\ session.id # NoId => closedAs[session.id] \in Alive
    BY Reading
<1>2. Carried(wire, session.id, session.sequence, bound, last) /\ Expected(wire, up, attempt, bound)
      /\ OneSession(wire, session.id)
    BY DEF Line, Carried
<1>3. /\ attempt.hello
      /\ wire[1].type = "ready" => ~attempt.ready /\ ~attempt.resuming
      /\ wire[1].type = "resumed" => ~attempt.ready /\ attempt.resuming
      /\ wire[1].type # "ready" => NoReady(wire) /\ (attempt.resuming \/ attempt.ready)
      /\ up = NoCommand
    BY <1>1, <1>2, FirstDispatch
<1>4. wire[1].type # "ready" /\ wire[1].sequence < session.sequence /\ NoReady(wire)
      /\ wire[1].type \in {"dispatch", "resumed"}
    BY <1>3 DEF Unexpected, Backwards, Data
<1>5. Carried(wire', session.id, session.sequence, bound, last)
    BY <1>1, <1>2, <1>4, Identities, ReadsBehind
<1>6. attempt' \in Attempts /\ state' \in States /\ \E e \in Ends : attempt' = [attempt EXCEPT !.ended = e]
    BY FailTypes, Failures
<1>7. attempt'.resuming = attempt.resuming /\ attempt'.sent = attempt.sent /\ attempt'.ready = attempt.ready
      /\ attempt'.hello = attempt.hello /\ attempt'.phase = attempt.phase
    BY <1>6 DEF Typed, Attempts
<1>8. Expected(wire', up, attempt', bound)
    BY <1>1, <1>2, <1>4, <1>7, ExpectedAfter
<1>9. Memory(session, store, Late, wire', last, offered, closedAs)
    BY <1>1, MemoryRead DEF Books
<1>10. /\ Carried(wire', session'.id, session'.sequence, bound, last)
       /\ Memory(session', store, Late, wire', last, offered', closedAs)
       /\ up.op = "resume" => session' = session
       /\ session.id # NoId => session'.id # NoId
       /\ session'.id # NoId => closedAs[session'.id] \in Alive
    BY <1>1, <1>5, <1>9
<1>11. /\ session' \in Snapshots /\ cached' \subseteq Ids \X (1..MaxSequence) /\ offered' \in [Ids -> Seq(Handouts)]
       /\ \A i \in Ids : InOrder(offered'[i])
    BY DEF Typed, OfferedInOrder, InOrder, Precedes
<1> QED BY <1>1, <1>6, <1>7, <1>8, <1>10, <1>11, ReadStep

\* The frame the client takes belongs to its session or starts it, and goes on from all it has had.
LEMMA Accepted ==
    ASSUME ShardInv, Receive, wire[1] \in Data, ~Unexpected(wire[1])
    PROVE  /\ wire[1].id \in Ids /\ wire[1].sequence \in 1..MaxSequence /\ wire[1].sequence <= last[wire[1].id]
           /\ last[wire[1].id] > 0
           /\ wire[1].type # "ready" => session.id = wire[1].id /\ Precedes(session.sequence, wire[1])
           /\ wire[1].type = "ready" => /\ offered[wire[1].id] = <<>> /\ closedAs[wire[1].id] = "open"
           /\ wire[1].id \notin {store.id, Late.id}
           /\ \A k \in DOMAIN offered[wire[1].id] : Precedes(offered[wire[1].id][k].sequence, wire[1])
           /\ closedAs[wire[1].id] \in Alive
<1> USE DEF ShardInv
<1> DEFINE h == wire[1]
<1>1. /\ Drops(wire', wire) /\ Len(wire) \in Nat \ {0}
      /\ session.id # NoId => closedAs[session.id] \in Alive
    BY Reading
<1>2. Carried(wire, session.id, session.sequence, bound, last) /\ Expected(wire, up, attempt, bound)
      /\ OneSession(wire, session.id)
    BY DEF Line, Carried
<1>3. h.type # "ready" => NoReady(wire)
    BY <1>1, <1>2, FirstDispatch
<1>4. DataAt(wire, 1) /\ h.id \in Ids /\ h.sequence \in 1..MaxSequence /\ h.sequence <= last[h.id] /\ h.id # NoId
    BY <1>1, <1>2 DEF DataAt, Data, Carried, Numbered, Ids, NoId
<1>5. last[h.id] > 0
    BY <1>4, Identities
<1>6. Memory(session, store, Late, wire, last, offered, closedAs)
    BY DEF Books
<1>7. CASE h.type = "ready"
    <2>1. ReadyAt(wire, 1)
        BY <1>4, <1>7 DEF ReadyAt
    <2>2. /\ closedAs[h.id] = "open" /\ offered[h.id] = <<>> /\ h.id \notin {store.id, Late.id}
        BY <2>1, <1>6 DEF Memory
    <2>3. \A k \in DOMAIN offered[h.id] : Precedes(offered[h.id][k].sequence, h)
        BY <2>2
    <2> QED BY <2>2, <2>3, <1>4, <1>5, <1>7 DEF Alive
<1>8. CASE h.type # "ready"
    <2>1. NoReady(wire) /\ session.id = h.id
        BY <1>2, <1>3, <1>4, <1>8 DEF OneSession
    <2>2. ~(h.sequence < session.sequence)
        BY <1>8 DEF Unexpected, Backwards
    <2>3. Precedes(session.sequence, h)
        <3>1. Forward(wire, 1, session.sequence) \/ Behind(wire, 1, session.sequence)
            BY <1>2, <1>4 DEF Carried, Ordered
        <3>2. ~\E j : DataAt(wire, j) /\ j < 1
            BY DEF DataAt
        <3> QED BY <2>1, <2>2, <3>1, <3>2 DEF Forward, Behind
    <2>4. h.id \notin {store.id, Late.id} /\ Final(session, last, offered)
        BY <1>4, <1>6, <2>1 DEF Memory, Apart
    <2>5. \A k \in DOMAIN offered[h.id] : Precedes(offered[h.id][k].sequence, h)
        <3>1. \A k \in DOMAIN offered[h.id] : offered[h.id][k].sequence <= session.sequence
            BY <1>4, <2>1, <2>4 DEF Final
        <3>2. \A k \in DOMAIN offered[h.id] : offered[h.id][k].sequence \in Int
            <4>1. offered[h.id] \in Seq(Handouts)
                BY <1>4 DEF Typed
            <4>2. \A k \in DOMAIN offered[h.id] : offered[h.id][k] \in Handouts
                BY <4>1, LenProperties, ElementOfSeq
            <4> QED BY <4>2 DEF Handouts
        <3>3. session.sequence \in Int /\ h.sequence \in Int
            BY <1>4, Identities
        <3> HIDE DEF h
        <3> QED BY <2>3, <3>1, <3>2, <3>3 DEF Precedes
    <2>6. closedAs[h.id] \in Alive
        BY <1>1, <1>4, <2>1
    <2> QED BY <2>1, <2>3, <2>4, <2>5, <2>6, <1>4, <1>5, <1>8
<1> QED BY <1>7, <1>8


\* The client takes the frame h: its session moves on, and subscribers get h if events are still on.
Takes(h) ==
    /\ session' = [id |-> IF h.type = "ready" THEN h.id ELSE session.id, sequence |-> h.sequence]
    /\ offered' = IF lifetime = "on" THEN [offered EXCEPT ![h.id] = Append(@, Handed(h))] ELSE offered

LEMMA AcceptedBooks ==
    ASSUME ShardInv, Receive, wire[1] \in Data, ~Unexpected(wire[1]), Takes(wire[1])
    PROVE  /\ session' \in Snapshots /\ session'.id = wire[1].id /\ session'.sequence = wire[1].sequence
           /\ session'.id \in Ids
           /\ offered' \in [Ids -> Seq(Handouts)]
           /\ \A i \in Ids : InOrder(offered'[i])
           /\ Memory(session', store, Late, wire', last, offered', closedAs)
<1> USE DEF ShardInv
<1>1. PICK i \in Ids, n \in 1..MaxSequence, x \in Handouts :
        /\ i = wire[1].id /\ n = wire[1].sequence /\ n <= last[i] /\ last[i] > 0
        /\ wire[1].type # "ready" => session.id = i
        /\ i \notin {store.id, Late.id}
        /\ x = Handed(wire[1]) /\ x.sequence = n
        /\ \A k \in DOMAIN offered[i] : Precedes(offered[i][k].sequence, x)
    <2> DEFINE h == wire[1]
    <2>1. /\ h.id \in Ids /\ h.sequence \in 1..MaxSequence /\ h.sequence <= last[h.id] /\ last[h.id] > 0
          /\ h.type # "ready" => session.id = h.id
          /\ h.id \notin {store.id, Late.id}
          /\ \A k \in DOMAIN offered[h.id] : Precedes(offered[h.id][k].sequence, h)
        BY Accepted
    <2>2. Handed(h) \in Handouts /\ Handed(h).sequence = h.sequence /\ Handed(h).again = h.again
        BY DEF Data, Handed, Handouts
    <2> HIDE DEF h
    <2>3. \A k \in DOMAIN offered[h.id] : Precedes(offered[h.id][k].sequence, Handed(h))
        BY <2>1, <2>2 DEF Precedes
    <2> QED BY <2>1, <2>2, <2>3 DEF h
<1>2. session'.id = i /\ session'.sequence = n /\ session' \in Snapshots
    <2>1. session' = [id |-> i, sequence |-> n]
        BY <1>1 DEF Takes
    <2> QED BY <2>1 DEF Snapshots
<1>3. /\ offered' \in [Ids -> Seq(Handouts)] /\ \A j \in Ids \ {i} : offered'[j] = offered[j]
      /\ \A k \in DOMAIN offered'[i] : offered'[i][k].sequence <= n
      /\ \A j \in Ids : InOrder(offered'[j])
    <2>4. \A j \in Ids : InOrder(offered[j])
        BY DEF OfferedInOrder, InOrder, Precedes
    <2>1. offered \in [Ids -> Seq(Handouts)]
        BY DEF Typed
    <2>2. CASE lifetime = "on"
        <3>1. offered' = [offered EXCEPT ![i] = Append(offered[i], x)]
            BY <1>1, <2>1, <2>2 DEF Takes
        <3> DEFINE ext == [offered EXCEPT ![i] = Append(offered[i], x)]
        <3>2. /\ ext \in [Ids -> Seq(Handouts)] /\ \A j \in Ids \ {i} : ext[j] = offered[j]
              /\ \A k \in DOMAIN ext[i] : ext[i][k].sequence <= n
              /\ \A j \in Ids : InOrder(ext[j])
            <4>2. (\A k \in DOMAIN offered[i] : Precedes(offered[i][k].sequence, x)) /\ x.sequence = n
                BY <1>1
            <4> HIDE DEF ShardInv
            <4> QED BY <2>1, <2>4, <4>2, Extends
        <3>3. offered' = ext
            BY <3>1
        <3> HIDE DEF ext
        <3> QED BY <3>2, <3>3
    <2>3. CASE lifetime # "on"
        <3>1. offered' = offered
            BY <2>3 DEF Takes
        <3>2. offered[i] \in Seq(Handouts)
            BY <2>1
        <3>5. \A k \in DOMAIN offered[i] : offered[i][k] \in Handouts
            BY <3>2, LenProperties, ElementOfSeq
        <3>3. \A k \in DOMAIN offered[i] : offered[i][k].sequence \in Int
            BY <3>5, CountsAssumption DEF Handouts
        <3>4. \A k \in DOMAIN offered[i] : offered[i][k].sequence <= n
            BY <1>1, <3>3 DEF Precedes
        <3> QED BY <2>1, <2>4, <3>1, <3>4
    <2> QED BY <2>2, <2>3
<1>4. Drops(wire', wire) /\ Len(wire) \in Nat \ {0}
    BY Reading
<1>5. \A k : ~ReadyAt(wire', k)
    <2>1. Expected(wire, up, attempt, bound) /\ OneSession(wire, session.id)
        BY DEF Line, Carried
    <2> QED BY <1>4, <2>1, FirstDispatch
<1>6. Memory(session, store, Late, wire, last, offered, closedAs)
    BY DEF Books
<1>7. Final(session', last, offered')
    BY <1>1, <1>2, <1>3 DEF Final
<1>8. (store.id = NoId \/ store.id \in Ids \ {i}) /\ (Late.id = NoId \/ Late.id \in Ids \ {i})
    BY <1>1, Identities
<1>9. Final(store, last, offered') /\ Final(Late, last, offered')
    BY <1>3, <1>6, <1>8 DEF Memory, Final
<1>10. \A j \in Ids : last[j] = 0 => closedAs[j] = "open" /\ offered'[j] = <<>>
    BY <1>1, <1>3, <1>6 DEF Memory
<1>11. Apart(session', store) /\ Apart(session', Late)
    BY <1>1, <1>2 DEF Apart
<1>12. Memory(session', store, Late, wire', last, offered', closedAs)
    BY <1>5, <1>6, <1>7, <1>9, <1>10, <1>11 DEF Memory
<1> QED BY <1>1, <1>2, <1>3, <1>12


LEMMA AcceptedStep ==
    ASSUME ShardInv, Receive, wire[1] \in Data, ~Unexpected(wire[1]), Takes(wire[1]), cached' = CachedAfter(wire[1]),
           attempt' \in Attempts, attempt'.phase = attempt.phase, attempt'.resuming = attempt.resuming,
           attempt'.sent = attempt.sent, attempt'.hello = attempt.hello, state' \in States,
           \/ wire[1].type = "dispatch" /\ attempt'.ready = attempt.ready
           \/ wire[1].type # "dispatch" /\ attempt'.ready = TRUE
    PROVE  ShardInv'
<1> USE DEF ShardInv
<1>1. /\ attempt.phase \in {"starting", "running"}
      /\ UNCHANGED <<bound, last, up, runs, lifetime, saving, loop, stored, closedAs>>
      /\ wire' \in Seq(Data \cup Controls) /\ Drops(wire', wire) /\ Len(wire) \in Nat \ {0}
    BY Reading
<1>2. Carried(wire, session.id, session.sequence, bound, last) /\ Expected(wire, up, attempt, bound)
      /\ OneSession(wire, session.id)
    BY DEF Line, Carried
<1>3. /\ wire[1].id \in Ids /\ wire[1].sequence \in 1..MaxSequence
      /\ wire[1].type = "ready" \/ session.sequence <= wire[1].sequence
      /\ closedAs[wire[1].id] \in Alive
    <2>1. session.sequence \in Int /\ wire[1].sequence \in Int
        BY Identities DEF Data
    <2> QED BY <2>1, Accepted DEF Precedes
<1>4. /\ session' \in Snapshots /\ session'.id = wire[1].id /\ session'.sequence = wire[1].sequence
      /\ session'.id \in Ids
      /\ offered' \in [Ids -> Seq(Handouts)]
      /\ \A i \in Ids : InOrder(offered'[i])
      /\ Memory(session', store, Late, wire', last, offered', closedAs)
    BY AcceptedBooks
<1>5. Carried(wire', wire[1].id, wire[1].sequence, bound, last)
    BY <1>1, <1>2, <1>3, Identities, ReadsDispatch
<1>6. Carried(wire', session'.id, session'.sequence, bound, last)
    BY <1>4, <1>5
<1>7. Expected(wire', up, attempt', bound)
    BY <1>1, <1>2, ExpectedAfter
<1>8. up.op # "resume"
    <2>1. up = NoCommand
        BY <1>1, <1>2, FirstDispatch
    <2> QED BY <2>1 DEF NoCommand
<1>9. cached' \subseteq Ids \X (1..MaxSequence)
    BY <1>3 DEF CachedAfter, Typed
<1>10. session'.id # NoId /\ closedAs[session'.id] \in Alive
    BY <1>3, <1>4 DEF Ids, NoId
<1> QED BY <1>1, <1>4, <1>6, <1>7, <1>8, <1>9, <1>10, ReadStep

LEMMA ReceiveStep == ASSUME ShardInv, Receive PROVE ShardInv'
<1> USE DEF ShardInv
<1>1. Head(wire) = wire[1] /\ wire[1] \in Data \cup Controls
    BY Reading
<1> DEFINE h == wire[1]
<1>2. CASE /\ h.type = "hello"
           /\ attempt' = [attempt EXCEPT !.hello = TRUE]
           /\ UNCHANGED <<state, session, cached, offered>>
    <2>1. h \notin Data
        BY <1>2, FrameKinds
    <2>2. attempt' \in Attempts
        BY <1>2, AttemptTypes
    <2>3. attempt'.phase = attempt.phase /\ attempt'.resuming = attempt.resuming
          /\ attempt'.sent = attempt.sent /\ attempt'.ready = attempt.ready /\ attempt'.hello = TRUE
        BY <1>2 DEF Typed, Attempts
    <2>4. state' \in States
        BY <1>2 DEF Typed
    <2> QED BY <1>2, <2>1, <2>2, <2>3, <2>4, ControlReadStep
<1>3. CASE /\ h.type \in Disturbances
           /\ Fail(Meaning(h.type))
           /\ UNCHANGED <<session, cached, offered>>
    <2>1. h \notin Data
        BY <1>3, FrameKinds DEF Disturbances
    <2>2. attempt' \in Attempts /\ state' \in States /\ \E e \in Ends : attempt' = [attempt EXCEPT !.ended = e]
        BY <1>3, FailTypes, Failures
    <2>3. attempt'.phase = attempt.phase /\ attempt'.resuming = attempt.resuming
          /\ attempt'.sent = attempt.sent /\ attempt'.ready = attempt.ready /\ attempt'.hello = attempt.hello
        BY <2>2 DEF Typed, Attempts
    <2> QED BY <1>3, <2>1, <2>2, <2>3, ControlReadStep
<1>4. CASE ReceiveDispatch(h)
    <2>1. h \in Data
        BY <1>1, <1>4 DEF ReceiveDispatch, Controls
    <2>2. CASE Unexpected(h)
        BY <1>4, <2>1, <2>2, RejectedStep DEF ReceiveDispatch
    <2>3. CASE ~Unexpected(h)
        <3>1. Takes(h) /\ cached' = CachedAfter(h)
            BY <1>4, <2>3 DEF ReceiveDispatch, Takes
        <3>2. CASE h.type # "dispatch"
            <4>1. attempt' = [attempt EXCEPT !.ready = TRUE, !.inTime = attempt.ended = NoEnd] /\ UNCHANGED state
                BY <1>4, <2>3, <3>2 DEF ReceiveDispatch
            <4>2. PICK b \in BOOLEAN : b <=> attempt.ended = NoEnd
                OBVIOUS
            <4>3. attempt' = [attempt EXCEPT !.ready = TRUE, !.inTime = b]
                BY <4>1, <4>2
            <4>4. attempt' \in Attempts
                BY <4>3, AttemptTypes
            <4>5. attempt'.phase = attempt.phase /\ attempt'.resuming = attempt.resuming
                  /\ attempt'.sent = attempt.sent /\ attempt'.ready = TRUE /\ attempt'.hello = attempt.hello
                BY <4>3 DEF Typed, Attempts
            <4>6. state' \in States
                BY <4>1 DEF Typed
            <4> QED BY <2>1, <2>3, <3>1, <3>2, <4>4, <4>5, <4>6, AcceptedStep
        <3>3. CASE h.type = "dispatch"
            <4>1. UNCHANGED <<attempt, state>> \/ Fail(Permanent)
                BY <1>4, <2>3, <3>3 DEF ReceiveDispatch
            <4>2. attempt' \in Attempts /\ state' \in States
                  /\ (attempt' = attempt \/ \E e \in Ends : attempt' = [attempt EXCEPT !.ended = e])
                BY <4>1, FailTypes, Failures DEF Typed
            <4>3. attempt'.phase = attempt.phase /\ attempt'.resuming = attempt.resuming
                  /\ attempt'.sent = attempt.sent /\ attempt'.ready = attempt.ready /\ attempt'.hello = attempt.hello
                BY <4>2 DEF Typed, Attempts
            <4> QED BY <2>1, <2>3, <3>1, <3>3, <4>2, <4>3, AcceptedStep
        <3> QED BY <3>2, <3>3
    <2> QED BY <2>2, <2>3
<1> QED BY <1>1, <1>2, <1>3, <1>4 DEF Receive

-----------------------------------------------------------------------------
(* Theorems *)

LEMMA InitHolds == ASSUME Init PROVE ShardInv
<1> USE DEF Init
<1>1. Fresh \in Loops /\ Fresh.known = FALSE /\ Fresh.anomalies = 0
    <2>1. 0 \in 0..MaxAttempts /\ 0 \in 0..ProtocolFailureLimit
        BY CountsAssumption
    <2>2. (~Persistent) \in BOOLEAN
        OBVIOUS
    <2>3. ASSUME NEW loaded \in BOOLEAN
          PROVE  [known |-> FALSE, loaded |-> loaded, restored |-> FALSE, established |-> FALSE,
                  connected |-> FALSE, attempts |-> 0, anomalies |-> 0] \in Loops
        BY <2>1 DEF Loops
    <2> QED BY <2>2, <2>3 DEF Fresh
<1>2. Idle \in Attempts /\ Idle.phase = "idle" /\ Idle.sent = FALSE /\ Idle.ready = FALSE /\ Idle.resuming = FALSE
    BY DEF Idle, Attempts, Phases, Ends, NoEnd
<1>3. Typed
    <2>1. wire \in Seq(Data \cup Controls) /\ up \in Commands
        BY EmptySeq DEF Commands
    <2>2. bound \in 0..MaxSessions /\ last \in [Ids -> 0..MaxSequence] /\ runs \in 0..MaxRuns
        BY CountsAssumption DEF NoId
    <2>3. offered \in [Ids -> Seq(Handouts)] /\ closedAs \in [Ids -> Codes]
        BY EmptySeq DEF Codes
    <2>4. session \in Snapshots /\ store \in Snapshots /\ lateSave \in {<<>>} \cup [{1} -> Snapshots]
        BY DEF Snapshots, NoSnapshot
    <2>5. state \in States /\ saving \in BOOLEAN /\ lifetime \in {"down", "on", "draining", "closing"}
          /\ cached \subseteq Ids \X (1..MaxSequence) /\ loop \in Loops /\ attempt \in Attempts
        BY <1>1, <1>2 DEF States
    <2> QED BY <2>1, <2>2, <2>3, <2>4, <2>5 DEF Typed
<1>4. Counted
    BY <1>1, <1>2, CountsAssumption DEF Counted
<1>5. NoSession.id = NoId /\ NoSession.sequence = 0
    BY DEF NoSession
<1> HIDE DEF NoSession
<1>6. \A k : ~DataAt(wire, k) /\ ~ReadyAt(wire, k) /\ ~ResumedAt(wire, k)
    BY DEF DataAt, ReadyAt, ResumedAt
<1>7. Line
    <2>1. Carried(wire, session.id, session.sequence, bound, last)
        BY <1>5, <1>6 DEF Carried, OneSession, BoundTo, Ordered, Numbered, LastSent
    <2>2. up.op # "resume" /\ up # [op |-> "identify"]
        BY DEF NoCommand
    <2>3. Expected(wire, up, attempt, bound)
        BY <1>2, <1>6, <2>2 DEF Expected
    <2> QED BY <1>1, <1>2, <2>1, <2>2, <2>3 DEF Line, Reachable
<1>8. Books
    <2>1. Late = NoSession
        BY DEF Late
    <2>2. Memory(session, store, Late, wire, last, offered, closedAs)
        BY <1>5, <1>6, <2>1 DEF Memory, Final, Apart, NoSnapshot
    <2>3. Usable(session, closedAs, attempt, lifetime, saving)
        BY <1>5 DEF Usable
    <2> QED BY <1>2, <2>2, <2>3 DEF Books
<1>9. OfferedInOrder
    BY DEF OfferedInOrder
<1> QED BY <1>3, <1>4, <1>7, <1>8, <1>9 DEF ShardInv

LEMMA StepHolds == ASSUME ShardInv, [Next]_vars PROVE ShardInv'
<1>1. CASE GatewayStep
    BY <1>1, AnswerIdentifyStep, AnswerResumeStep, DispatchStep, RepeatStep, DisturbStep DEF GatewayStep
<1>2. CASE ClientStep
    BY <1>2, DiscoverStep, LoadStep, MarkUsedStep, ConnectStep, OpenedStep, AuthenticateStep, StartupFailsStep,
       ReceiveStep, BecomeReadyStep, EndStep, ClosedStep, InterruptStep, FinishStep, DiscoveryFailsStep
    DEF ClientStep
<1>3. CASE Start \/ Lose \/ Unresponsive \/ LateWrite \/ Drain \/ Close \/ Crash
    BY <1>3, StartStep, LoseStep, UnresponsiveStep, LateWriteStep, DrainStep, CloseStep, CrashStep
<1>4. CASE UNCHANGED vars
    <2> USE <1>4 DEF vars, gateway, socket, client, stored, history
    <2>1. Typed' /\ Counted' /\ OfferedInOrder'
        BY DEF ShardInv, Typed, Counted, OfferedInOrder
    <2>2. Line'
        <3>1. Reachable => Reachable'
            BY DEF Reachable
        <3> QED BY <3>1, SameLine DEF ShardInv, Line
    <2>3. Books'
        BY DEF ShardInv, Books, Late
    <2> QED BY <2>1, <2>2, <2>3 DEF ShardInv
<1> QED BY <1>1, <1>2, <1>3, <1>4 DEF Next

LEMMA AlwaysShard == Spec => []ShardInv
<1>1. Init => ShardInv
    BY InitHolds
<1>2. ShardInv /\ [Next]_vars => ShardInv'
    BY StepHolds
<1> QED BY <1>1, <1>2, PTL DEF Spec

-----------------------------------------------------------------------------
(* The caches *)

\* Every dispatch on the wire w goes on by one from what precedes it, or repeats: none is left out.
NoGap(w, n) ==
    \A k : DataAt(w, k) =>
        \/ w[k].type = "ready"
        \/ \E j : DataAt(w, j) /\ j < k /\ w[k].sequence <= w[j].sequence + 1
        \/ NoReady(w) /\ w[k].sequence <= n + 1

\* A session is restored with empty caches only: a snapshot is loaded before the first connection.
LoadedFirst ==
    /\ ~loop.loaded \/ attempt.phase = "marking" => cached = {}
    /\ attempt.phase \in {"connecting", "starting", "running", "closing"} => loop.loaded

CacheInv == NoGap(wire, session.sequence) /\ LoadedFirst /\ CacheCurrent

LEMMA EmptyNoGap == \A n : NoGap(<<>>, n)
BY DEF NoGap, DataAt

LEMMA ControlNoGap ==
    ASSUME NEW w, NEW v, NEW f, NEW n, Len(w) \in Nat, Appends(v, w, f), f \notin Data, NoGap(w, n)
    PROVE  NoGap(v, n)
<1>1. /\ \A k : DataAt(v, k) <=> DataAt(w, k)
      /\ \A k : DataAt(w, k) => v[k] = w[k]
      /\ \A k : ReadyAt(v, k) <=> ReadyAt(w, k)
    BY ControlSame
<1>2. NoReady(v) <=> NoReady(w)
    BY <1>1 DEF NoReady
<1> QED BY <1>1, <1>2 DEF NoGap

\* The gateway numbers its next dispatch by one more than the last it sent.
LEMMA DispatchNoGap ==
    ASSUME NEW w, NEW v, NEW f \in Data, NEW n \in Int, NEW b \in Ids, NEW la \in [Ids -> Int],
           Len(w) \in Nat, Appends(v, w, f), f.type = "dispatch", f.sequence <= la[b] + 1,
           LastSent(w, la, b, n), NoGap(w, n)
    PROVE  NoGap(v, n)
<1> DEFINE m == Len(w) + 1
<1>1. b # NoId /\ v[m] = f /\ m \in Nat
    BY DEF Ids, NoId, Appends
<1>2. \A k : DataAt(v, k) <=> DataAt(w, k) \/ k = m
    BY DataOfAppended
<1>3. \A k : DataAt(w, k) => v[k] = w[k] /\ k \in Nat /\ k < m
    BY DEF Appends, DataAt
<1>4. \A k : ReadyAt(v, k) <=> ReadyAt(w, k)
    BY <1>1, <1>2, <1>3 DEF ReadyAt
<1>5. NoReady(v) <=> NoReady(w)
    BY <1>4 DEF NoReady
<1> HIDE DEF m
<1>6. ASSUME NEW k, DataAt(w, k)
      PROVE  \/ v[k].type = "ready"
             \/ \E j : DataAt(v, j) /\ j < k /\ v[k].sequence <= v[j].sequence + 1
             \/ NoReady(v) /\ v[k].sequence <= n + 1
    BY <1>6, <1>2, <1>3, <1>5 DEF NoGap
<1>7. \/ \E j : DataAt(v, j) /\ j < m /\ v[m].sequence <= v[j].sequence + 1
      \/ NoReady(v) /\ v[m].sequence <= n + 1
    <2>1. CASE \E k : DataAt(w, k) /\ w[k].sequence = la[b]
        BY <2>1, <1>1, <1>2, <1>3
    <2>2. CASE NoReady(w) /\ n = la[b]
        BY <2>2, <1>1, <1>5
    <2> QED BY <2>1, <2>2, <1>1 DEF LastSent
<1> QED BY <1>2, <1>6, <1>7 DEF NoGap

LEMMA ReadyNoGap ==
    ASSUME NEW w, NEW v, NEW f \in Data, NEW n, Len(w) \in Nat, Appends(v, w, f), NoData(w), f.type = "ready"
    PROVE  NoGap(v, n)
<1>1. \A k : DataAt(v, k) => v[k] = f
    BY DataOfAppended DEF NoData, Appends
<1> QED BY <1>1 DEF NoGap

LEMMA ReplayNoGap ==
    ASSUME NEW w, NEW v, NEW i, NEW n \in Int, NEW r \in Nat, NEW z \in Int, Len(w) \in Nat, NoData(w),
           Confirmed(v, w, i, n, r, z)
    PROVE  NoGap(v, n)
<1> USE DEF Confirmed
<1> DEFINE m == Len(w)
<1>1. \A k : DataAt(v, k) => k \in Int /\ k - m \in 1..(r + 1)
    <2> SUFFICES ASSUME NEW k, DataAt(v, k)
                 PROVE  k \in Int /\ k - m \in 1..(r + 1)
        OBVIOUS
    <2>1. k \in 1..(m + r + 1) /\ m \in Nat
        BY DEF DataAt
    <2>2. k \notin 1..m
        BY DEF DataAt, NoData
    <2> QED BY <2>1, <2>2
<1>2. \A k \in Int : k - m \in 1..(r + 1) =>
        DataAt(v, k) /\ v[k].type # "ready" /\ v[k].sequence = IF k - m = r + 1 THEN z ELSE n + (k - m)
    <2> SUFFICES ASSUME NEW k \in Int, k - m \in 1..(r + 1)
                 PROVE  DataAt(v, k) /\ v[k].type # "ready" /\ v[k].sequence = IF k - m = r + 1 THEN z ELSE n + (k - m)
        OBVIOUS
    <2>1. m + (k - m) = k /\ k \in 1..(m + r + 1)
        OBVIOUS
    <2>2. /\ v[m + (k - m)] \in Data /\ v[m + (k - m)].type # "ready"
          /\ v[m + (k - m)].sequence = IF k - m = r + 1 THEN z ELSE n + (k - m)
        OBVIOUS
    <2> QED BY <2>1, <2>2 DEF DataAt
<1> HIDE DEF m
<1>3. NoReady(v)
    BY <1>1, <1>2 DEF NoReady, ReadyAt
<1>4. m \in Nat
    BY DEF m
<1> SUFFICES ASSUME NEW k, DataAt(v, k)
             PROVE  \/ \E j : DataAt(v, j) /\ j < k /\ v[k].sequence <= v[j].sequence + 1
                    \/ NoReady(v) /\ v[k].sequence <= n + 1
    BY DEF NoGap
<1>5. CASE k - m = 1
    BY <1>1, <1>2, <1>3, <1>5
<1>6. CASE k - m # 1
    <2>1. k - 1 \in Int /\ (k - 1) - m \in 1..(r + 1) /\ k - 1 < k
        BY <1>1, <1>4, <1>6
    <2>2. DataAt(v, k - 1) /\ v[k - 1].sequence = n + ((k - 1) - m)
        <3>1. (k - 1) - m # r + 1
            BY <1>1, <1>4
        <3> QED BY <2>1, <3>1, <1>2
    <2>3. v[k].sequence <= v[k - 1].sequence + 1
        BY <2>1, <2>2, <1>1, <1>2, <1>4, SMTT(30)
    <2> QED BY <2>1, <2>2, <2>3
<1> QED BY <1>5, <1>6

\* Reading a frame that is no dispatch, or one behind the client, leaves no gap.
LEMMA SkippedNoGap ==
    ASSUME NEW w, NEW v, NEW n \in Int, Len(w) \in Nat \ {0}, Drops(v, w), NoGap(w, n),
           w[1] \in Data => NoReady(w) /\ w[1].sequence < n
    PROVE  NoGap(v, n)
<1>1. /\ \A k : DataAt(v, k) => k \in Nat \ {0} /\ DataAt(w, k + 1) /\ v[k] = w[k + 1]
      /\ \A k \in Int : DataAt(w, k) /\ k # 1 => DataAt(v, k - 1) /\ v[k - 1] = w[k]
      /\ \A k : DataAt(w, k) => k \in Nat \ {0}
    BY DataOfDropped
<1>2. NoReady(w) => NoReady(v)
    BY <1>1 DEF NoReady, ReadyAt
<1> SUFFICES ASSUME NEW k, DataAt(v, k), v[k].type # "ready"
             PROVE  \/ \E j : DataAt(v, j) /\ j < k /\ v[k].sequence <= v[j].sequence + 1
                    \/ NoReady(v) /\ v[k].sequence <= n + 1
    BY DEF NoGap
<1>3. k \in Nat \ {0} /\ DataAt(w, k + 1) /\ v[k] = w[k + 1]
    BY <1>1
<1>4. CASE \E j : DataAt(w, j) /\ j < k + 1 /\ w[k + 1].sequence <= w[j].sequence + 1
    <2>1. PICK j : DataAt(w, j) /\ j < k + 1 /\ w[k + 1].sequence <= w[j].sequence + 1
        BY <1>4
    <2>2. j \in Nat \ {0}
        BY <2>1, <1>1
    <2>3. CASE j # 1
        <3>1. DataAt(v, j - 1) /\ v[j - 1] = w[j] /\ j - 1 < k
            BY <2>1, <2>2, <2>3, <1>1, <1>3
        <3> QED BY <3>1, <2>1, <1>3
    <2>4. CASE j = 1
        <3>1. NoReady(w) /\ w[1].sequence < n /\ w[1].sequence \in Int /\ w[k + 1].sequence \in Int
            BY <2>1, <2>4, <1>3 DEF DataAt, Data
        <3> QED BY <3>1, <2>1, <2>4, <1>2, <1>3
    <2> QED BY <2>3, <2>4
<1>5. CASE NoReady(w) /\ w[k + 1].sequence <= n + 1
    BY <1>2, <1>3, <1>5
<1> QED BY <1>3, <1>4, <1>5 DEF NoGap

\* Taking the first frame leaves no gap after it.
LEMMA TakenNoGap ==
    ASSUME NEW w, NEW v, NEW n \in Int, Len(w) \in Nat \ {0}, Drops(v, w), NoGap(w, n), w[1] \in Data,
           NoReady(v), NoReady(w) => n <= w[1].sequence
    PROVE  NoGap(v, w[1].sequence)
<1>1. /\ \A k : DataAt(v, k) => k \in Nat \ {0} /\ DataAt(w, k + 1) /\ v[k] = w[k + 1]
      /\ \A k \in Int : DataAt(w, k) /\ k # 1 => DataAt(v, k - 1) /\ v[k - 1] = w[k]
      /\ \A k : DataAt(w, k) => k \in Nat \ {0}
    BY DataOfDropped
<1> SUFFICES ASSUME NEW k, DataAt(v, k), v[k].type # "ready"
             PROVE  \/ \E j : DataAt(v, j) /\ j < k /\ v[k].sequence <= v[j].sequence + 1
                    \/ NoReady(v) /\ v[k].sequence <= w[1].sequence + 1
    BY DEF NoGap
<1>2. k \in Nat \ {0} /\ DataAt(w, k + 1) /\ v[k] = w[k + 1]
      /\ w[1].sequence \in Int /\ w[k + 1].sequence \in Int
    BY <1>1 DEF DataAt, Data
<1>3. CASE \E j : DataAt(w, j) /\ j < k + 1 /\ w[k + 1].sequence <= w[j].sequence + 1
    <2>1. PICK j : DataAt(w, j) /\ j < k + 1 /\ w[k + 1].sequence <= w[j].sequence + 1
        BY <1>3
    <2>2. j \in Nat \ {0}
        BY <2>1, <1>1
    <2>3. CASE j # 1
        <3>1. DataAt(v, j - 1) /\ v[j - 1] = w[j] /\ j - 1 < k
            BY <2>1, <2>2, <2>3, <1>1, <1>2
        <3> QED BY <3>1, <2>1, <1>2
    <2>4. CASE j = 1
        BY <2>1, <2>4, <1>2
    <2> QED BY <2>3, <2>4
<1>4. CASE NoReady(w) /\ w[k + 1].sequence <= n + 1
    BY <1>2, <1>4
<1> QED BY <1>2, <1>3, <1>4 DEF NoGap

\* Nothing the gateway sends leaves a gap behind it.
LEMMA GatewayNoGap ==
    ASSUME ShardInv, NoGap(wire, session.sequence), GatewayStep
    PROVE  NoGap(wire', session'.sequence)
<1> USE DEF ShardInv
<1>1. /\ session.sequence \in Int /\ last \in [Ids -> Int] /\ Len(wire) \in Nat
      /\ wire \in Seq(Data \cup Controls) /\ LastSent(wire, last, bound, session.sequence)
    BY Identities DEF Typed, Line, Carried
<1>2. session' = session
    BY DEF GatewayStep, AnswerIdentify, AnswerResume, Dispatch, Repeat, Disturb, client
<1>3. ASSUME NEW i \in Ids, AnswerIdentify(i)
      PROVE  NoGap(wire', session.sequence)
    <2>1. MaxSequence \in Nat \ {0}
        BY CountsAssumption
    <2>2. PICK f \in Data : f = Frame("ready", i, 1) /\ f.type = "ready"
        BY <2>1, FrameKinds
    <2>3. wire' = wire \o <<f>> /\ f \in Data \cup Controls
        BY <1>3, <2>2 DEF AnswerIdentify, Send
    <2>4. Appends(wire', wire, f)
        BY <1>1, <2>3, AppendsOne
    <2>5. NoData(wire)
        <3>1. up # NoCommand
            BY <1>3 DEF AnswerIdentify, NoCommand
        <3> QED BY <3>1 DEF Line, Expected
    <2> QED BY <1>1, <2>2, <2>4, <2>5, ReadyNoGap
<1>4. CASE AnswerResume
    <2>1. up.op = "resume" /\ NoData(wire)
        BY <1>4 DEF AnswerResume, Line, Expected, NoCommand
    <2>2. CASE \E f : Answered(f)
        <3> HIDE DEF ShardInv
        <3>5. PICK f : Answered(f)
            BY <2>2
        <3>1. PICK i \in Ids, n \in 1..MaxSequence, r \in Nat, z \in Int : ResumedWith(i, n, r, z)
            BY <2>1, <3>5, AnsweredWire
        <3>2. session.sequence = n /\ n \in Int /\ Confirmed(wire', wire, i, n, r, z)
            BY <3>1, CountsAssumption DEF ResumedWith
        <3>3. NoGap(wire', n)
            BY <1>1, <2>1, <3>2, ReplayNoGap
        <3> QED BY <1>2, <3>2, <3>3
    <2>3. CASE Send(<<Control("invalid")>>)
        <3>1. Control("invalid") \in Data \cup Controls /\ Control("invalid") \notin Data
            BY FrameKinds DEF Disturbances
        <3>2. Appends(wire', wire, Control("invalid"))
            BY <1>1, <2>3, <3>1, AppendsOne DEF Send
        <3>3. NoGap(wire', session.sequence)
            BY <1>1, <3>1, <3>2, ControlNoGap
        <3> QED BY <1>2, <3>3
    <2> QED BY <1>4, <2>2, <2>3, AnswersAre
<1>5. ASSUME bound # NoId, NEW f \in Data, f.type = "dispatch", f.sequence <= last[bound] + 1, Send(<<f>>)
      PROVE  NoGap(wire', session.sequence)
    <2>1. bound \in Ids
        BY <1>5 DEF Typed, Ids, NoId
    <2>3. wire' = wire \o <<f>> /\ f \in Data \cup Controls
        BY <1>5 DEF Send
    <2>4. Appends(wire', wire, f)
        BY <1>1, <2>3, AppendsOne
    <2> QED BY <1>1, <1>5, <2>1, <2>4, DispatchNoGap
<1>6. CASE Dispatch \/ Repeat
    <2>5. bound # NoId
        BY <1>6 DEF Dispatch, Repeat
    <2>1. bound \in Ids /\ last[bound] \in 0..MaxSequence /\ MaxSequence \in Nat
        BY <2>5, CountsAssumption DEF Typed, Ids, NoId
    <2>2. CASE Dispatch
        <3>1. last[bound] + 1 \in 1..MaxSequence /\ last[bound] + 1 <= last[bound] + 1
            BY <2>1, <2>2 DEF Dispatch
        <3>2. PICK f \in Data : f = Frame("dispatch", bound, last[bound] + 1)
                                /\ f.type = "dispatch" /\ f.sequence <= last[bound] + 1
            BY <2>1, <3>1, FrameKinds
        <3>3. bound # NoId /\ Send(<<f>>)
            BY <2>2, <3>2 DEF Dispatch
        <3> HIDE DEF ShardInv
        <3> QED BY <1>2, <1>5, <3>2, <3>3
    <2>3. CASE Repeat
        <3>1. PICK n \in 1..last[bound] : Send(<<Again("dispatch", bound, n)>>)
            BY <2>3 DEF Repeat
        <3>2. n \in 1..MaxSequence /\ n <= last[bound] + 1
            BY <2>1
        <3>3. PICK f \in Data : f = Again("dispatch", bound, n)
                                /\ f.type = "dispatch" /\ f.sequence <= last[bound] + 1
            BY <2>1, <3>2, FrameKinds
        <3>4. bound # NoId /\ Send(<<f>>)
            BY <2>3, <3>1, <3>3 DEF Repeat
        <3> HIDE DEF ShardInv
        <3> QED BY <1>2, <1>5, <3>3, <3>4
    <2> QED BY <1>6, <2>2, <2>3
<1>7. ASSUME NEW type \in Disturbances, Disturb(type)
      PROVE  NoGap(wire', session.sequence)
    <2>1. Control(type) \in Data \cup Controls /\ Control(type) \notin Data
        BY FrameKinds
    <2>2. Appends(wire', wire, Control(type))
        BY <1>1, <1>7, <2>1, AppendsOne DEF Disturb, Send
    <2> QED BY <1>1, <2>1, <2>2, ControlNoGap
<1> QED BY <1>2, <1>3, <1>4, <1>6, <1>7 DEF GatewayStep

LEMMA GatewayCache == ASSUME ShardInv, CacheInv, GatewayStep PROVE CacheInv'
<1>1. UNCHANGED <<client, cached>>
    BY DEF GatewayStep, AnswerIdentify, AnswerResume, Dispatch, Repeat, Disturb, gateway
<1>2. NoGap(wire', session'.sequence)
    BY GatewayNoGap DEF CacheInv
<1> QED BY <1>1, <1>2 DEF CacheInv, LoadedFirst, CacheCurrent, Resumable, client

\* The caches after a frame of their session, one further on at most
LEMMA OneMore ==
    ASSUME NEW i, NEW n \in Nat, NEW from \in 1..(n + 1), NEW c, c = {i} \X (from..n),
           NEW m \in {n, n + 1}, m > 0
    PROVE  \E start \in 1..(m + 1) : c \cup {<<i, m>>} = {i} \X (start..m)
<1>1. CASE m = n + 1
    <2>1. from \in 1..(m + 1)
        BY <1>1
    <2>2. from..m = (from..n) \cup {m}
        BY <1>1
    <2>3. c \cup {<<i, m>>} = {i} \X (from..m)
        BY <2>2
    <2> QED BY <2>1, <2>3
<1>2. CASE m = n /\ from = n + 1
    <2>1. from..n = {} /\ m..m = {m} /\ m \in 1..(m + 1)
        BY <1>2
    <2>2. c \cup {<<i, m>>} = {i} \X {m}
        BY <2>1
    <2> QED BY <2>1, <2>2
<1>3. CASE m = n /\ from # n + 1
    <2>1. m \in from..n
        BY <1>3
    <2>2. c \cup {<<i, m>>} = c
        BY <2>1
    <2> QED BY <1>3, <2>2
<1> QED BY <1>1, <1>2, <1>3

\* A frame that is refused, or is no dispatch, leaves the caches; the one taken is the next of its session.
LEMMA ReceiveCache == ASSUME ShardInv, CacheInv, Receive PROVE CacheInv'
<1> USE DEF ShardInv
<1> DEFINE h == wire[1]
<1>1. /\ attempt.phase \in {"starting", "running"}
      /\ UNCHANGED <<bound, last, up, runs, lifetime, saving, loop, stored, closedAs>>
      /\ Drops(wire', wire) /\ Len(wire) \in Nat \ {0}
      /\ Head(wire) = h /\ h \in Data \cup Controls
    BY Reading
<1>2. session.sequence \in Int /\ (session.id = NoId \/ session.id \in Ids)
      /\ OneSession(wire, session.id) /\ Expected(wire, up, attempt, bound)
    BY Identities DEF Line, Carried
<1>3. attempt'.phase = attempt.phase
    <2>1. attempt \in Attempts
        BY DEF Typed
    <2>2. \/ attempt' = attempt
          \/ \E e : attempt' = [attempt EXCEPT !.ended = e]
          \/ attempt' = [attempt EXCEPT !.hello = TRUE]
          \/ \E b : attempt' = [attempt EXCEPT !.ready = TRUE, !.inTime = b]
        BY DEF Receive, ReceiveDispatch, Fail
    <2> QED BY <2>1, <2>2 DEF Attempts
<1>4. CASE UNCHANGED <<session, cached>> /\ (h \in Data => NoReady(wire) /\ h.sequence < session.sequence)
    <2>1. NoGap(wire', session.sequence)
        <3> HIDE DEF ShardInv
        <3> QED BY <1>1, <1>2, <1>4, SkippedNoGap DEF CacheInv
    <2> QED BY <1>1, <1>3, <1>4, <2>1 DEF CacheInv, LoadedFirst, CacheCurrent, Resumable
<1>5. CASE h \in Data /\ ~Unexpected(h) /\ Takes(h) /\ cached' = CachedAfter(h)
    <2>1. /\ h.id \in Ids /\ h.sequence \in 1..MaxSequence
          /\ h.type # "ready" => session.id = h.id /\ session.sequence <= h.sequence
        <3>1. /\ h.id \in Ids /\ h.sequence \in 1..MaxSequence
              /\ h.type # "ready" => session.id = h.id /\ Precedes(session.sequence, h)
            BY <1>5, Accepted
        <3>2. h.sequence \in Int /\ session.sequence \in Int
            BY <3>1, <1>2
        <3> QED BY <3>1, <3>2 DEF Precedes
    <2>2. NoReady(wire') /\ (h.type # "ready" => NoReady(wire))
        <3>1. (h.type # "ready" => NoReady(wire)) /\ \A k : ~ReadyAt(wire', k)
            <4> HIDE DEF ShardInv
            <4> QED BY <1>1, <1>2, <1>5, FirstDispatch
        <3> QED BY <3>1 DEF NoReady
    <2>3. NoReady(wire) => h.type # "ready"
        BY <1>1, <1>5 DEF NoReady, ReadyAt, DataAt
    <2>4. session' = [id |-> h.id, sequence |-> h.sequence]
        BY <1>5, <2>1 DEF Takes
    <2>5. NoGap(wire', h.sequence)
        <3>1. NoReady(wire) => session.sequence <= h.sequence
            BY <1>2, <2>1, <2>3
        <3> HIDE DEF ShardInv
        <3> QED BY <1>1, <1>2, <1>5, <2>2, <3>1, TakenNoGap DEF CacheInv
    <2>6. loop.loaded /\ attempt.phase # "marking"
        BY <1>1 DEF CacheInv, LoadedFirst
    <2>7. LoadedFirst'
        BY <1>1, <1>3, <2>6 DEF LoadedFirst
    <2>8. CacheCurrent'
        <3>1. CASE h.type = "ready"
            <4>1. cached' = {<<h.id, h.sequence>>}
                BY <1>5, <3>1 DEF CachedAfter
            <4>2. h.sequence \in 1..(h.sequence + 1) /\ h.sequence..h.sequence = {h.sequence}
                BY <2>1
            <4>3. cached' = {h.id} \X (h.sequence..h.sequence)
                BY <4>1, <4>2
            <4> QED BY <2>4, <4>2, <4>3 DEF CacheCurrent
        <3>2. CASE h.type # "ready"
            <4>1. session.id = h.id /\ session.id # NoId /\ session.sequence \in Nat /\ lifetime # "down"
                <5>1. session \in Snapshots /\ session.id \in Ids
                    BY <2>1, <3>2 DEF Typed
                <5>2. session.id # NoId /\ session.sequence \in 1..MaxSequence
                    BY <5>1 DEF Snapshots, NoSession, Ids, NoId
                <5> QED BY <1>1, <2>1, <3>2, <5>2 DEF Line
            <4>2. h.sequence <= session.sequence + 1
                <5>1. DataAt(wire, 1) /\ \A j : DataAt(wire, j) => ~(j < 1)
                    BY <1>1, <1>5 DEF DataAt
                <5> QED BY <3>2, <5>1 DEF CacheInv, NoGap
            <4>3. h.sequence \in {session.sequence, session.sequence + 1} /\ h.sequence > 0
                BY <2>1, <3>2, <4>1, <4>2
            <4>4. PICK from \in 1..(session.sequence + 1) : cached = {session.id} \X (from..session.sequence)
                BY <4>1 DEF CacheInv, CacheCurrent, Resumable
            <4>5. PICK start \in 1..(h.sequence + 1) :
                    cached \cup {<<session.id, h.sequence>>} = {session.id} \X (start..h.sequence)
                <5> HIDE DEF ShardInv
                <5> QED BY <2>1, <4>1, <4>3, <4>4, OneMore
            <4>6. cached' = {h.id} \X (start..h.sequence)
                BY <1>5, <3>2, <4>1, <4>5 DEF CachedAfter
            <4> QED BY <2>4, <4>6 DEF CacheCurrent
        <3> QED BY <3>1, <3>2
    <2> QED BY <2>4, <2>5, <2>7, <2>8 DEF CacheInv
<1>6. CASE h.type = "hello" /\ UNCHANGED <<session, cached>>
    BY <1>4, <1>6, FrameKinds
<1>7. CASE h.type \in Disturbances /\ UNCHANGED <<session, cached>>
    BY <1>4, <1>7, FrameKinds DEF Disturbances
<1>8. CASE ReceiveDispatch(h)
    <2>1. h \in Data
        BY <1>1, <1>8 DEF ReceiveDispatch, Controls
    <2>2. CASE ~Unexpected(h)
        BY <1>5, <1>8, <2>1, <2>2 DEF ReceiveDispatch, Takes
    <2>3. CASE Unexpected(h)
        <3>1. UNCHANGED <<session, cached>>
            BY <1>8, <2>3 DEF ReceiveDispatch
        <3>2. /\ attempt.hello
              /\ h.type = "ready" => ~attempt.ready /\ ~attempt.resuming
              /\ h.type = "resumed" => ~attempt.ready /\ attempt.resuming
              /\ h.type # "ready" => NoReady(wire) /\ (attempt.resuming \/ attempt.ready)
            <4> HIDE DEF ShardInv
            <4> QED BY <1>1, <1>2, <2>1, FirstDispatch
        <3>3. NoReady(wire) /\ h.sequence < session.sequence
            BY <2>3, <3>2 DEF Unexpected, Backwards
        <3> QED BY <1>4, <3>1, <3>3
    <2> QED BY <2>2, <2>3
<1> QED BY <1>1, <1>6, <1>7, <1>8 DEF Receive

\* Nothing is carried unless the attempt can be reached.
LEMMA QuietCache ==
    ASSUME ShardInv, CacheInv, wire' = <<>> \/ (UNCHANGED wire /\ (UNCHANGED session \/ ~Reachable)),
           LoadedFirst', CacheCurrent'
    PROVE  CacheInv'
<1>1. ~Reachable => wire = <<>>
    BY DEF ShardInv, Line
<1> QED BY <1>1, EmptyNoGap DEF CacheInv

\* The end of an attempt, or of a discovery that failed
LEMMA FailureCache ==
    ASSUME ShardInv, CacheInv, ~Reachable, attempt.phase # "marking",
           NEW failure, NEW attempts, AfterFailure(failure, attempts), UNCHANGED <<wire, lifetime>>
    PROVE  CacheInv'
<1> USE DEF CacheInv
<1>1. /\ session' \in {session, NoSession}
      /\ cached' = IF (loop.established \/ loop.restored) /\ session'.id = NoId THEN {} ELSE cached
      /\ attempt'.phase \in {"idle", "off"} /\ loop'.loaded = loop.loaded
    <2>1. loop \in Loops
        BY DEF ShardInv, Typed
    <2>2. PICK anomalies, connected : loop' = [loop EXCEPT !.attempts = attempts, !.anomalies = anomalies, !.connected = connected]
        BY DEF AfterFailure
    <2>3. loop'.loaded = loop.loaded
        BY <2>1, <2>2 DEF Loops
    <2> QED BY <2>3 DEF AfterFailure, AfterReset, Idle
<1>2. LoadedFirst'
    BY <1>1 DEF LoadedFirst
<1>3. CacheCurrent'
    BY <1>1 DEF CacheCurrent, Resumable, NoSession
<1> QED BY <1>2, <1>3, QuietCache

LEMMA ClientCache == ASSUME ShardInv, CacheInv, ClientStep PROVE CacheInv'
<1> USE DEF CacheInv, LoadedFirst, CacheCurrent, Resumable, gateway, socket, client, stored, history
<1>1. loop \in Loops /\ attempt \in Attempts
    BY DEF ShardInv, Typed
<1>2. CASE Discover \/ Connect \/ Opened \/ Authenticate \/ StartupFails \/ BecomeReady
    <2>1. UNCHANGED <<session, cached, lifetime>>
        BY <1>2 DEF Discover, Connect, Opened, Authenticate, StartupFails, BecomeReady
    <2>2. LoadedFirst'
        BY <1>1, <1>2, <2>1 DEF Discover, Connect, Opened, Authenticate, StartupFails, BecomeReady, DeadlineRuns,
                                Loops, Attempts, Idle
    <2>3. CASE ~Opened
        BY <1>2, <2>1, <2>2, <2>3, QuietCache DEF Discover, Connect, Authenticate, StartupFails, BecomeReady
    <2>4. CASE Opened
        <3>1. NoGap(wire', session.sequence)
            <4>1. wire' = <<Control("hello")>> /\ Control("hello") \notin Data
                BY <2>4, FrameKinds DEF Opened
            <4> QED BY <4>1 DEF NoGap, DataAt
        <3> QED BY <2>1, <2>2, <3>1
    <2> QED BY <2>3, <2>4
<1>3. CASE LoadSession
    <2>1. LoadedFirst' /\ UNCHANGED <<wire, session, cached, lifetime>>
        BY <1>1, <1>3 DEF LoadSession, Loops, Attempts, Idle
    <2> QED BY <2>1, QuietCache
<1>4. CASE MarkUsed
    <2>1. ~Reachable /\ cached = {} /\ cached' = {} /\ UNCHANGED <<wire, lifetime>> /\ attempt'.phase = "idle"
        BY <1>4 DEF MarkUsed, Reachable, Idle
    <2>2. session' = session \/ session' = store
        BY <1>4 DEF MarkUsed
    <2>3. session'.id # NoId => session'.sequence \in Nat
        BY <2>2, CountsAssumption DEF ShardInv, Typed, Snapshots, NoSession
    <2>4. CacheCurrent'
        <3> SUFFICES ASSUME session'.id # NoId
                     PROVE  \E from \in 1..(session'.sequence + 1) : cached' = {session'.id} \X (from..session'.sequence)
            OBVIOUS
        <3>1. session'.sequence + 1 \in 1..(session'.sequence + 1)
              /\ (session'.sequence + 1)..session'.sequence = {}
            BY <2>3
        <3>2. cached' = {session'.id} \X ((session'.sequence + 1)..session'.sequence)
            BY <2>1, <3>1
        <3> QED BY <3>1, <3>2
    <2>5. LoadedFirst'
        BY <2>1
    <2> QED BY <2>1, <2>4, <2>5, QuietCache
<1>5. CASE Receive
    BY <1>5, ReceiveCache
<1>6. CASE EndAttempt \/ (Interrupt /\ attempt.phase \notin {"idle", "marking"})
    <2>1. wire' = <<>> /\ UNCHANGED <<session, cached, lifetime, loop>> /\ attempt'.phase = "closing" /\ loop.loaded
        BY <1>1, <1>6 DEF EndAttempt, Interrupt, Interruptible, CloseSocket, Attempts
    <2> QED BY <2>1, QuietCache
<1>7. CASE Interrupt /\ attempt.phase \in {"idle", "marking"}
    <2>1. UNCHANGED <<wire, session, cached, lifetime, loop>> /\ attempt'.phase = "off"
        BY <1>7 DEF Interrupt, Idle
    <2> QED BY <2>1, QuietCache
<1>8. CASE Closed
    <2>1. ~Reachable /\ attempt.phase # "marking" /\ UNCHANGED <<wire, lifetime>>
        BY <1>8 DEF Closed, Reachable
    <2>2. CASE AfterFailure(attempt.ended, loop.attempts + 1)
        BY <2>1, <2>2, FailureCache
    <2>3. CASE attempt' = [Idle EXCEPT !.phase = "off"] /\ UNCHANGED <<session, loop, cached>>
        <3>1. attempt'.phase = "off"
            BY <2>3 DEF Idle
        <3> QED BY <2>1, <2>3, <3>1, QuietCache
    <2> QED BY <1>8, <2>2, <2>3 DEF Closed
<1>9. CASE Finish
    <2>1. UNCHANGED wire /\ ~Reachable /\ cached' = {} /\ lifetime' = "down" /\ attempt'.phase = "idle"
        BY <1>9 DEF Finish, Reachable, Idle
    <2> QED BY <2>1, QuietCache
<1>10. ASSUME NEW failure \in {Retryable, Permanent}, DiscoveryFails(failure)
       PROVE  CacheInv'
    <2>1. ~Reachable /\ attempt.phase # "marking" /\ UNCHANGED <<wire, lifetime>>
        BY <1>10 DEF DiscoveryFails, Reachable
    <2>2. PICK counted : AfterFailure(failure, loop.attempts + counted)
        BY <1>10 DEF DiscoveryFails
    <2> QED BY <2>1, <2>2, FailureCache
<1> QED BY <1>2, <1>3, <1>4, <1>5, <1>6, <1>7, <1>8, <1>9, <1>10 DEF ClientStep

LEMMA CacheStep == ASSUME ShardInv, CacheInv, [Next]_vars PROVE CacheInv'
<1> USE DEF LoadedFirst, CacheCurrent, Resumable, gateway, socket, client, stored, history
<1>1. CASE Start
    <2>1. lifetime = "down" /\ UNCHANGED wire /\ session' = NoSession /\ cached' = {} /\ attempt'.phase = "idle"
        BY <1>1 DEF Start, Idle
    <2>2. ~Reachable
        BY <2>1 DEF ShardInv, Line, Reachable
    <2> QED BY <2>1, <2>2, QuietCache DEF NoSession
<1>2. CASE Lose \/ Unresponsive
    <2>1. attempt'.phase = attempt.phase
        BY <1>2 DEF ShardInv, Typed, Attempts, Lose, Unresponsive, Fail
    <2>2. UNCHANGED <<session, cached, lifetime, loop>> /\ (wire' = <<>> \/ UNCHANGED wire)
        BY <1>2 DEF Lose, Unresponsive
    <2> QED BY <2>1, <2>2, QuietCache DEF CacheInv
<1>3. CASE LateWrite \/ Drain \/ Close \/ UNCHANGED vars
    <2>1. UNCHANGED <<wire, session, cached, loop, attempt>> /\ (lifetime' = "down" => lifetime = "down")
        BY <1>3 DEF LateWrite, Drain, Close, vars
    <2>2. CacheCurrent'
        <3>1. CASE lifetime # "down"
            BY <2>1, <3>1 DEF CacheInv
        <3>2. CASE lifetime = "down"
            BY <1>3, <2>1, <3>2 DEF LateWrite, Drain, Close, vars, CacheInv
        <3> QED BY <3>1, <3>2
    <2> QED BY <2>1, <2>2, QuietCache DEF CacheInv
<1>4. CASE Crash
    <2>1. wire' = <<>> /\ cached' = {} /\ lifetime' = "down" /\ attempt'.phase = "idle"
        BY <1>4 DEF Crash, Idle
    <2> QED BY <2>1, QuietCache
<1> QED BY <1>1, <1>2, <1>3, <1>4, GatewayCache, ClientCache DEF Next

\* The caches reflect one unbroken run of the session's dispatches up to where a Resume would ask from:
\* the gateway's numbering, the sequence check of session.ts and the release of the caches on READY and on
\* a reset (shard-loop.ts) leave out no dispatch and keep nothing of an earlier session.
THEOREM CachesFollowTheSession == Spec => []CacheCurrent
<1>1. Init => CacheInv
    BY EmptyNoGap DEF Init, CacheInv, LoadedFirst, CacheCurrent, Resumable, NoSession, NoId, Idle
<1>2. ShardInv /\ CacheInv /\ [Next]_vars => CacheInv'
    BY CacheStep
<1>3. CacheInv => CacheCurrent
    BY DEF CacheInv
<1> QED BY <1>1, <1>2, <1>3, AlwaysShard, PTL DEF Spec

\* Dispatches are never handed to the subscribers out of order, and twice only when the gateway gave the
\* number to a frame again, over every Resume, crash and restart: the sequence check of dispatch in
\* session.ts, which lets an equal number pass, repeats none by itself, because what a Resume asks for is
\* never behind what an earlier process of the same session handed out.
THEOREM DispatchesInOrder == Spec => []OfferedInOrder
<1>1. ShardInv => OfferedInOrder
    BY DEF ShardInv
<1> QED BY <1>1, AlwaysShard, PTL

\* A session whose socket was closed with the code that destroys it is never resumed, not by the next
\* attempt of the loop (shard-loop.ts) and not by a process that loads a snapshot; the one exception is a
\* session that a shutdown saved after a failure had closed it (client.ts, #saveSessions), and it lasts
\* until a process closes that session's socket again.
THEOREM ResumesWhatWasKept == Spec => []ResumesKeptSession
<1>1. ShardInv => ResumesKeptSession
    <2> SUFFICES ASSUME ShardInv, up.op = "resume"
                 PROVE  closedAs[up.id] \in Alive
        BY DEF ResumesKeptSession, Alive
    <2>1. up.id = session.id /\ session.id # NoId /\ attempt.phase \in {"starting", "running"}
        BY DEF ShardInv, Line, Expected, Reachable, NoCommand
    <2> QED BY <2>1 DEF ShardInv, Books, Usable, Alive
<1> QED BY <1>1, AlwaysShard, PTL

\* Across runs, crashes and late writes of the store (client.ts, #saveSessions), a snapshot names a
\* session that ended with it, that no client uses, whose socket is closed, and not by a shutdown with the
\* code that destroys it: a failure may have closed it so before.  What a later process makes of the
\* snapshot neither repeats a dispatch by itself nor revives another session.
THEOREM RestartsLoseNothing == Spec => []RestartsAreSound
<1>1. ShardInv => SavedIsSound
    <2> SUFFICES ASSUME ShardInv
                 PROVE  TypeOk /\ SavedIsFinal /\ SavedIsClosed
        BY DEF SavedIsSound
    <2>1. Snapshots \subseteq Sessions
        BY CountsAssumption DEF Snapshots, Sessions, NoSession, Ids, NoId
    <2>2. TypeOk
        BY <2>1 DEF ShardInv, Typed, TypeOk, Attempts, Phases, Loops, Codes, States
    <2>3. Memory(session, store, Late, wire, last, offered, closedAs)
        BY DEF ShardInv, Books
    <2>4. store # NoSnapshot => store.id # NoId
        BY DEF ShardInv, Typed, Snapshots, NoSnapshot, NoSession, Ids, NoId
    <2>5. SavedIsFinal
        BY <2>3, <2>4 DEF SavedIsFinal, Memory, Final, Apart
    <2>6. SavedIsClosed
        BY <2>3, <2>4 DEF SavedIsClosed, Memory, SavedCodes
    <2> QED BY <2>2, <2>5, <2>6
<1>2. SavedIsSound /\ OfferedInOrder /\ ResumesKeptSession => RestartsAreSound
    BY DEF RestartsAreSound
<1> QED BY <1>1, <1>2, AlwaysShard, DispatchesInOrder, ResumesWhatWasKept, PTL

=============================================================================
