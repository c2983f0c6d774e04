------------------------- MODULE CommandPacerProofs -------------------------
(* Proofs about CommandPacer *)
EXTENDS CommandPacer, DataLemmas

\* What the pacer remembers of the session's sends: "history" is the end of "sends", and what it
\* has forgotten is at least a Window old.
Tracks(history, sends) ==
    /\ history \in Seq(Nat) /\ sends \in Seq(Nat) /\ Len(history) <= Len(sends)
    /\ \A j \in 1..Len(history) : history[j] = sends[Len(sends) - Len(history) + j]
    /\ \A i \in 1..(Len(sends) - Len(history)) : sends[i] + Window <= now
    /\ \A i \in 1..Len(sends) : sends[i] <= now

\* The inductive invariant of WithinBudget
BudgetInv == now \in Nat /\ Tracks(sentAt, log) /\ WithinBudget

LEMMA SuffixIs ==
    ASSUME NEW s \in Seq(Nat), NEW k \in 0..Len(s)
    PROVE  /\ SubSeq(s, k + 1, Len(s)) \in Seq(Nat)
           /\ Len(SubSeq(s, k + 1, Len(s))) = Len(s) - k
           /\ \A j \in 1..(Len(s) - k) : SubSeq(s, k + 1, Len(s))[j] = s[j + k]
OBVIOUS

LEMMA RestTracks ==
    ASSUME BudgetInv, NEW rest \in Rests
    PROVE  Tracks(rest, log)
<1>1. PICK k \in 0..Len(sentAt) : /\ \A i \in 1..k : Expired(sentAt[i])
                                  /\ rest = SubSeq(sentAt, k + 1, Len(sentAt))
  BY DEF Rests
<1>2. /\ sentAt \in Seq(Nat) /\ Len(sentAt) \in Nat /\ log \in Seq(Nat) /\ Len(log) \in Nat
      /\ Len(sentAt) <= Len(log) /\ k \in Nat
  BY DEF BudgetInv, Tracks
<1>3. /\ rest \in Seq(Nat) /\ Len(rest) = Len(sentAt) - k
      /\ \A j \in 1..(Len(sentAt) - k) : rest[j] = sentAt[j + k]
  BY <1>1, SuffixIs, <1>2
<1>4. ASSUME NEW j \in 1..Len(rest)
      PROVE  rest[j] = log[Len(log) - Len(rest) + j]
  <2>0. Len(rest) = Len(sentAt) - k /\ j \in Nat /\ 1 <= j /\ j <= Len(rest)
        /\ k \in Nat /\ Len(sentAt) \in Nat
    <3>1. Len(rest) = Len(sentAt) - k
      BY <1>3
    <3>2. k \in Nat /\ Len(sentAt) \in Nat
      BY <1>2
    <3>3. j \in Nat /\ 1 <= j /\ j <= Len(rest)
      BY <1>4, <3>1, <3>2
    <3> QED
      BY <3>1, <3>2, <3>3
  <2>1. j \in 1..(Len(sentAt) - k) /\ j + k \in 1..Len(sentAt)
    BY <2>0
  <2>2. sentAt[j + k] = log[Len(log) - Len(sentAt) + (j + k)]
    BY <2>1 DEF BudgetInv, Tracks
  <2>3. Len(log) - Len(sentAt) + (j + k) = Len(log) - Len(rest) + j
    BY <2>0, <1>2
  <2> QED
    BY <2>1, <2>2, <2>3, <1>3
<1>5. ASSUME NEW i \in 1..(Len(log) - Len(rest))
      PROVE  log[i] + Window <= now
  <2>1. CASE i <= Len(log) - Len(sentAt)
    BY <2>1, <1>2 DEF BudgetInv, Tracks
  <2>2. CASE i > Len(log) - Len(sentAt)
    <3>0. Len(rest) = Len(sentAt) - k /\ k <= Len(sentAt) /\ i \in 1..(Len(log) - Len(rest))
      BY <1>3, <1>5
    <3>1. i - (Len(log) - Len(sentAt)) \in 1..k /\ k <= Len(sentAt)
      BY <2>2, <3>0, <1>2
    <3> DEFINE j == i - (Len(log) - Len(sentAt))
    <3>2. j \in 1..Len(sentAt) /\ Len(log) - Len(sentAt) + j = i
      BY <3>1, <1>2
    <3>3. sentAt[j] = log[i]
      BY <3>2 DEF BudgetInv, Tracks
    <3> QED
      BY <3>1, <3>3, <1>1 DEF Expired
  <2> QED
    BY <2>1, <2>2, <1>2
<1> QED
  BY <1>2, <1>3, <1>4, <1>5 DEF BudgetInv, Tracks

\* One more send, of a pacer that remembers fewer than Budget.
LEMMA SendTracks ==
    ASSUME BudgetInv, NEW history, Tracks(history, log), Len(history) < Budget,
           NEW sends, sends = Append(log, now)
    PROVE  /\ Tracks(Append(history, now), sends)
           /\ \A i \in 1..Len(sends) : i + Budget <= Len(sends) => sends[i] + Window <= sends[i + Budget]
<1> USE PacerAssumption
<1>1. /\ history \in Seq(Nat) /\ Len(history) \in Nat /\ log \in Seq(Nat) /\ Len(log) \in Nat
      /\ Len(history) <= Len(log) /\ now \in Nat
  BY DEF BudgetInv, Tracks
<1>2. /\ sends \in Seq(Nat) /\ Len(sends) = Len(log) + 1 /\ sends[Len(log) + 1] = now
      /\ \A i \in 1..Len(log) : sends[i] = log[i]
  BY <1>1
<1> DEFINE longer == Append(history, now)
<1>3. /\ longer \in Seq(Nat) /\ Len(longer) = Len(history) + 1 /\ longer[Len(history) + 1] = now
      /\ \A j \in 1..Len(history) : longer[j] = history[j]
  BY <1>1
<1> HIDE DEF longer
<1>9. /\ Len(sends) = Len(log) + 1 /\ Len(longer) = Len(history) + 1
      /\ Len(log) \in Nat /\ Len(history) \in Nat /\ Len(history) <= Len(log) /\ Budget \in Nat \ {0}
  BY <1>1, <1>2, <1>3
<1>4. ASSUME NEW j \in 1..Len(longer)
      PROVE  longer[j] = sends[Len(sends) - Len(longer) + j]
  <2>1. CASE j = Len(history) + 1
    <3>1. Len(sends) - Len(longer) + j = Len(log) + 1
      BY <2>1, <1>1, <1>2, <1>3
    <3> QED
      BY <3>1, <2>1, <1>2, <1>3
  <2>2. CASE j \in 1..Len(history)
    <3>1. /\ Len(sends) - Len(longer) + j = Len(log) - Len(history) + j
          /\ Len(log) - Len(history) + j \in 1..Len(log)
      BY <2>2, <1>1, <1>2, <1>3
    <3>2. history[j] = log[Len(log) - Len(history) + j]
      BY <2>2 DEF Tracks
    <3> QED
      BY <3>1, <3>2, <2>2, <1>2, <1>3
  <2> QED
    BY <2>1, <2>2, <1>9
<1>5. ASSUME NEW i \in 1..(Len(sends) - Len(longer))
      PROVE  sends[i] + Window <= now
  <2>1. i \in 1..(Len(log) - Len(history)) /\ i \in 1..Len(log)
    BY <1>1, <1>2, <1>3
  <2> QED
    BY <2>1, <1>2 DEF Tracks
<1>6. ASSUME NEW i \in 1..Len(sends)
      PROVE  sends[i] <= now
  <2>1. CASE i \in 1..Len(log)
    BY <2>1, <1>2 DEF Tracks
  <2>2. CASE i = Len(log) + 1
    BY <2>2, <1>1, <1>2
  <2> QED
    BY <2>1, <2>2, <1>1, <1>2
<1>10. sends \in Seq(Nat) /\ longer \in Seq(Nat) /\ Len(longer) <= Len(sends)
  BY <1>9, <1>2, <1>3
<1>7. Tracks(longer, sends)
  BY <1>10, <1>4, <1>5, <1>6 DEF Tracks
<1>8. ASSUME NEW i \in 1..Len(sends), i + Budget <= Len(sends)
      PROVE  sends[i] + Window <= sends[i + Budget]
  <2>1. CASE i + Budget = Len(log) + 1
    <3>1. i \in 1..(Len(log) - Len(history)) /\ i \in 1..Len(log)
      BY <2>1, <1>1
    <3>2. log[i] + Window <= now
      BY <3>1 DEF Tracks
    <3> QED
      BY <3>1, <3>2, <2>1, <1>2
  <2>2. CASE i + Budget <= Len(log)
    <3>1. i \in 1..Len(log) /\ i + Budget \in 1..Len(log)
      BY <2>2, <1>1, <1>2
    <3>2. log[i] + Window <= log[i + Budget]
      BY <3>1, <2>2 DEF BudgetInv, WithinBudget
    <3> QED
      BY <3>1, <3>2, <1>2
  <2> QED
    BY <2>1, <2>2, <1>8, <1>9
<1> QED
  BY <1>7, <1>8 DEF longer

-----------------------------------------------------------------------------
(* The budget *)

LEMMA NothingRemembered == ASSUME BudgetInv PROVE <<>> \in Seq(Nat) /\ Len(<<>>) = 0
OBVIOUS

\* A step that leaves the clock, the memory and the sends alone.
LEMMA BudgetUndisturbed ==
    ASSUME BudgetInv, UNCHANGED <<now, sentAt, log>>
    PROVE  BudgetInv'
BY DEF BudgetInv, Tracks, WithinBudget

LEMMA BudgetTransmit ==
    ASSUME BudgetInv, NEW c, NEW rest \in Rests, Len(rest) < Budget, Transmit(c, rest), now' = now
    PROVE  BudgetInv'
<1>1. Tracks(rest, log)
  BY RestTracks
<1>2. CASE open
  <2>1. sentAt' = Append(rest, now) /\ log' = Append(log, now)
    BY <1>2 DEF Transmit
  <2>2. /\ Tracks(sentAt', log')
        /\ \A i \in 1..Len(log') : i + Budget <= Len(log') => log'[i] + Window <= log'[i + Budget]
    BY <1>1, <2>1, SendTracks
  <2> QED
    BY <2>2 DEF BudgetInv, Tracks, WithinBudget
<1>3. CASE ~open
  <2>1. sentAt' = rest /\ log' = log
    BY <1>3 DEF Transmit
  <2> QED
    BY <1>1, <2>1 DEF BudgetInv, Tracks, WithinBudget
<1> QED
  BY <1>2, <1>3

LEMMA BudgetStep ==
    ASSUME BudgetInv, [Next]_vars
    PROVE  BudgetInv'
<1>1. ASSUME NEW c \in Commands, SendNow(c)
      PROVE  BudgetInv'
  <2>1. PICK rest \in Rests : Len(rest) < Budget /\ Transmit(c, rest)
    BY <1>1 DEF SendNow, MaySendNow
  <2> QED
    BY <1>1, <2>1, BudgetTransmit DEF SendNow
<1>2. ASSUME NEW c \in Commands, Wait(c)
      PROVE  BudgetInv'
  <2>1. PICK rest \in Rests : sentAt' = IF queue = <<>> THEN rest ELSE sentAt
    BY <1>2 DEF Wait
  <2>2. Tracks(sentAt', log)
    BY <2>1, RestTracks DEF BudgetInv
  <2> QED
    BY <1>2, <2>2 DEF Wait, BudgetInv, Tracks, WithinBudget
<1>3. CASE Look
  <2>1. CASE queue = <<>> \/ closed
    BY <1>3, <2>1, BudgetUndisturbed DEF Look
  <2>2. CASE ~(queue = <<>> \/ closed)
    <3>1. PICK rest \in Rests :
            \/ Len(rest) < Budget /\ Transmit(Head(queue), rest)
            \/ sentAt' = rest /\ UNCHANGED log
      BY <1>3, <2>2 DEF Look
    <3>2. now' = now
      BY <1>3 DEF Look
    <3>3. CASE Len(rest) < Budget /\ Transmit(Head(queue), rest)
      BY <3>2, <3>3, BudgetTransmit
    <3>4. CASE sentAt' = rest /\ UNCHANGED log
      <4>1. Tracks(sentAt', log)
        BY <3>4, RestTracks
      <4> QED
        BY <3>2, <3>4, <4>1 DEF BudgetInv, Tracks, WithinBudget
    <3> QED
      BY <3>1, <3>3, <3>4
  <2> QED
    BY <2>1, <2>2
<1>4. ASSUME NEW resuming \in BOOLEAN, Reconnect(resuming)
      PROVE  BudgetInv'
  <2>1. CASE resuming
    BY <1>4, <2>1, BudgetUndisturbed DEF Reconnect, Kept
  <2>2. CASE ~resuming
    <3>1. sentAt' = <<>> /\ log' = <<>> /\ now' = now
      BY <1>4, <2>2 DEF Reconnect, Kept
    <3> QED
      BY <3>1, NothingRemembered DEF BudgetInv, Tracks, WithinBudget
  <2> QED
    BY <2>1, <2>2
<1>5. CASE Tick
  <2>1. now' = now + 1 /\ sentAt' = sentAt /\ log' = log
    BY <1>5 DEF Tick
  <2>2. \A i \in 1..Len(log) : log[i] \in Nat
    BY DEF BudgetInv, Tracks
  <2>3. Window \in Nat /\ now \in Nat
    BY PacerAssumption DEF BudgetInv
  <2>4. ASSUME NEW i \in 1..(Len(log) - Len(sentAt))
        PROVE  log[i] + Window <= now + 1
    <3>1. log[i] + Window <= now /\ i \in 1..Len(log)
      BY DEF BudgetInv, Tracks
    <3> QED
      BY <3>1, <2>2, <2>3
  <2>5. ASSUME NEW i \in 1..Len(log)
        PROVE  log[i] <= now + 1
    BY <2>2, <2>3 DEF BudgetInv, Tracks
  <2> QED
    BY <2>1, <2>3, <2>4, <2>5 DEF BudgetInv, Tracks, WithinBudget
<1>6. ASSUME NEW c \in Commands, Refuse(c) \/ Cancel(c)
      PROVE  BudgetInv'
  BY <1>6, BudgetUndisturbed DEF Refuse, Cancel
<1>7. CASE Wake \/ Slept \/ SocketCloses \/ Close \/ UNCHANGED vars
  BY <1>7, BudgetUndisturbed DEF Wake, Slept, SocketCloses, Close, vars
<1> QED
  BY <1>1, <1>2, <1>3, <1>4, <1>5, <1>6, <1>7 DEF Next

LEMMA BudgetInit == Init => BudgetInv
BY DEF Init, BudgetInv, Tracks, WithinBudget

\* "One per-session budget of applicationCommandBudget sends in any rolling commandWindowMs window,
\* retained across Resume and reset for Identify" (commands.ts:6-8), for every budget and window.
THEOREM BudgetKept == Spec => []WithinBudget
<1>1. Init => BudgetInv
  BY BudgetInit
<1>2. BudgetInv /\ [Next]_vars => BudgetInv'
  BY BudgetStep
<1>3. BudgetInv => WithinBudget
  BY DEF BudgetInv
<1> QED
  BY <1>1, <1>2, <1>3, PTL DEF Spec

-----------------------------------------------------------------------------
(* The queue and its counters *)

Waiting == {c \in Commands : fate[c] = "queued"}

\* The queue holds the waiting commands, each once, and the counters count them.
QueueInv ==
    /\ fate \in [Commands -> Fates]
    /\ queue \in Seq(Commands) /\ IsInjective(queue) /\ Range(queue) = Waiting
    /\ Counts(Waiting, Application, pendingApplication, pendingInternal)

LEMMA CountersCount ==
    ASSUME Counts(Waiting, Application, pendingApplication, pendingInternal)
    PROVE  CountersExact
<1>1. /\ {c \in Commands : fate[c] = "queued" /\ c \in Application} = Waiting \cap Application
      /\ {c \in Commands : fate[c] = "queued" /\ c \notin Application} = Waiting \ Application
  BY DEF Waiting
<1> QED
  BY <1>1 DEF Counts, CountersExact

LEMMA CommandEnters ==
    ASSUME QueueInv, NEW c \in Commands, c \notin Waiting, Count(c, 1)
    PROVE  Counts(Waiting \cup {c}, Application, pendingApplication', pendingInternal')
<1>1. pendingApplication \in Nat /\ pendingInternal \in Nat
  BY CountsNat DEF QueueInv
<1>2. CASE c \in Application
  <2>1. pendingApplication' = pendingApplication + 1 /\ pendingInternal' = pendingInternal
    BY <1>1, <1>2 DEF Count
  <2> QED
    BY <1>2, <2>1, EnterClass DEF QueueInv
<1>3. CASE c \notin Application
  <2>1. pendingApplication' = pendingApplication /\ pendingInternal' = pendingInternal + 1
    BY <1>1, <1>3 DEF Count
  <2> QED
    BY <1>3, <2>1, EnterRest DEF QueueInv
<1> QED
  BY <1>2, <1>3

LEMMA CommandLeaves ==
    ASSUME QueueInv, NEW c \in Waiting, Count(c, -1)
    PROVE  Counts(Waiting \ {c}, Application, pendingApplication', pendingInternal')
<1>1. pendingApplication \in Nat /\ pendingInternal \in Nat
  BY CountsNat DEF QueueInv
<1>2. CASE c \in Application
  <2>1. pendingApplication' = pendingApplication - 1 /\ pendingInternal' = pendingInternal
    BY <1>1, <1>2 DEF Count
  <2> QED
    BY <1>2, <2>1, LeaveClass DEF QueueInv
<1>3. CASE c \notin Application
  <2>1. pendingApplication' = pendingApplication /\ pendingInternal' = pendingInternal - 1
    BY <1>1, <1>3 DEF Count
  <2> QED
    BY <1>3, <2>1, LeaveRest DEF QueueInv
<1> QED
  BY <1>2, <1>3

\* The first element of a queue without duplicates leaves.
LEMMA TailInjective ==
    ASSUME NEW S, NEW s \in Seq(S), s # <<>>, IsInjective(s)
    PROVE  /\ Head(s) = s[1] /\ 1 \in 1..Len(s)
           /\ Tail(s) \in Seq(S) /\ Len(Tail(s)) = Len(s) - 1
           /\ \A j \in 1..(Len(s) - 1) : Tail(s)[j] = s[j + 1]
           /\ IsInjective(Tail(s)) /\ Range(Tail(s)) = Range(s) \ {Head(s)}
<1>1. /\ Head(s) = s[1] /\ 1 \in 1..Len(s)
      /\ Tail(s) \in Seq(S) /\ Len(Tail(s)) = Len(s) - 1
      /\ \A j \in 1..(Len(s) - 1) : Tail(s)[j] = s[j + 1]
  OBVIOUS
<1>2. DOMAIN s = 1..Len(s) /\ DOMAIN Tail(s) = 1..(Len(s) - 1) /\ Len(s) \in Nat
  BY <1>1
<1> DEFINE t == Tail(s)
<1> HIDE DEF t
<1>3. IsInjective(t)
  BY <1>1, <1>2 DEF IsInjective, t
<1>4. \A j \in 1..(Len(s) - 1) : t[j] \in Range(s) /\ t[j] # s[1]
  BY <1>1, <1>2 DEF IsInjective, Range, t
<1>5. ASSUME NEW k \in 1..Len(s), k # 1
      PROVE  \E j \in 1..(Len(s) - 1) : t[j] = s[k]
  <2>1. k - 1 \in 1..(Len(s) - 1) /\ (k - 1) + 1 = k
    BY <1>2, <1>5
  <2> QED
    BY <2>1, <1>1 DEF t
<1>6. Range(t) \subseteq Range(s) \ {s[1]}
  <2>1. DOMAIN t = 1..(Len(s) - 1)
    BY <1>2 DEF t
  <2> QED
    BY <2>1, <1>4 DEF Range
<1>7. ASSUME NEW x \in Range(s) \ {s[1]}
      PROVE  x \in Range(t)
  <2>1. PICK k \in 1..Len(s) : s[k] = x
    BY <1>2, <1>7 DEF Range
  <2>2. PICK j \in 1..(Len(s) - 1) : t[j] = s[k]
    BY <2>1, <1>5, <1>7
  <2>3. DOMAIN t = 1..(Len(s) - 1)
    BY <1>2 DEF t
  <2> QED
    BY <2>1, <2>2, <2>3 DEF Range
<1>8. Range(t) = Range(s) \ {Head(s)}
  BY <1>1, <1>6, <1>7
<1> QED
  BY <1>1, <1>3, <1>8 DEF t

\* A command that did not wait and does not wait now leaves the queue alone.
LEMMA QueueUndisturbed ==
    ASSUME QueueInv, UNCHANGED <<queue, counters>>, fate' \in [Commands -> Fates],
           \A c \in Commands : fate'[c] = "queued" <=> fate[c] = "queued"
    PROVE  QueueInv'
<1>1. Waiting' = Waiting
  BY DEF Waiting
<1> QED
  BY <1>1 DEF QueueInv, counters

LEMMA CommandTransmitted ==
    ASSUME QueueInv, NEW c \in Commands, NEW rest, Transmit(c, rest)
    PROVE  /\ fate' \in [Commands -> Fates] /\ fate'[c] \in {"sent", "failed"}
           /\ \A d \in Commands : d # c => fate'[d] = fate[d]
BY DEF QueueInv, Transmit, Fates

LEMMA QueueStep ==
    ASSUME QueueInv, [Next]_vars
    PROVE  QueueInv'
<1>1. ASSUME NEW c \in Commands, SendNow(c)
      PROVE  QueueInv'
  <2>1. PICK rest \in Rests : Transmit(c, rest)
    BY <1>1 DEF SendNow
  <2>2. fate[c] = "new" /\ UNCHANGED <<queue, counters>>
    BY <1>1 DEF SendNow
  <2> QED
    BY <2>1, <2>2, CommandTransmitted, QueueUndisturbed
<1>2. ASSUME NEW c \in Commands, Wait(c)
      PROVE  QueueInv'
  <2>1. /\ fate[c] = "new" /\ queue' = Append(queue, c) /\ Count(c, 1)
        /\ fate' = [fate EXCEPT ![c] = "queued"]
    BY <1>2 DEF Wait
  <2>2. c \notin Waiting /\ Waiting' = Waiting \cup {c} /\ fate' \in [Commands -> Fates]
    BY <2>1 DEF Waiting, QueueInv, Fates
  <2>3. /\ queue' \in Seq(Commands) /\ IsInjective(queue')
        /\ Range(queue') = Waiting'
    BY <2>1, <2>2, AppendNewElement DEF QueueInv
  <2> QED
    BY <2>1, <2>2, <2>3, CommandEnters DEF QueueInv
<1>3. ASSUME NEW c \in Commands, Cancel(c)
      PROVE  QueueInv'
  <2>1. fate[c] = "queued" /\ Count(c, -1) /\ fate' = [fate EXCEPT ![c] = "withdrawn"]
    BY <1>3 DEF Cancel, Cancellable
  <2>2. c \in Waiting /\ Waiting' = Waiting \ {c} /\ fate' \in [Commands -> Fates]
    BY <2>1 DEF Waiting, QueueInv, Fates
  <2>3. PICK i \in 1..Len(queue) : queue[i] = c /\ queue' = RemoveAt(queue, i)
    <3>1. \E i \in 1..Len(queue) : queue[i] = c
      BY <2>2 DEF QueueInv, Range
    <3> QED
      BY <1>3, <3>1 DEF Cancel
  <2>4. queue' \in Seq(Commands) /\ IsInjective(queue') /\ Range(queue') = Waiting'
    BY <2>2, <2>3, RemoveAtIs, RemoveAtInjective DEF QueueInv
  <2> QED
    BY <2>1, <2>2, <2>4, CommandLeaves DEF QueueInv
<1>4. CASE Look
  <2>1. CASE UNCHANGED <<queue, counters, fate>>
    BY <2>1, QueueUndisturbed DEF QueueInv
  <2>2. ASSUME queue # <<>>, NEW rest \in Rests, Transmit(Head(queue), rest),
               queue' = Tail(queue), Count(Head(queue), -1)
        PROVE  QueueInv'
    <3>1. /\ queue' \in Seq(Commands) /\ IsInjective(queue')
          /\ Range(queue') = Waiting \ {Head(queue)} /\ Head(queue) \in Waiting
      <4>1. queue \in Seq(Commands) /\ IsInjective(queue) /\ Range(queue) = Waiting
        BY DEF QueueInv
      <4>2. /\ Tail(queue) \in Seq(Commands) /\ IsInjective(Tail(queue))
            /\ Range(Tail(queue)) = Range(queue) \ {Head(queue)}
            /\ Head(queue) = queue[1] /\ 1 \in 1..Len(queue)
        BY <2>2, <4>1, TailInjective
      <4>3. Head(queue) \in Range(queue)
        BY <4>1, <4>2 DEF Range
      <4> QED
        BY <2>2, <4>1, <4>2, <4>3
    <3>2. Head(queue) \in Commands
      BY <3>1 DEF Waiting
    <3>3. fate' \in [Commands -> Fates] /\ Waiting' = Waiting \ {Head(queue)}
      BY <2>2, <3>2, CommandTransmitted DEF Waiting
    <3> QED
      BY <2>2, <3>1, <3>3, CommandLeaves DEF QueueInv
  <2> QED
    BY <1>4, <2>1, <2>2 DEF Look
<1>5. CASE Close
  <2>1. /\ fate' = [c \in Commands |-> IF fate[c] = "queued" THEN "failed" ELSE fate[c]]
        /\ queue' = <<>> /\ pendingApplication' = 0 /\ pendingInternal' = 0
    BY <1>5 DEF Close
  <2>2. fate' \in [Commands -> Fates] /\ Waiting' = {}
    BY <2>1 DEF Waiting, QueueInv, Fates
  <2>3. Counts({}, Application, 0, 0)
    BY FS_EmptySet DEF Counts
  <2>4. queue' \in Seq(Commands) /\ IsInjective(queue') /\ Range(queue') = {}
    BY <2>1 DEF IsInjective, Range
  <2> QED
    BY <2>1, <2>2, <2>3, <2>4 DEF QueueInv
<1>6. ASSUME NEW c \in Commands, Refuse(c)
      PROVE  QueueInv'
  <2>1. fate[c] = "new" /\ fate' = [fate EXCEPT ![c] = "refused"] /\ UNCHANGED <<queue, counters>>
    BY <1>6 DEF Refuse
  <2>2. fate' \in [Commands -> Fates]
    BY <2>1 DEF QueueInv, Fates
  <2> QED
    BY <2>1, <2>2, QueueUndisturbed DEF QueueInv
<1>7. CASE Wake \/ Slept \/ SocketCloses \/ Tick \/ UNCHANGED vars \/ Reconnect(TRUE) \/ Reconnect(FALSE)
  <2>1. UNCHANGED <<queue, counters, fate>>
    BY <1>7 DEF Wake, Slept, SocketCloses, Tick, vars, Reconnect
  <2> QED
    BY <2>1, QueueUndisturbed DEF QueueInv
<1> QED
  BY <1>1, <1>2, <1>3, <1>4, <1>5, <1>6, <1>7 DEF Next

LEMMA QueueInit == Init => QueueInv
<1> SUFFICES ASSUME Init PROVE QueueInv
  OBVIOUS
<1>1. Waiting = {} /\ fate \in [Commands -> Fates]
  BY DEF Init, Waiting, Fates
<1>2. Counts({}, Application, 0, 0)
  BY FS_EmptySet DEF Counts
<1>3. queue \in Seq(Commands) /\ IsInjective(queue) /\ Range(queue) = {}
  BY DEF Init, IsInjective, Range
<1> QED
  BY <1>1, <1>2, <1>3 DEF Init, QueueInv

\* The limits of waiting commands count what waits: no command is released twice or leaks a place.
THEOREM CountersAreExact == Spec => []CountersExact
<1>1. QueueInv => CountersExact
  BY CountersCount DEF QueueInv
<1> QED
  BY <1>1, QueueInit, QueueStep, PTL DEF Spec

-----------------------------------------------------------------------------
(* Submission order *)

\* Of two waiting commands, the one taken first is ahead in the queue.
Ordered ==
    \A m, n \in 1..Len(accepted), i, j \in 1..Len(queue) :
        m < n /\ accepted[m] = queue[i] /\ accepted[n] = queue[j] => i < j

\* The inductive invariant of SubmissionOrder, beside QueueInv: a command is taken once.
OrderInv ==
    /\ accepted \in Seq(Commands) /\ IsInjective(accepted)
    /\ \A n \in 1..Len(accepted) : fate[accepted[n]] # "new"
    /\ Ordered /\ SubmissionOrder

LEMMA AppendIs ==
    ASSUME NEW S, NEW s \in Seq(S), NEW e \in S
    PROVE  /\ Append(s, e) \in Seq(S) /\ Len(Append(s, e)) = Len(s) + 1 /\ Len(s) \in Nat
           /\ \A n \in 1..Len(s) : Append(s, e)[n] = s[n]
           /\ Append(s, e)[Len(s) + 1] = e
OBVIOUS

\* The commands taken stay as they are, and none of them begins to wait or is sent.
LEMMA OrderUndisturbed ==
    ASSUME QueueInv, OrderInv, UNCHANGED <<accepted, queue>>,
           \A c \in Commands : /\ fate[c] # "new" => fate'[c] # "new"
                               /\ fate'[c] = "queued" => fate[c] = "queued"
                               /\ fate'[c] = "sent" => fate[c] \in {"sent", "new"}
    PROVE  OrderInv'
<1>1. \A n \in 1..Len(accepted) : accepted[n] \in Commands
  BY DEF OrderInv
<1>2. Ordered'
  BY DEF OrderInv, Ordered
<1>3. SubmissionOrder'
  BY <1>1 DEF OrderInv, SubmissionOrder
<1> QED
  BY <1>1, <1>2, <1>3 DEF OrderInv

\* A command is taken: it is the last of those taken.
LEMMA OrderTaken ==
    ASSUME OrderInv, QueueInv, NEW c \in Commands, fate[c] = "new",
           accepted' = Append(accepted, c)
    PROVE  /\ accepted' \in Seq(Commands) /\ IsInjective(accepted')
           /\ Len(accepted') = Len(accepted) + 1 /\ Len(accepted) \in Nat
           /\ \A n \in 1..Len(accepted) : accepted'[n] = accepted[n] /\ accepted[n] \in Commands \ {c}
           /\ accepted'[Len(accepted) + 1] = c
<1>1. accepted \in Seq(Commands) /\ \A n \in 1..Len(accepted) : fate[accepted[n]] # "new"
  BY DEF OrderInv
<1>2. \A n \in 1..Len(accepted) : accepted[n] \in Commands \ {c}
  BY <1>1
<1>3. c \notin Range(accepted)
  BY <1>1, <1>2 DEF Range
<1>4. IsInjective(accepted')
  BY <1>1, <1>3, AppendNewElement DEF OrderInv
<1> QED
  BY <1>1, <1>2, <1>4, AppendIs

LEMMA OrderSendNow ==
    ASSUME QueueInv, OrderInv, NEW c \in Commands, SendNow(c)
    PROVE  OrderInv'
<1>1. PICK rest \in Rests : MaySendNow(rest) /\ Transmit(c, rest)
  BY DEF SendNow
<1>2. /\ queue = <<>> /\ queue' = <<>> /\ fate[c] = "new"
      /\ accepted' = Append(accepted, c)
  BY <1>1 DEF SendNow, MaySendNow
<1>3. \A d \in Commands : fate[d] # "queued"
  BY <1>2 DEF QueueInv, Range, Waiting
<1>4. /\ fate'[c] \in {"sent", "failed"}
      /\ \A d \in Commands : d # c => fate'[d] = fate[d]
  BY <1>1, CommandTransmitted
<1>5. \A d \in Commands : fate'[d] # "queued"
  BY <1>3, <1>4
<1>6. /\ accepted' \in Seq(Commands) /\ IsInjective(accepted')
      /\ Len(accepted') = Len(accepted) + 1 /\ Len(accepted) \in Nat
      /\ \A n \in 1..Len(accepted) : accepted'[n] = accepted[n] /\ accepted[n] \in Commands \ {c}
      /\ accepted'[Len(accepted) + 1] = c
  BY <1>2, OrderTaken
<1>7. ASSUME NEW n \in 1..Len(accepted')
      PROVE  accepted'[n] \in Commands /\ fate'[accepted'[n]] # "new"
  <2>1. n \in 1..Len(accepted) \/ n = Len(accepted) + 1
    BY <1>6, <1>7
  <2> QED
    BY <2>1, <1>6, <1>4 DEF OrderInv
<1>8. Ordered'
  BY <1>2 DEF Ordered
<1>9. SubmissionOrder'
  BY <1>5, <1>7 DEF SubmissionOrder
<1> QED
  BY <1>6, <1>7, <1>8, <1>9 DEF OrderInv

LEMMA OrderWait ==
    ASSUME QueueInv, OrderInv, NEW c \in Commands, Wait(c)
    PROVE  OrderInv'
<1>1. /\ fate[c] = "new" /\ queue' = Append(queue, c) /\ accepted' = Append(accepted, c)
      /\ fate' = [fate EXCEPT ![c] = "queued"]
  BY DEF Wait
<1>2. /\ fate'[c] = "queued" /\ \A d \in Commands : d # c => fate'[d] = fate[d]
  BY <1>1 DEF QueueInv
<1>3. /\ accepted' \in Seq(Commands) /\ IsInjective(accepted')
      /\ Len(accepted') = Len(accepted) + 1 /\ Len(accepted) \in Nat
      /\ \A n \in 1..Len(accepted) : accepted'[n] = accepted[n] /\ accepted[n] \in Commands \ {c}
      /\ accepted'[Len(accepted) + 1] = c
  BY <1>1, OrderTaken
<1>4. /\ Len(queue') = Len(queue) + 1 /\ Len(queue) \in Nat
      /\ \A i \in 1..Len(queue) : queue'[i] = queue[i] /\ queue[i] # c
      /\ queue'[Len(queue) + 1] = c
  <2>1. queue \in Seq(Commands) /\ \A i \in 1..Len(queue) : queue[i] \in Waiting
    BY DEF QueueInv, Range
  <2>2. c \notin Waiting
    BY <1>1 DEF Waiting
  <2> QED
    BY <1>1, <2>1, <2>2, AppendIs
<1>5. ASSUME NEW n \in 1..Len(accepted')
      PROVE  n \in 1..Len(accepted) \/ n = Len(accepted) + 1
  BY <1>3, <1>5
<1>6. ASSUME NEW n \in 1..Len(accepted')
      PROVE  fate'[accepted'[n]] # "new"
  BY <1>5, <1>6, <1>3, <1>2 DEF OrderInv
<1>7. ASSUME NEW m \in 1..Len(accepted'), NEW n \in 1..Len(accepted'),
             NEW i \in 1..Len(queue'), NEW j \in 1..Len(queue'),
             m < n, accepted'[m] = queue'[i], accepted'[n] = queue'[j]
      PROVE  i < j
  <2>1. m \in 1..Len(accepted) /\ accepted'[m] = accepted[m] /\ accepted[m] # c
    BY <1>3, <1>7
  <2>2. i \in 1..Len(queue) /\ queue'[i] = queue[i]
    <3>1. i # Len(queue) + 1
      BY <1>7, <1>4, <2>1
    <3> QED
      BY <3>1, <1>4, <1>7
  <2>3. CASE n = Len(accepted) + 1
    <3>1. j = Len(queue) + 1
      BY <1>3, <1>4, <1>7, <2>3
    <3> QED
      BY <3>1, <2>2, <1>4
  <2>4. CASE n \in 1..Len(accepted)
    <3>1. j \in 1..Len(queue) /\ accepted[n] = queue[j]
      <4>1. accepted'[n] = accepted[n] /\ accepted[n] # c
        BY <2>4, <1>3
      <4>2. j # Len(queue) + 1
        BY <4>1, <1>4, <1>7
      <4>3. j \in 1..Len(queue)
        BY <4>2, <1>4, <1>7
      <4> QED
        BY <4>1, <4>3, <1>4, <1>7
    <3> QED
      BY <3>1, <2>1, <2>2, <2>4, <1>7 DEF OrderInv, Ordered
  <2> QED
    BY <2>3, <2>4, <1>5
<1>8. ASSUME NEW m \in 1..Len(accepted'), NEW n \in 1..Len(accepted'),
             m < n, fate'[accepted'[m]] = "queued"
      PROVE  fate'[accepted'[n]] # "sent"
  <2>1. m \in 1..Len(accepted) /\ accepted'[m] = accepted[m] /\ accepted[m] \in Commands \ {c}
    BY <1>3, <1>8
  <2>2. CASE n = Len(accepted) + 1
    BY <2>2, <1>2, <1>3
  <2>3. CASE n \in 1..Len(accepted)
    BY <2>1, <2>3, <1>2, <1>3, <1>8 DEF OrderInv, SubmissionOrder
  <2> QED
    BY <2>2, <2>3, <1>5
<1>9. Ordered' /\ SubmissionOrder'
  BY <1>7, <1>8 DEF Ordered, SubmissionOrder
<1> QED
  BY <1>3, <1>6, <1>9 DEF OrderInv

\* A command leaves the queue, and those behind it move up.
LEMMA OrderKept ==
    ASSUME QueueInv, OrderInv, accepted' = accepted, NEW k \in 1..Len(queue),
           Len(queue') = Len(queue) - 1,
           \A j \in 1..(Len(queue) - 1) : queue'[j] = IF j < k THEN queue[j] ELSE queue[j + 1]
    PROVE  Ordered'
<1> DEFINE before(j) == IF j < k THEN j ELSE j + 1
<1>1. Len(queue) \in Nat
  BY DEF QueueInv
<1>2. ASSUME NEW j \in 1..Len(queue')
      PROVE  before(j) \in 1..Len(queue) /\ queue'[j] = queue[before(j)]
  BY <1>1, <1>2
<1>3. ASSUME NEW m \in 1..Len(accepted), NEW n \in 1..Len(accepted),
             NEW i \in 1..Len(queue'), NEW j \in 1..Len(queue'),
             m < n, accepted[m] = queue'[i], accepted[n] = queue'[j]
      PROVE  i < j
  <2>1. before(i) \in 1..Len(queue) /\ before(j) \in 1..Len(queue)
        /\ accepted[m] = queue[before(i)] /\ accepted[n] = queue[before(j)]
    BY <1>2, <1>3
  <2>2. before(i) < before(j)
    <3> HIDE DEF before
    <3> QED
      BY <2>1, <1>3 DEF OrderInv, Ordered
  <2> QED
    BY <2>2, <1>1, <1>3
<1> QED
  BY <1>3 DEF Ordered

LEMMA OrderCancel ==
    ASSUME QueueInv, OrderInv, NEW c \in Commands, Cancel(c)
    PROVE  OrderInv'
<1>1. fate[c] = "queued" /\ fate' = [fate EXCEPT ![c] = "withdrawn"] /\ accepted' = accepted
  BY DEF Cancel, Cancellable
<1>2. PICK k \in 1..Len(queue) : queue[k] = c /\ queue' = RemoveAt(queue, k)
  <2>1. \E k \in 1..Len(queue) : queue[k] = c
    BY <1>1 DEF QueueInv, Range, Waiting
  <2> QED
    BY <2>1 DEF Cancel
<1>3. Ordered'
  <2>1. /\ Len(queue') = Len(queue) - 1
        /\ \A j \in 1..(Len(queue) - 1) : queue'[j] = IF j < k THEN queue[j] ELSE queue[j + 1]
    BY <1>2, RemoveAtIs DEF QueueInv
  <2> QED
    BY <2>1, <1>1, OrderKept
<1>4. /\ fate'[c] = "withdrawn" /\ \A d \in Commands : d # c => fate'[d] = fate[d]
  BY <1>1 DEF QueueInv
<1>5. \A n \in 1..Len(accepted) : accepted[n] \in Commands
  BY DEF OrderInv
<1>6. SubmissionOrder' /\ \A n \in 1..Len(accepted) : fate'[accepted[n]] # "new"
  BY <1>1, <1>4, <1>5 DEF OrderInv, SubmissionOrder
<1> QED
  BY <1>1, <1>3, <1>6 DEF OrderInv

\* The head of the queue is sent or fails: nothing taken before it waits.
LEMMA OrderDispatch ==
    ASSUME QueueInv, OrderInv, queue # <<>>, NEW rest, Transmit(Head(queue), rest),
           queue' = Tail(queue), accepted' = accepted
    PROVE  OrderInv'
<1>1. queue \in Seq(Commands) /\ IsInjective(queue) /\ Range(queue) = Waiting
  BY DEF QueueInv
<1>2. /\ Head(queue) = queue[1] /\ 1 \in 1..Len(queue) /\ Len(queue') = Len(queue) - 1
      /\ \A j \in 1..(Len(queue) - 1) : queue'[j] = queue[j + 1]
  BY <1>1, TailInjective
<1> DEFINE c == queue[1]
<1> HIDE DEF c
<1>3. c \in Commands /\ Transmit(c, rest)
  BY <1>1, <1>2 DEF c
<1>4. /\ fate'[c] \in {"sent", "failed"} /\ \A d \in Commands : d # c => fate'[d] = fate[d]
  BY <1>3, CommandTransmitted
<1>5. Ordered'
  BY <1>2, OrderKept
<1>6. \A n \in 1..Len(accepted) : accepted[n] \in Commands
  BY DEF OrderInv
<1>7. ASSUME NEW m \in 1..Len(accepted), NEW n \in 1..Len(accepted),
             m < n, fate'[accepted[m]] = "queued"
      PROVE  fate'[accepted[n]] # "sent"
  <2>1. accepted[m] # c /\ fate[accepted[m]] = "queued"
    BY <1>4, <1>6, <1>7
  <2>2. CASE accepted[n] # c
    BY <2>1, <2>2, <1>4, <1>6, <1>7 DEF OrderInv, SubmissionOrder
  <2>3. CASE accepted[n] = c
    <3>1. PICK i \in 1..Len(queue) : queue[i] = accepted[m]
      BY <2>1, <1>1, <1>6 DEF Waiting, Range
    <3>2. i < 1
      BY <3>1, <2>3, <1>2, <1>7 DEF OrderInv, Ordered, c
    <3> QED
      BY <3>2
  <2> QED
    BY <2>2, <2>3
<1>8. SubmissionOrder' /\ \A n \in 1..Len(accepted) : fate'[accepted[n]] # "new"
  BY <1>4, <1>6, <1>7 DEF OrderInv, SubmissionOrder
<1> QED
  BY <1>5, <1>8 DEF OrderInv

LEMMA OrderStep ==
    ASSUME QueueInv, OrderInv, [Next]_vars
    PROVE  OrderInv'
<1>1. ASSUME NEW c \in Commands, Refuse(c)
      PROVE  OrderInv'
  <2>1. UNCHANGED <<accepted, queue>> /\ fate[c] = "new" /\ fate' = [fate EXCEPT ![c] = "refused"]
    BY <1>1 DEF Refuse
  <2>2. /\ fate'[c] = "refused" /\ \A d \in Commands : d # c => fate'[d] = fate[d]
    BY <2>1 DEF QueueInv
  <2> QED
    BY <2>1, <2>2, OrderUndisturbed
<1>2. CASE Look
  <2>1. CASE UNCHANGED <<queue, fate, accepted>>
    BY <2>1, OrderUndisturbed
  <2>2. ASSUME queue # <<>>, NEW rest \in Rests, Transmit(Head(queue), rest), queue' = Tail(queue)
        PROVE  OrderInv'
    BY <1>2, <2>2, OrderDispatch DEF Look
  <2> QED
    BY <1>2, <2>1, <2>2 DEF Look
<1>3. CASE Close
  <2>1. /\ fate' = [c \in Commands |-> IF fate[c] = "queued" THEN "failed" ELSE fate[c]]
        /\ queue' = <<>> /\ accepted' = accepted
    BY <1>3 DEF Close
  <2>2. \A n \in 1..Len(accepted) : accepted[n] \in Commands
    BY DEF OrderInv
  <2>3. Ordered'
    BY <2>1 DEF Ordered
  <2>4. SubmissionOrder' /\ \A n \in 1..Len(accepted) : fate'[accepted[n]] # "new"
    BY <2>1, <2>2 DEF OrderInv, SubmissionOrder
  <2> QED
    BY <2>1, <2>3, <2>4 DEF OrderInv
<1>4. ASSUME NEW resuming \in BOOLEAN, Reconnect(resuming)
      PROVE  OrderInv'
  <2>1. accepted' = <<>>
    BY <1>4 DEF Reconnect
  <2> QED
    BY <2>1 DEF OrderInv, Ordered, SubmissionOrder, IsInjective
<1>5. CASE Wake \/ Slept \/ SocketCloses \/ Tick \/ UNCHANGED vars
  <2>1. UNCHANGED <<accepted, queue, fate>>
    BY <1>5 DEF Wake, Slept, SocketCloses, Tick, vars
  <2> QED
    BY <2>1, OrderUndisturbed
<1> QED
  BY <1>1, <1>2, <1>3, <1>4, <1>5, OrderSendNow, OrderWait, OrderCancel DEF Next

LEMMA OrderInit == Init => OrderInv
BY DEF Init, OrderInv, Ordered, SubmissionOrder, IsInjective

\* For any number of commands: while one waits, none that was taken after it is sent.
THEOREM SentInOrder == Spec => []SubmissionOrder
<1>1. QueueInv /\ OrderInv => SubmissionOrder
  BY DEF OrderInv
<1>2. Init => QueueInv /\ OrderInv
  BY QueueInit, OrderInit
<1>3. QueueInv /\ OrderInv /\ [Next]_vars => QueueInv' /\ OrderInv'
  BY QueueStep, OrderStep
<1> QED
  BY <1>1, <1>2, <1>3, PTL DEF Spec

-----------------------------------------------------------------------------
(* Types *)

\* What the other invariants leave open of TypeOk
TypeInv ==
    /\ pendingApplication <= MaxPending /\ pendingInternal <= MaxPending
    /\ closed \in BOOLEAN /\ open \in BOOLEAN
    /\ loop \in {"waiting", "looking", "sleeping"} /\ wake \in BOOLEAN /\ wakeAt \in Nat

LEMMA CounterMoves ==
    ASSUME QueueInv, TypeInv, NEW c \in Commands, NEW change \in {-1, 1}, Count(c, change),
           change = 1 => Pending(c) < MaxPending
    PROVE  pendingApplication' <= MaxPending /\ pendingInternal' <= MaxPending
<1>1. pendingApplication \in Nat /\ pendingInternal \in Nat /\ MaxPending \in Nat
  BY CountsNat, PacerAssumption DEF QueueInv
<1>2. CASE c \in Application
  BY <1>1, <1>2 DEF Count, Pending, TypeInv
<1>3. CASE c \notin Application
  BY <1>1, <1>3 DEF Count, Pending, TypeInv
<1> QED
  BY <1>2, <1>3

LEMMA TypeStep ==
    ASSUME BudgetInv, QueueInv, TypeInv, [Next]_vars
    PROVE  TypeInv'
<1>1. ASSUME NEW c \in Commands, Wait(c)
      PROVE  TypeInv'
  <2>1. pendingApplication' <= MaxPending /\ pendingInternal' <= MaxPending
    BY <1>1, CounterMoves DEF Wait
  <2> QED
    BY <1>1, <2>1 DEF Wait, WakesLoop, TypeInv
<1>2. ASSUME NEW c \in Commands, Cancel(c)
      PROVE  TypeInv'
  <2>1. pendingApplication' <= MaxPending /\ pendingInternal' <= MaxPending
    BY <1>2, CounterMoves DEF Cancel
  <2> QED
    BY <1>2, <2>1 DEF Cancel, TypeInv, looping
<1>3. ASSUME NEW c \in Commands, SendNow(c) \/ Refuse(c)
      PROVE  TypeInv'
  BY <1>3 DEF SendNow, Refuse, TypeInv, counters, looping
<1>4. CASE Look
  <2>1. CASE queue = <<>> \/ closed
    BY <1>4, <2>1 DEF Look, TypeInv, counters
  <2>2. ASSUME queue # <<>>, NEW rest \in Rests, Count(Head(queue), -1), UNCHANGED <<loop, wakeAt>>
        PROVE  TypeInv'
    <3>1. Head(queue) \in Commands
      BY <2>2 DEF QueueInv
    <3>2. pendingApplication' <= MaxPending /\ pendingInternal' <= MaxPending
      BY <2>2, <3>1, CounterMoves
    <3> QED
      BY <1>4, <2>2, <3>2 DEF Look, TypeInv
  <2>3. ASSUME NEW rest \in Rests, Len(rest) >= Budget, loop' = "sleeping", wakeAt' = rest[1] + Window,
               UNCHANGED counters
        PROVE  TypeInv'
    <3>1. rest \in Seq(Nat) /\ Len(rest) \in Nat
      BY <2>3, RestTracks DEF Tracks
    <3>2. Budget \in Nat \ {0} /\ Window \in Nat
      BY PacerAssumption
    <3>3. 1 \in 1..Len(rest)
      BY <2>3, <3>1, <3>2
    <3>4. rest[1] + Window \in Nat
      BY <3>1, <3>2, <3>3
    <3> QED
      BY <1>4, <2>3, <3>4 DEF Look, TypeInv, counters
  <2> QED
    BY <1>4, <2>1, <2>2, <2>3 DEF Look, counters
<1>5. CASE Close
  BY <1>5, PacerAssumption DEF Close, TypeInv, looping
<1>6. CASE Wake \/ Slept \/ SocketCloses \/ Tick \/ UNCHANGED vars
  BY <1>6 DEF Wake, Slept, SocketCloses, Tick, vars, TypeInv, counters, looping
<1>7. ASSUME NEW resuming \in BOOLEAN, Reconnect(resuming)
      PROVE  TypeInv'
  BY <1>7 DEF Reconnect, TypeInv, counters
<1> QED
  BY <1>1, <1>2, <1>3, <1>4, <1>5, <1>6, <1>7 DEF Next

\* The pacer keeps its types, and the places for waiting commands never exceed their limit.
THEOREM Typing == Spec => []TypeOk
<1>1. ASSUME BudgetInv, QueueInv, OrderInv, TypeInv
      PROVE  TypeOk
  <2>1. pendingApplication \in 0..MaxPending /\ pendingInternal \in 0..MaxPending
    <3>1. pendingApplication \in Nat /\ pendingInternal \in Nat
      BY <1>1, CountsNat DEF QueueInv
    <3> QED
      BY <3>1, <1>1, PacerAssumption DEF TypeInv
  <2> QED
    BY <1>1, <2>1 DEF TypeOk, BudgetInv, Tracks, QueueInv, OrderInv, TypeInv
<1>2. Init => TypeInv
  <2> SUFFICES ASSUME Init PROVE TypeInv
    OBVIOUS
  <2>1. pendingApplication <= MaxPending /\ pendingInternal <= MaxPending /\ wakeAt \in Nat
    BY PacerAssumption DEF Init
  <2>2. closed \in BOOLEAN /\ open \in BOOLEAN /\ wake \in BOOLEAN
    BY Zenon DEF Init
  <2>3. loop \in {"waiting", "looking", "sleeping"}
    BY DEF Init
  <2> QED
    BY <2>1, <2>2, <2>3 DEF TypeInv
<1>3. Init => BudgetInv /\ QueueInv /\ OrderInv /\ TypeInv
  BY <1>2, BudgetInit, QueueInit, OrderInit
<1>4. BudgetInv /\ QueueInv /\ OrderInv /\ TypeInv /\ [Next]_vars
        => BudgetInv' /\ QueueInv' /\ OrderInv' /\ TypeInv'
  BY BudgetStep, QueueStep, OrderStep, TypeStep
<1> QED
  BY <1>1, <1>3, <1>4, PTL DEF Spec

=============================================================================
