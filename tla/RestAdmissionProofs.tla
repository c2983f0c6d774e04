------------------------ MODULE RestAdmissionProofs ------------------------
(* Proofs about RestAdmission: its invariants, and that it implements AdmissionGate *)
EXTENDS RestAdmission, DataLemmas

\* Only an attempt that entered was tested or answered.
HistoryExact == \A r \in tested \cup answered : stage[r] \in {"admitted", "released"}

\* The inductive invariant.  SlotsExact needs QueueExact, because the request the pump
\* admits must not be admitted already; SingleProbe needs HistoryExact, because it must be
\* untested and unanswered.
IInv == TypeOK /\ QueueExact /\ SlotsExact /\ HistoryExact /\ SingleProbe

-----------------------------------------------------------------------------
(* Lemmas about steps that several actions share *)

LEMMA NeverNat == Never \in Nat /\ NoTimer \in Int /\ NoTimer \notin Nat
BY LimitsAssumption DEF Never, NoTimer

LEMMA PumpType ==
    ASSUME TypeOK, NEW own \in Requests \cup {Nobody}, Pump(own)
    PROVE  /\ timer' \in Nat \cup {NoTimer} /\ stray' \subseteq Nat
           /\ frames' \in Seq(FrameType)
<1>1. [index |-> 1, earliest |-> Never, own |-> own, calling |-> FALSE] \in FrameType
  BY NeverNat DEF FrameType
<1> QED
  BY <1>1 DEF Pump, TypeOK

LEMMA TopType ==
    ASSUME TypeOK, ~Idle
    PROVE  /\ Len(frames) \in 1..Len(frames) /\ Len(frames) \in Nat
           /\ Top \in FrameType /\ Top.index \in Nat \ {0} /\ Top.earliest \in Nat
<1>1. Len(frames) \in 1..Len(frames) /\ Len(frames) \in Nat
  BY DEF TypeOK, Idle
<1>2. Top \in FrameType
  BY <1>1 DEF TypeOK, Top
<1> QED
  BY <1>1, <1>2 DEF FrameType

\* The candidate of the pump is a waiting request.
LEMMA CandidateQueued ==
    ASSUME TypeOK, QueueExact, AtCandidate
    PROVE  /\ Top.index \in 1..Len(pending)
           /\ Candidate \in Requests /\ stage[Candidate] = "queued"
<1>1. Top.index \in 1..Len(pending)
  BY TopType DEF AtCandidate, Scanning, TypeOK
<1>2. Candidate \in Range(pending)
  BY <1>1 DEF Candidate, Range, TypeOK
<1> QED
  BY <1>1, <1>2 DEF QueueExact, Queued

LEMMA ResumedType ==
    ASSUME TypeOK, ~Idle, NEW r
    PROVE  Resumed(r) \in Seq(FrameType)
<1> DEFINE back == \A f \in 1..Len(frames) : frames[f].own # r
<1>1. [Top EXCEPT !.calling = back] \in FrameType
  BY TopType DEF FrameType
<1>2. Resumed(r) = [frames EXCEPT ![Len(frames)] = [Top EXCEPT !.calling = back]]
  BY DEF Resumed, Top
<1> HIDE DEF back
<1> QED
  BY <1>1, <1>2, TopType DEF TypeOK

LEMMA DequeueExact ==
    ASSUME TypeOK, QueueExact, NEW i \in 1..Len(pending), Dequeue(i)
    PROVE  /\ pending' \in Seq(Requests) /\ bytes' \in Int
           /\ IsInjective(pending') /\ Range(pending') = Queued \ {pending[i]}
<1>1. pending' \in Seq(Requests)
  BY RemoveAtIs DEF TypeOK, Dequeue
<1>2. IsInjective(pending') /\ Range(pending') = Queued \ {pending[i]}
  BY RemoveAtInjective DEF TypeOK, QueueExact, Dequeue
<1>3. bytes' \in Int
  BY AttributesAssumption DEF TypeOK, Dequeue
<1> QED
  BY <1>1, <1>2, <1>3

-----------------------------------------------------------------------------
(* Slot accounting of one request entering or leaving *)

LEMMA SlotsCount == SlotsExact <=> Counts(Admitted, Media, activeMedia, active)
<1>1. IsFiniteSet(Admitted)
  BY RequestsAssumption, FS_Subset DEF Admitted
<1> QED
  BY <1>1 DEF SlotsExact, Counts

LEMMA SlotsCountNext == SlotsExact' <=> Counts(Admitted', Media, activeMedia', active')
<1>1. IsFiniteSet(Admitted')
  BY RequestsAssumption, FS_Subset DEF Admitted
<1> QED
  BY <1>1 DEF SlotsExact, Counts

LEMMA TakeSlotExact ==
    ASSUME SlotsExact, NEW r, r \notin Admitted, TakeSlot(r), Admitted' = Admitted \cup {r}
    PROVE  SlotsExact' /\ active' \in Nat /\ activeMedia' \in Nat
<1>1. Counts(Admitted, Media, activeMedia, active)
  BY SlotsCount
<1>2. CASE r \in Media
  BY <1>1, <1>2, EnterClass, CountsNat, SlotsCountNext DEF TakeSlot
<1>3. CASE r \notin Media
  BY <1>1, <1>3, EnterRest, CountsNat, SlotsCountNext DEF TakeSlot
<1> QED
  BY <1>2, <1>3

LEMMA FreeSlotExact ==
    ASSUME SlotsExact, NEW r, r \in Admitted, FreeSlot(r), Admitted' = Admitted \ {r}
    PROVE  SlotsExact' /\ active' \in Nat /\ activeMedia' \in Nat
<1>1. Counts(Admitted, Media, activeMedia, active)
  BY SlotsCount
<1>2. CASE r \in Media
  BY <1>1, <1>2, LeaveClass, CountsNat, SlotsCountNext DEF FreeSlot
<1>3. CASE r \notin Media
  BY <1>1, <1>3, LeaveRest, CountsNat, SlotsCountNext DEF FreeSlot
<1> QED
  BY <1>2, <1>3

-----------------------------------------------------------------------------
(* Each action preserves the invariant *)

\* A request that is refused at once, or only waits, enters no other part of the invariant.
LEMMA StageOnly ==
    ASSUME IInv, NEW r \in Requests, NEW to \in Stages \ {"admitted", "released"},
           stage[r] \in {"idle", "queued"},
           stage' = [stage EXCEPT ![r] = to],
           UNCHANGED <<slotVars, probeVars, answered>>
    PROVE  SlotsExact' /\ HistoryExact' /\ SingleProbe' /\ stage' \in [Requests -> Stages]
<1>1. stage' \in [Requests -> Stages]
  BY DEF IInv, TypeOK
<1>2. Admitted' = Admitted
  BY DEF IInv, TypeOK, Admitted
<1>3. SlotsExact'
  BY <1>2 DEF IInv, SlotsExact, slotVars
<1>4. r \notin tested \cup answered
  BY DEF IInv, HistoryExact
<1>5. HistoryExact'
  BY <1>4 DEF IInv, TypeOK, HistoryExact, probeVars
<1>6. Testing' = Testing
  BY <1>4 DEF IInv, TypeOK, Testing, probeVars
<1>7. SingleProbe'
  BY <1>6 DEF IInv, SingleProbe, probeVars
<1> QED
  BY <1>1, <1>3, <1>5, <1>7

\* A step that leaves the queue, the stages and the probe alone.
LEMMA CoreUnchanged ==
    ASSUME IInv, UNCHANGED <<pending, slotVars, probeVars, stage, answered>>
    PROVE  QueueExact' /\ SlotsExact' /\ HistoryExact' /\ SingleProbe'
<1>1. Queued' = Queued /\ Admitted' = Admitted /\ Testing' = Testing
  BY DEF Queued, Admitted, Testing, probeVars
<1> QED
  BY <1>1 DEF IInv, QueueExact, SlotsExact, HistoryExact, SingleProbe, slotVars, probeVars

LEMMA AcquireInv ==
    ASSUME IInv, NEW r \in Requests, AcquireClosed(r) \/ AcquireBusy(r) \/ AcquireQueued(r)
    PROVE  IInv'
<1>0. stage[r] = "idle"
  BY DEF AcquireClosed, AcquireBusy, AcquireQueued
<1>1. ASSUME NEW to \in {"shut", "busy"}, stage' = [stage EXCEPT ![r] = to],
             UNCHANGED <<now, queueVars, slotVars, concurrency, pauseVars, probeVars, rateVars,
                         timerVars, holdVars, closed, frames, answered>>
      PROVE  IInv'
  <2>1. SlotsExact' /\ HistoryExact' /\ SingleProbe' /\ stage' \in [Requests -> Stages]
    BY <1>0, <1>1, StageOnly DEF Stages
  <2>2. Queued' = Queued
    BY <1>0, <1>1 DEF IInv, TypeOK, Queued
  <2>3. QueueExact'
    BY <1>1, <2>2 DEF IInv, QueueExact, queueVars
  <2>4. TypeOK'
    BY <1>1, <2>1 DEF IInv, TypeOK, queueVars, slotVars, pauseVars, probeVars, rateVars, timerVars, holdVars
  <2> QED
    BY <2>1, <2>3, <2>4 DEF IInv
<1>2. ASSUME AcquireQueued(r)
      PROVE  IInv'
  <2>1. SlotsExact' /\ HistoryExact' /\ SingleProbe' /\ stage' \in [Requests -> Stages]
    BY <1>0, <1>2, StageOnly DEF Stages, AcquireQueued
  <2>2. Queued' = Queued \cup {r}
    BY <1>2 DEF IInv, TypeOK, Queued, AcquireQueued
  <2>3. r \notin Range(pending)
    BY <1>0 DEF IInv, QueueExact, Queued
  <2>4. pending' \in Seq(Requests) /\ IsInjective(pending') /\ Range(pending') = Range(pending) \cup {r}
    BY <1>2, <2>3, AppendNewElement DEF IInv, TypeOK, QueueExact, AcquireQueued
  <2>5. QueueExact'
    BY <2>2, <2>4 DEF IInv, QueueExact
  <2>6. timer' \in Nat \cup {NoTimer} /\ stray' \subseteq Nat /\ frames' \in Seq(FrameType)
    BY <1>2, PumpType DEF IInv, AcquireQueued
  <2>7. bytes' \in Int
    BY <1>2, AttributesAssumption DEF IInv, TypeOK, AcquireQueued
  <2>8. TypeOK'
    BY <1>2, <2>1, <2>4, <2>6, <2>7
       DEF IInv, TypeOK, AcquireQueued, slotVars, pauseVars, probeVars, rateVars, holdVars
  <2> QED
    BY <2>1, <2>5, <2>8 DEF IInv
<1>3. CASE AcquireClosed(r)
  BY <1>1, <1>3 DEF AcquireClosed
<1>4. CASE AcquireBusy(r)
  BY <1>1, <1>4 DEF AcquireBusy
<1> QED
  BY <1>2, <1>3, <1>4

LEMMA CancelInv ==
    ASSUME IInv, NEW r \in Requests, Cancel(r)
    PROVE  IInv'
<1>1. PICK i \in 1..Len(pending) : pending[i] = r /\ Dequeue(i)
  BY DEF Cancel
<1>2. /\ pending' \in Seq(Requests) /\ bytes' \in Int
      /\ IsInjective(pending') /\ Range(pending') = Queued \ {r}
  BY <1>1, DequeueExact DEF IInv
<1>3. stage[r] = "queued"
  BY <1>1 DEF IInv, TypeOK, QueueExact, Queued, Range
<1>4. SlotsExact' /\ HistoryExact' /\ SingleProbe' /\ stage' \in [Requests -> Stages]
  BY <1>3, StageOnly DEF Stages, Cancel
<1>5. Queued' = Queued \ {r}
  BY DEF IInv, TypeOK, Queued, Cancel
<1>6. QueueExact'
  BY <1>2, <1>5 DEF QueueExact
<1>7. timer' \in Nat \cup {NoTimer} /\ stray' \subseteq Nat /\ frames' \in Seq(FrameType)
  BY PumpType DEF IInv, Cancel
<1>8. TypeOK'
  BY <1>2, <1>4, <1>7 DEF IInv, TypeOK, Cancel, slotVars, pauseVars, probeVars, rateVars, holdVars
<1> QED
  BY <1>4, <1>6, <1>8 DEF IInv

\* The slot is given back and the probe passed on, and no other attempt is tested.
LEMMA ReleaseInv ==
    ASSUME IInv, NEW r \in Requests, Release(r)
    PROVE  IInv'
<1>1. stage' \in [Requests -> Stages] /\ stage[r] = "admitted" /\ r \in Admitted
  BY DEF IInv, TypeOK, Stages, Release, Admitted
<1>2. Admitted' = Admitted \ {r} /\ Queued' = Queued
  BY DEF IInv, TypeOK, Release, Admitted, Queued
<1>3. SlotsExact' /\ active' \in Nat /\ activeMedia' \in Nat
  BY <1>1, <1>2, FreeSlotExact DEF IInv, Release
<1>4. QueueExact'
  BY <1>2 DEF IInv, QueueExact, Release, queueVars
<1>5. tested' = tested /\ answered' = answered /\ unidentified' = unidentified
  BY DEF Release, PassProbeOn, probeVars
<1>6. HistoryExact'
  BY <1>5 DEF IInv, TypeOK, HistoryExact, Release
<1>7. Testing' = Testing \ {r}
  BY <1>5 DEF IInv, TypeOK, Testing, Release
<1>8. SingleProbe'
  <2>1. CASE probe = "inFlight" /\ probeAttempt = r
    <3>1. probe' = "needed" /\ probeAttempt' = Nobody /\ Testing = {r}
      BY <2>1 DEF IInv, SingleProbe, Release, PassProbeOn
    <3> QED
      BY <2>1, <3>1, <1>5, <1>7 DEF IInv, SingleProbe
  <2>2. CASE ~(probe = "inFlight" /\ probeAttempt = r)
    <3>1. probe' = probe /\ probeAttempt' = probeAttempt
      BY <2>2 DEF Release, PassProbeOn, probeVars
    <3> QED
      BY <2>2, <3>1, <1>5, <1>7 DEF IInv, SingleProbe
  <2> QED
    BY <2>1, <2>2
<1>9. /\ probe' \in {"none", "needed", "inFlight"} /\ probeAttempt' \in Requests \cup {Nobody}
  BY DEF IInv, TypeOK, Release, PassProbeOn, probeVars
<1>10. timer' \in Nat \cup {NoTimer} /\ stray' \subseteq Nat /\ frames' \in Seq(FrameType)
  BY PumpType DEF IInv, Release
<1>11. TypeOK'
  BY <1>1, <1>3, <1>5, <1>9, <1>10 DEF IInv, TypeOK, Release, queueVars, pauseVars, rateVars, holdVars
<1> QED
  BY <1>3, <1>4, <1>6, <1>8, <1>11 DEF IInv

LEMMA CloseInv ==
    ASSUME IInv, Close
    PROVE  IInv'
<1>1. stage' \in [Requests -> Stages]
  BY DEF IInv, TypeOK, Stages, Close
<1>2. Admitted' = Admitted /\ Queued' = {}
  BY DEF IInv, TypeOK, Admitted, Queued, Close
<1>3. QueueExact'
  BY <1>2 DEF QueueExact, Close, IsInjective, Range
<1>4. SlotsExact'
  BY <1>2 DEF IInv, SlotsExact, Close, slotVars
<1>5. HistoryExact'
  BY DEF IInv, TypeOK, HistoryExact, Close, probeVars
<1>6. Testing' = Testing
  BY DEF IInv, TypeOK, Testing, HistoryExact, Close, probeVars
<1>7. SingleProbe'
  BY <1>6 DEF IInv, SingleProbe, Close, probeVars
<1>8. TypeOK'
  BY <1>1, NeverNat DEF IInv, TypeOK, Close, slotVars, pauseVars, probeVars
<1> QED
  BY <1>3, <1>4, <1>5, <1>7, <1>8 DEF IInv

LEMMA ScaleInv ==
    ASSUME IInv, ScaleConcurrency
    PROVE  IInv'
<1>1. QueueExact' /\ SlotsExact' /\ HistoryExact' /\ SingleProbe'
  BY CoreUnchanged DEF ScaleConcurrency, queueVars
<1>2. timer' \in Nat \cup {NoTimer} /\ stray' \subseteq Nat /\ frames' \in Seq(FrameType)
  BY PumpType DEF IInv, ScaleConcurrency
<1>3. concurrency' \in 1..MaximumConcurrency
  <2>1. PICK shards \in ShardCounts :
          concurrency' = Earlier(MaximumConcurrency, ConcurrencyPerShard * Later(1, shards))
    BY DEF ScaleConcurrency
  <2>2. Later(1, shards) \in Nat \ {0}
    BY LimitsAssumption DEF Later
  <2>3. ConcurrencyPerShard * Later(1, shards) \in Nat \ {0}
    BY <2>2, LimitsAssumption
  <2> QED
    BY <2>1, <2>3, LimitsAssumption DEF Earlier
<1>4. TypeOK'
  BY <1>2, <1>3
     DEF IInv, TypeOK, ScaleConcurrency, queueVars, slotVars, pauseVars, probeVars, rateVars, holdVars
<1> QED
  BY <1>1, <1>4 DEF IInv

LEMMA PauseGlobalInv ==
    ASSUME IInv, PauseGlobal
    PROVE  IInv'
<1>1. QueueExact' /\ SlotsExact' /\ HistoryExact' /\ SingleProbe'
  BY CoreUnchanged DEF PauseGlobal, queueVars
<1>2. timer' \in Nat \cup {NoTimer} /\ stray' \subseteq Nat /\ frames' \in Seq(FrameType)
  BY PumpType DEF IInv, PauseGlobal
<1>3. globalUntil' \in Nat
  BY LimitsAssumption DEF IInv, TypeOK, PauseGlobal
<1>4. TypeOK'
  BY <1>2, <1>3 DEF IInv, TypeOK, PauseGlobal, queueVars, slotVars, probeVars, rateVars, holdVars
<1> QED
  BY <1>1, <1>4 DEF IInv

\* An answer from an attempt that the recovery does not wait for.
LEMMA AnswerHistory ==
    ASSUME IInv, NEW r \in Requests, stage[r] = "admitted",
           answered' = answered \cup {r}, tested' = tested, stage' = stage
    PROVE  HistoryExact' /\ Testing' = Testing \ {r}
<1>1. HistoryExact'
  BY DEF IInv, HistoryExact
<1>2. Testing' = Testing \ {r}
  BY DEF Testing
<1> QED
  BY <1>1, <1>2

LEMMA RespondedInv ==
    ASSUME IInv, NEW r \in Requests, Responded(r)
    PROVE  IInv'
<1>0. stage[r] = "admitted" /\ r # Nobody /\ answered' = answered \cup {r} /\ stage' = stage
  BY RequestsAssumption DEF Responded, MayAnswer
<1>1. Queued' = Queued /\ Admitted' = Admitted
  BY <1>0 DEF Queued, Admitted
<1>2. QueueExact' /\ SlotsExact'
  BY <1>1 DEF IInv, QueueExact, SlotsExact, Responded, queueVars, slotVars
<1>3. routeUntil' \in [Routes -> Nat] /\ routeFirm' \in [Routes -> Nat]
  <2>1. RouteWaits \subseteq Nat
    BY LimitsAssumption
  <2>2. routeUntil' \in [Routes -> RouteWaits] /\ routeFirm' \in [Routes -> RouteWaits]
    BY DEF Responded, LearnRoutes
  <2> QED
    BY <2>1, <2>2
<1>4. CASE probe = "inFlight" /\ probeAttempt = r
  <2>1. probe' = "none" /\ probeAttempt' = Nobody /\ unidentified' = 0 /\ tested' = {} /\ Pump(Nobody)
    BY <1>4 DEF Responded
  <2>2. timer' \in Nat \cup {NoTimer} /\ stray' \subseteq Nat /\ frames' \in Seq(FrameType)
    BY <2>1, PumpType DEF IInv
  <2>3. TypeOK'
    BY <1>0, <1>3, <2>1, <2>2 DEF IInv, TypeOK, Responded, queueVars, slotVars, pauseVars, holdVars
  <2>4. HistoryExact' /\ SingleProbe'
    BY <1>0, <2>1 DEF IInv, HistoryExact, SingleProbe, Testing
  <2> QED
    BY <1>2, <2>3, <2>4 DEF IInv
<1>5. CASE ~(probe = "inFlight" /\ probeAttempt = r)
  <2>1. UNCHANGED <<probeVars, timerVars, frames>>
    BY <1>5 DEF Responded
  <2>2. HistoryExact' /\ Testing' = Testing \ {r}
    BY <1>0, <2>1, AnswerHistory DEF probeVars
  <2>3. SingleProbe'
    BY <1>5, <2>1, <2>2 DEF IInv, SingleProbe, probeVars
  <2>4. TypeOK'
    BY <1>0, <1>3, <2>1
       DEF IInv, TypeOK, Responded, queueVars, slotVars, pauseVars, probeVars, timerVars, holdVars
  <2> QED
    BY <1>2, <2>2, <2>3, <2>4 DEF IInv
<1> QED
  BY <1>4, <1>5

LEMMA PauseExtendInv ==
    ASSUME IInv, NEW r \in Requests, PauseClientExtend(r)
    PROVE  IInv'
<1>0. /\ stage[r] = "admitted" /\ answered' = answered \cup {r} /\ stage' = stage
      /\ UNCHANGED probeVars /\ probe # "none" /\ r # probeAttempt
  BY DEF PauseClientExtend, MayAnswer, RecoveryUnderWay
<1>1. Queued' = Queued /\ Admitted' = Admitted
  BY <1>0 DEF Queued, Admitted
<1>2. QueueExact' /\ SlotsExact'
  BY <1>1 DEF IInv, QueueExact, SlotsExact, PauseClientExtend, queueVars, slotVars
<1>3. HistoryExact' /\ Testing' = Testing \ {r}
  BY <1>0, AnswerHistory DEF probeVars
<1>4. SingleProbe'
  BY <1>0, <1>3 DEF IInv, SingleProbe, probeVars
<1>5. globalUntil' \in Nat /\ pauseKind' \in {"global", "client"}
  BY LimitsAssumption DEF IInv, TypeOK, PauseClientExtend, PauseUnidentified, pauseVars
<1>6. TypeOK'
  BY <1>0, <1>5
     DEF IInv, TypeOK, PauseClientExtend, queueVars, slotVars, probeVars, rateVars, timerVars, holdVars
<1> QED
  BY <1>2, <1>3, <1>4, <1>6 DEF IInv

LEMMA PauseStartInv ==
    ASSUME IInv, NEW r \in Requests, PauseClientStart(r)
    PROVE  IInv'
<1>0. /\ stage[r] = "admitted" /\ answered' = answered \cup {r} /\ stage' = stage
      /\ probe' = "needed" /\ probeAttempt' = Nobody /\ unidentified' = unidentified + 1
      /\ tested' = tested
      /\ probe = "none" \/ r = probeAttempt
  BY DEF PauseClientStart, MayAnswer, RecoveryUnderWay
<1>1. Queued' = Queued /\ Admitted' = Admitted
  BY <1>0 DEF Queued, Admitted
<1>2. QueueExact' /\ SlotsExact'
  BY <1>1 DEF IInv, QueueExact, SlotsExact, PauseClientStart, queueVars, slotVars
<1>3. HistoryExact' /\ Testing' = Testing \ {r}
  BY <1>0, AnswerHistory
<1>4. Testing' = {}
  BY <1>0, <1>3, RequestsAssumption DEF IInv, SingleProbe
<1>5. unidentified' \in Nat /\ unidentified' # 0
  BY <1>0 DEF IInv, TypeOK
<1>6. SingleProbe'
  BY <1>0, <1>4, <1>5 DEF SingleProbe
<1>7. globalUntil' \in Nat /\ pauseKind' \in {"global", "client"}
  <2>0. PICK asked \in Asked : \E jitter \in Jitters(Grown(asked)) :
          PauseUnidentified(now + Grown(asked) + jitter)
    BY DEF PauseClientStart
  <2>1. PICK jitter \in Jitters(Grown(asked)) : PauseUnidentified(now + Grown(asked) + jitter)
    BY <2>0
  <2>2. Grown(asked) \in Nat
    BY LimitsAssumption DEF IInv, TypeOK, Grown, Later, Earlier
  <2>3. jitter \in Nat
    BY <2>1, <2>2 DEF Jitters
  <2>4. now + Grown(asked) + jitter \in Nat
    BY <2>2, <2>3 DEF IInv, TypeOK
  <2> QED
    BY <2>1, <2>4 DEF IInv, TypeOK, PauseUnidentified, pauseVars
<1>8. TypeOK'
  BY <1>0, <1>5, <1>7
     DEF IInv, TypeOK, PauseClientStart, queueVars, slotVars, rateVars, timerVars, holdVars
<1> QED
  BY <1>2, <1>3, <1>6, <1>8 DEF IInv

-----------------------------------------------------------------------------
(* Steps of the pump *)

LEMMA DenyInv ==
    ASSUME IInv, PumpDeny
    PROVE  IInv'
<1> DEFINE r == Candidate
<1>1. Top.index \in 1..Len(pending) /\ r \in Requests /\ stage[r] = "queued" /\ ~Idle
  BY CandidateQueued DEF IInv, PumpDeny, AtCandidate, Scanning
<1>2. /\ pending' \in Seq(Requests) /\ bytes' \in Int
      /\ IsInjective(pending') /\ Range(pending') = Queued \ {r}
  BY <1>1, DequeueExact DEF IInv, PumpDeny, Candidate
<1>3. stage' = [stage EXCEPT ![r] = "denied"]
  BY DEF PumpDeny
<1> HIDE DEF r
<1>4. SlotsExact' /\ HistoryExact' /\ SingleProbe' /\ stage' \in [Requests -> Stages]
  BY <1>1, <1>3, StageOnly DEF Stages, PumpDeny
<1>5. Queued' = Queued \ {r}
  BY <1>1, <1>3 DEF IInv, TypeOK, Queued
<1>6. QueueExact'
  BY <1>2, <1>5 DEF QueueExact
<1>7. frames' \in Seq(FrameType)
  BY <1>1, ResumedType DEF IInv, PumpDeny
<1>8. TypeOK'
  BY <1>2, <1>4, <1>7
     DEF IInv, TypeOK, PumpDeny, slotVars, pauseVars, probeVars, rateVars, timerVars, holdVars
<1> QED
  BY <1>4, <1>6, <1>8 DEF IInv

\* Moving the top frame touches nothing else.
LEMMA FramesOnly ==
    ASSUME IInv, frames' \in Seq(FrameType),
           UNCHANGED <<now, queueVars, slotVars, concurrency, pauseVars, probeVars, rateVars,
                       timerVars, holdVars, closed, stage, answered>>
    PROVE  IInv'
<1>1. QueueExact' /\ SlotsExact' /\ HistoryExact' /\ SingleProbe'
  BY CoreUnchanged DEF queueVars
<1>2. TypeOK'
  BY DEF IInv, TypeOK, queueVars, slotVars, pauseVars, probeVars, rateVars, timerVars, holdVars
<1> QED
  BY <1>1, <1>2 DEF IInv

LEMMA SkipInv ==
    ASSUME IInv, PumpSkipBlocked \/ PumpSkipEarly \/ PumpReturns
    PROVE  IInv'
<1>0. ~Idle
  BY DEF PumpSkipBlocked, PumpSkipEarly, PumpReturns, AtCandidate, Scanning
<1>1. Top \in FrameType /\ Top = frames[Len(frames)] /\ Len(frames) \in 1..Len(frames)
  BY <1>0, TopType DEF IInv, Top
<1>2. CASE PumpSkipBlocked
  <2>1. [Top EXCEPT !.index = @ + 1] \in FrameType
    BY <1>1 DEF FrameType
  <2>2. frames' = [frames EXCEPT ![Len(frames)] = [Top EXCEPT !.index = @ + 1]]
    BY <1>1, <1>2 DEF PumpSkipBlocked
  <2>3. frames' \in Seq(FrameType)
    BY <1>1, <2>1, <2>2 DEF IInv, TypeOK
  <2> QED
    BY <1>2, <2>3, FramesOnly DEF PumpSkipBlocked
<1>3. CASE PumpSkipEarly
  <2> DEFINE soon == SoonestEntry(Top.earliest, Candidate)
             moved == [index |-> Top.index + 1, earliest |-> soon, own |-> Top.own, calling |-> FALSE]
  <2>1. Candidate \in Requests
    BY <1>3, CandidateQueued DEF IInv, PumpSkipEarly
  <2>2. soon \in Nat
    BY <1>1, <2>1, AttributesAssumption
       DEF FrameType, IInv, TypeOK, SoonestEntry, EntersAt, Limited, RouteUntil, Earlier, Later
  <2>3. frames' = [frames EXCEPT ![Len(frames)] = moved]
    BY <1>3 DEF PumpSkipEarly
  <2> HIDE DEF soon
  <2>4. moved \in FrameType
    BY <1>1, <2>2 DEF FrameType
  <2> HIDE DEF moved
  <2>5. frames' \in Seq(FrameType)
    BY <1>1, <2>3, <2>4 DEF IInv, TypeOK
  <2> QED
    BY <1>3, <2>5, FramesOnly DEF PumpSkipEarly
<1>4. CASE PumpReturns
  <2>1. [Top EXCEPT !.calling = FALSE] \in FrameType
    BY <1>1 DEF FrameType
  <2>2. frames' = [frames EXCEPT ![Len(frames)] = [Top EXCEPT !.calling = FALSE]]
    BY <1>1, <1>4 DEF PumpReturns
  <2>3. frames' \in Seq(FrameType)
    BY <1>1, <2>1, <2>2 DEF IInv, TypeOK
  <2> QED
    BY <1>4, <2>3, FramesOnly DEF PumpReturns
<1> QED
  BY <1>2, <1>3, <1>4

\* The heart of the argument: an admitted request takes a slot nobody counts yet, and
\* becomes the probe only when no other request could be one.
LEMMA AdmitInv ==
    ASSUME IInv, PumpAdmit
    PROVE  IInv'
<1> DEFINE r == Candidate
<1>1. Top.index \in 1..Len(pending) /\ r \in Requests /\ stage[r] = "queued" /\ ~Idle
  BY CandidateQueued DEF IInv, PumpAdmit, AtCandidate, Scanning
<1>2. /\ pending' \in Seq(Requests) /\ bytes' \in Int
      /\ IsInjective(pending') /\ Range(pending') = Queued \ {r}
  BY <1>1, DequeueExact DEF IInv, PumpAdmit, Candidate
<1>3. /\ stage' = [stage EXCEPT ![r] = "admitted"]
      /\ TakeSlot(r) /\ Reserve(r) /\ ~AwaitsProbe(r)
      /\ IF BecomesProbe(r) THEN probe' = "inFlight" /\ probeAttempt' = r
                            ELSE UNCHANGED <<probe, probeAttempt>>
      /\ tested' = IF probe # "none" /\ r \in RateLimited \cap MayProbe THEN tested \cup {r} ELSE tested
      /\ frames' = Resumed(r) /\ answered' = answered /\ unidentified' = unidentified
  BY DEF PumpAdmit, MayEnterSoon
<1> HIDE DEF r
<1>4. stage' \in [Requests -> Stages]
  BY <1>1, <1>3 DEF IInv, TypeOK, Stages
<1>5. Queued' = Queued \ {r} /\ Admitted' = Admitted \cup {r} /\ r \notin Admitted
  BY <1>1, <1>3 DEF IInv, TypeOK, Queued, Admitted
<1>6. QueueExact'
  BY <1>2, <1>5 DEF QueueExact
<1>7. SlotsExact' /\ active' \in Nat /\ activeMedia' \in Nat
  BY <1>3, <1>5, TakeSlotExact DEF IInv
<1>8. r \notin tested \cup answered /\ tested' \subseteq Requests
  BY <1>1, <1>3 DEF IInv, TypeOK, HistoryExact
<1>9. HistoryExact'
  BY <1>1, <1>3, <1>8 DEF IInv, TypeOK, HistoryExact
<1>10. SingleProbe'
  <2>1. CASE BecomesProbe(r)
    <3>1. probe = "needed" /\ Testing = {} /\ unidentified # 0
      BY <2>1 DEF BecomesProbe, IInv, SingleProbe
    <3>2. Testing' = {r}
      BY <1>1, <1>3, <1>8, <2>1, <3>1 DEF IInv, TypeOK, Testing, BecomesProbe
    <3> QED
      BY <1>3, <2>1, <3>1, <3>2 DEF SingleProbe
  <2>2. CASE ~BecomesProbe(r)
    <3>1. tested' = tested /\ probe' = probe /\ probeAttempt' = probeAttempt
      BY <1>3, <2>2 DEF BecomesProbe, AwaitsProbe, IInv, TypeOK
    <3>2. Testing' = Testing
      BY <1>1, <1>3, <1>8, <3>1 DEF IInv, TypeOK, Testing
    <3> QED
      BY <1>3, <3>1, <3>2 DEF IInv, SingleProbe
  <2> QED
    BY <2>1, <2>2
<1>11. probe' \in {"none", "needed", "inFlight"} /\ probeAttempt' \in Requests \cup {Nobody}
  BY <1>1, <1>3 DEF IInv, TypeOK
<1>12. routeUntil' \in [Routes -> Nat] /\ routeFirm' \in [Routes -> Nat]
  <2>1. RouteOf[r] \in Routes /\ RouteWaits \subseteq Nat
    BY <1>1, AttributesAssumption, LimitsAssumption
  <2> QED
    BY <1>3, <2>1 DEF Reserve, rateVars, IInv, TypeOK
<1>13. frames' \in Seq(FrameType)
  BY <1>1, <1>3, ResumedType DEF IInv
<1>14. TypeOK'
  BY <1>2, <1>3, <1>4, <1>7, <1>8, <1>11, <1>12, <1>13
     DEF IInv, TypeOK, PumpAdmit, pauseVars, timerVars, holdVars
<1> QED
  BY <1>6, <1>7, <1>9, <1>10, <1>14 DEF IInv

LEMMA EndInv ==
    ASSUME IInv, PumpEnds
    PROVE  IInv'
<1>1. QueueExact' /\ SlotsExact' /\ HistoryExact' /\ SingleProbe'
  BY CoreUnchanged DEF PumpEnds, queueVars
<1>2. ~Idle
  BY DEF PumpEnds, Scanning
<1>3. frames' \in Seq(FrameType)
  BY <1>2, TopType DEF IInv, TypeOK, PumpEnds, Below
<1>4. timer' \in Nat \cup {NoTimer} /\ stray' \subseteq Nat
  <2>1. CASE Top.earliest = Never
    BY <2>1 DEF IInv, TypeOK, PumpEnds, timerVars
  <2>2. CASE Top.earliest # Never
    <3>1. ArmTimer(Top.earliest) /\ Top.earliest \in Nat
      BY <1>2, <2>2, TopType DEF IInv, PumpEnds
    <3>2. timer' \in Nat
      BY <3>1, LimitsAssumption DEF IInv, TypeOK, ArmTimer, Earlier, Later
    <3>3. stray' \subseteq Nat
      BY <3>1 DEF IInv, TypeOK, ArmTimer
    <3> QED
      BY <3>2, <3>3
  <2> QED
    BY <2>1, <2>2
<1>5. holdReason' \in {"none", "global", "client", "route"} /\ holdTimer' \in Nat \cup {NoTimer}
  <2>1. RateLimitHold \in {"none", "global", "client", "route"}
    BY DEF IInv, TypeOK, RateLimitHold
  <2> QED
    BY <2>1, LimitsAssumption DEF IInv, TypeOK, PumpEnds, TrackHold
<1>6. TypeOK'
  BY <1>3, <1>4, <1>5 DEF IInv, TypeOK, PumpEnds, queueVars, slotVars, pauseVars, probeVars, rateVars
<1> QED
  BY <1>1, <1>6 DEF IInv

LEMMA TimerInv ==
    ASSUME IInv, TimerFires \/ StrayTimerFires \/ HoldTimerFires \/ Tick
    PROVE  IInv'
<1>1. QueueExact' /\ SlotsExact' /\ HistoryExact' /\ SingleProbe'
  BY CoreUnchanged DEF TimerFires, StrayTimerFires, HoldTimerFires, Tick, queueVars
<1>2. CASE TimerFires
  <2>1. timer' \in Nat \cup {NoTimer} /\ stray' \subseteq Nat /\ frames' \in Seq(FrameType)
    BY <1>2, PumpType DEF IInv, TimerFires
  <2>2. TypeOK'
    BY <1>2, <2>1
       DEF IInv, TypeOK, TimerFires, queueVars, slotVars, pauseVars, probeVars, rateVars, holdVars
  <2> QED
    BY <1>1, <2>2 DEF IInv
<1>3. CASE StrayTimerFires
  <2> DEFINE frame == [index |-> 1, earliest |-> Never, own |-> Nobody, calling |-> FALSE]
  <2>1. frame \in FrameType
    BY NeverNat DEF FrameType
  <2>2. stray' \subseteq Nat /\ timer' = NoTimer
    BY <1>3 DEF IInv, TypeOK, StrayTimerFires
  <2>3. frames' = frames \/ frames' = Append(frames, frame)
    BY <1>3 DEF StrayTimerFires
  <2> HIDE DEF frame
  <2>0. frames \in Seq(FrameType)
    BY DEF IInv, TypeOK
  <2>4. frames' \in Seq(FrameType)
    BY <2>0, <2>1, <2>3, AppendProperties
  <2>5. TypeOK'
    BY <1>3, <2>2, <2>4
       DEF IInv, TypeOK, StrayTimerFires, queueVars, slotVars, pauseVars, probeVars, rateVars, holdVars
  <2> QED
    BY <1>1, <2>5 DEF IInv
<1>4. CASE HoldTimerFires
  <2>1. RateLimitHold \in {"none", "global", "client", "route"}
    BY DEF IInv, TypeOK, RateLimitHold
  <2>2. holdReason' \in {"none", "global", "client", "route"} /\ holdTimer' \in Nat \cup {NoTimer}
    BY <1>4, <2>1, LimitsAssumption DEF IInv, TypeOK, HoldTimerFires
  <2>3. TypeOK'
    BY <1>4, <2>2
       DEF IInv, TypeOK, HoldTimerFires, queueVars, slotVars, pauseVars, probeVars, rateVars, timerVars
  <2> QED
    BY <1>1, <2>3 DEF IInv
<1>5. CASE Tick
  <2>1. TypeOK'
    BY <1>5
       DEF IInv, TypeOK, Tick, queueVars, slotVars, pauseVars, probeVars, rateVars, timerVars, holdVars
  <2> QED
    BY <1>1, <2>1 DEF IInv
<1> QED
  BY <1>2, <1>3, <1>4, <1>5

-----------------------------------------------------------------------------
(* The theorems *)

LEMMA InitInv == Init => IInv
<1> SUFFICES ASSUME Init PROVE IInv
  OBVIOUS
<1>1. Queued = {} /\ Admitted = {} /\ Testing = {}
  BY DEF Init, Queued, Admitted, Testing
<1>2. TypeOK
  <2>1. pending \in Seq(Requests) /\ frames \in Seq(FrameType)
    BY DEF Init
  <2>2. routeUntil \in [Routes -> Nat] /\ routeFirm \in [Routes -> Nat]
    BY DEF Init
  <2>3. stage \in [Requests -> Stages]
    BY DEF Init, Stages
  <2>4. concurrency \in 1..MaximumConcurrency
    BY LimitsAssumption DEF Init
  <2>5. /\ now \in Nat /\ bytes \in Int /\ active \in Nat /\ activeMedia \in Nat
        /\ globalUntil \in Nat /\ pauseKind \in {"global", "client"}
        /\ unidentified \in Nat /\ probe \in {"none", "needed", "inFlight"}
        /\ probeAttempt \in Requests \cup {Nobody}
    BY DEF Init
  <2>6. /\ timer \in Nat \cup {NoTimer} /\ stray \subseteq Nat
        /\ holdReason \in {"none", "global", "client", "route"} /\ holdTimer \in Nat \cup {NoTimer}
        /\ closed \in BOOLEAN /\ answered \subseteq Requests /\ tested \subseteq Requests
    BY DEF Init
  <2> QED
    BY <2>1, <2>2, <2>3, <2>4, <2>5, <2>6 DEF TypeOK
<1>3. QueueExact
  BY <1>1 DEF Init, QueueExact, IsInjective, Range
<1>4. SlotsExact
  BY <1>1, FS_EmptySet DEF Init, SlotsExact
<1>5. HistoryExact /\ SingleProbe
  BY <1>1 DEF Init, HistoryExact, SingleProbe
<1> QED
  BY <1>2, <1>3, <1>4, <1>5 DEF IInv

LEMMA StepInv == IInv /\ [Next]_vars => IInv'
<1> SUFFICES ASSUME IInv, [Next]_vars PROVE IInv'
  OBVIOUS
<1>1. ASSUME NEW r \in Requests, AcquireClosed(r) \/ AcquireBusy(r) \/ AcquireQueued(r)
      PROVE  IInv'
  BY <1>1, AcquireInv
<1>2. ASSUME NEW r \in Requests, Cancel(r) PROVE IInv'
  BY <1>2, CancelInv
<1>3. ASSUME NEW r \in Requests, Release(r) PROVE IInv'
  BY <1>3, ReleaseInv
<1>4. ASSUME NEW r \in Requests, Responded(r) PROVE IInv'
  BY <1>4, RespondedInv
<1>5. ASSUME NEW r \in Requests, PauseClientExtend(r) PROVE IInv'
  BY <1>5, PauseExtendInv
<1>6. ASSUME NEW r \in Requests, PauseClientStart(r) PROVE IInv'
  BY <1>6, PauseStartInv
<1>7. CASE Close
  BY <1>7, CloseInv
<1>8. CASE ScaleConcurrency
  BY <1>8, ScaleInv
<1>9. CASE PauseGlobal
  BY <1>9, PauseGlobalInv
<1>10. CASE PumpStep
  BY <1>10, DenyInv, SkipInv, AdmitInv, EndInv DEF PumpStep
<1>11. CASE TimerFires \/ StrayTimerFires \/ HoldTimerFires \/ Tick
  BY <1>11, TimerInv
<1>12. CASE UNCHANGED vars
  <2>1. UNCHANGED <<now, queueVars, slotVars, concurrency, pauseVars, probeVars, rateVars,
                    timerVars, holdVars, closed, stage, answered>> /\ frames' = frames
    BY <1>12 DEF vars
  <2> QED
    BY <2>1, FramesOnly DEF IInv, TypeOK
<1> QED
  BY <1>1, <1>2, <1>3, <1>4, <1>5, <1>6, <1>7, <1>8, <1>9, <1>10, <1>11, <1>12 DEF Next

THEOREM Invariance == Spec => []IInv
<1>1. Init => IInv
  BY InitInv
<1>2. IInv /\ [Next]_vars => IInv'
  BY StepInv
<1> QED
  BY <1>1, <1>2, PTL DEF Spec

\* Every variable of the admission keeps its type (admission.ts, the fields of RestAdmission).
THEOREM Typing == Spec => []TypeOK
<1>1. IInv => TypeOK
  BY DEF IInv
<1> QED
  BY <1>1, Invariance, PTL

\* The slot counters are exact for any number of requests, nested pumps and closures.
THEOREM SlotsAreExact == Spec => []SlotsExact
<1>1. IInv => SlotsExact
  BY DEF IInv
<1> QED
  BY <1>1, Invariance, PTL

\* The queue holds each waiting request exactly once, whatever pumps nested in one another.
THEOREM QueueIsExact == Spec => []QueueExact
<1>1. IInv => QueueExact
  BY DEF IInv
<1> QED
  BY <1>1, Invariance, PTL

\* An unidentified limit is tested by one request at a time, and the probe is never lost.
THEOREM OneProbe == Spec => []SingleProbe
<1>1. IInv => SingleProbe
  BY DEF IInv
<1> QED
  BY <1>1, Invariance, PTL

-----------------------------------------------------------------------------
(* The byte budget *)

Charged(queue) == Total(Bytes, queue)
BytesInv == IInv /\ bytes = Charged(Queued)

LEMMA DequeueMoves ==
    ASSUME IInv, NEW i \in 1..Len(pending), Dequeue(i), QueueExact'
    PROVE  \E r \in Queued : bytes' = bytes - Bytes[r] /\ Queued' = Queued \ {r}
<1>1. Queued' = Queued \ {pending[i]}
  BY DequeueExact DEF IInv, QueueExact
<1>2. pending[i] \in Queued
  BY DEF IInv, TypeOK, QueueExact, Range
<1> QED
  BY <1>1, <1>2 DEF Dequeue

\* How the queue and its budget change: one request enters or leaves, or the queue is emptied.
LEMMA QueueMoves ==
    ASSUME IInv, IInv', [Next]_vars
    PROVE  \/ bytes' = bytes /\ Queued' = Queued
           \/ \E r \in Requests \ Queued : bytes' = bytes + Bytes[r] /\ Queued' = Queued \cup {r}
           \/ \E r \in Queued : bytes' = bytes - Bytes[r] /\ Queued' = Queued \ {r}
           \/ bytes' = 0 /\ Queued' = {}
<1>1. Queued = Range(pending) /\ Queued' = Range(pending')
  BY DEF IInv, QueueExact
<1>2. ASSUME UNCHANGED queueVars
      PROVE  bytes' = bytes /\ Queued' = Queued
  BY <1>1, <1>2 DEF queueVars
<1>3. ASSUME NEW r \in Requests, AcquireQueued(r)
      PROVE  r \notin Queued /\ bytes' = bytes + Bytes[r] /\ Queued' = Queued \cup {r}
  BY <1>3 DEF AcquireQueued, Queued, IInv, TypeOK
<1>4. ASSUME NEW r \in Requests, Cancel(r)
      PROVE  \E q \in Queued : bytes' = bytes - Bytes[q] /\ Queued' = Queued \ {q}
  BY <1>4, DequeueMoves DEF Cancel, IInv
<1>5. ASSUME PumpDeny \/ PumpAdmit
      PROVE  \E q \in Queued : bytes' = bytes - Bytes[q] /\ Queued' = Queued \ {q}
  <2>1. Top.index \in 1..Len(pending) /\ Dequeue(Top.index)
    BY <1>5, CandidateQueued DEF PumpDeny, PumpAdmit, IInv
  <2> QED
    BY <2>1, DequeueMoves DEF IInv
<1>6. ASSUME Close
      PROVE  bytes' = 0 /\ Queued' = {}
  BY <1>6 DEF Close, Queued, IInv, TypeOK
<1>7. ASSUME NEW r \in Requests,
             \/ AcquireClosed(r) \/ AcquireBusy(r) \/ Release(r)
             \/ Responded(r) \/ PauseClientExtend(r) \/ PauseClientStart(r)
      PROVE  UNCHANGED queueVars
  BY <1>7 DEF AcquireClosed, AcquireBusy, Release, Responded, PauseClientExtend, PauseClientStart
<1>8. ASSUME \/ ScaleConcurrency \/ PauseGlobal \/ PumpSkipBlocked \/ PumpSkipEarly \/ PumpReturns
             \/ PumpEnds \/ TimerFires \/ StrayTimerFires \/ HoldTimerFires \/ Tick \/ UNCHANGED vars
      PROVE  UNCHANGED queueVars
  BY <1>8 DEF ScaleConcurrency, PauseGlobal, PumpSkipBlocked, PumpSkipEarly, PumpReturns, PumpEnds,
              TimerFires, StrayTimerFires, HoldTimerFires, Tick, vars, queueVars
<1> QED
  BY <1>2, <1>3, <1>4, <1>5, <1>6, <1>7, <1>8 DEF Next, PumpStep

LEMMA BytesInit == Init => BytesInv
<1> SUFFICES ASSUME Init PROVE BytesInv
  OBVIOUS
<1>1. Queued = {}
  BY DEF Init, Queued
<1> QED
  BY <1>1, InitInv, TotalEmpty DEF BytesInv, Charged, Init

LEMMA BytesStep == BytesInv /\ [Next]_vars => BytesInv'
<1> SUFFICES ASSUME BytesInv, [Next]_vars PROVE BytesInv'
  OBVIOUS
<1>1. IInv /\ IInv' /\ bytes = Charged(Queued)
  BY StepInv DEF BytesInv
<1>2. IsFiniteSet(Queued) /\ Queued \subseteq Requests /\ \A r \in Requests : Bytes[r] \in Nat
  BY RequestsAssumption, AttributesAssumption, FS_Subset DEF Queued
<1>3. Charged(Queued)' = Charged(Queued')
  BY DEF Charged
<1>4. ASSUME NEW r \in Requests \ Queued, bytes' = bytes + Bytes[r], Queued' = Queued \cup {r}
      PROVE  bytes' = Charged(Queued')
  <2>1. Charged(Queued \cup {r}) = Bytes[r] + Charged(Queued)
    BY <1>2, TotalMore DEF Charged
  <2>2. Charged(Queued) \in Nat /\ Bytes[r] \in Nat
    BY <1>2, TotalNat DEF Charged
  <2> QED
    BY <1>1, <1>4, <2>1, <2>2
<1>5. ASSUME NEW r \in Queued, bytes' = bytes - Bytes[r], Queued' = Queued \ {r}
      PROVE  bytes' = Charged(Queued')
  <2>1. Charged(Queued) = Bytes[r] + Charged(Queued \ {r})
    BY <1>2, TotalLess DEF Charged
  <2>2. Charged(Queued \ {r}) \in Nat /\ Bytes[r] \in Nat
    BY <1>2, OneLess, TotalNat DEF Charged
  <2> QED
    BY <1>1, <1>5, <2>1, <2>2
<1>6. ASSUME bytes' = 0, Queued' = {}
      PROVE  bytes' = Charged(Queued')
  BY <1>6, TotalEmpty DEF Charged
<1>7. bytes' = Charged(Queued')
  BY <1>1, <1>4, <1>5, <1>6, QueueMoves
<1> QED
  BY <1>1, <1>3, <1>7 DEF BytesInv

\* The byte budget equals what the waiting requests were charged, whoever leaves the queue and in
\* whatever order (RestAdmission.BytesExact).
THEOREM BytesAreExact == Spec => []BytesExact
<1>1. BytesInv => BytesExact
  <2>1. Charged(Range(pending)) = MapThenSumSet(LAMBDA r : Bytes[r], Range(pending))
    BY Zenon DEF Charged, Total
  <2> QED
    BY <2>1 DEF BytesInv, IInv, QueueExact, BytesExact
<1> QED
  BY <1>1, BytesInit, BytesStep, PTL DEF Spec

-----------------------------------------------------------------------------
(* RestAdmission implements AdmissionGate. *)

\* Once closed, the queue stays empty: a pump that was in progress admits nothing more.
ShutEmpty == closed => pending = <<>>

LEMMA ShutStep ==
    ASSUME IInv, ShutEmpty, [Next]_vars
    PROVE  ShutEmpty'
<1>1. ASSUME AtCandidate PROVE ~closed
  BY <1>1, TopType DEF IInv, TypeOK, ShutEmpty, AtCandidate, Scanning
<1>2. ASSUME NEW r \in Requests, Cancel(r) PROVE ShutEmpty'
  BY <1>2 DEF Cancel, ShutEmpty
<1>3. ASSUME NEW r \in Requests,
             \/ AcquireClosed(r) \/ AcquireBusy(r) \/ AcquireQueued(r) \/ Release(r)
             \/ Responded(r) \/ PauseClientExtend(r) \/ PauseClientStart(r)
      PROVE  ShutEmpty'
  BY <1>3 DEF ShutEmpty, AcquireClosed, AcquireBusy, AcquireQueued, Release, Responded,
              PauseClientExtend, PauseClientStart, queueVars
<1>4. CASE Close \/ ScaleConcurrency \/ PauseGlobal
  BY <1>4 DEF ShutEmpty, Close, ScaleConcurrency, PauseGlobal, queueVars
<1>5. CASE PumpStep
  BY <1>1, <1>5 DEF ShutEmpty, PumpStep, PumpDeny, PumpSkipBlocked, PumpSkipEarly, PumpAdmit,
                    PumpReturns, PumpEnds, queueVars
<1>6. CASE TimerFires \/ StrayTimerFires \/ HoldTimerFires \/ Tick \/ UNCHANGED vars
  BY <1>6 DEF ShutEmpty, TimerFires, StrayTimerFires, HoldTimerFires, Tick, vars, queueVars
<1> QED
  BY <1>2, <1>3, <1>4, <1>5, <1>6 DEF Next

-----------------------------------------------------------------------------
(* How the abstract state follows from the concrete one *)

LEMMA GateEntered == Gate!Entered = Admitted
<1>1. \A r \in Requests : GateCall(stage[r]) = "entered" <=> stage[r] = "admitted"
  BY DEF GateCall
<1> QED
  BY <1>1 DEF Gate!Entered, Admitted

\* One request's stage changes: the abstract call of that request changes with it.
LEMMA GateCallStep ==
    ASSUME TypeOK, NEW r \in Requests, NEW to, stage' = [stage EXCEPT ![r] = to]
    PROVE  [q \in Requests |-> GateCall(stage'[q])] =
           [[q \in Requests |-> GateCall(stage[q])] EXCEPT ![r] = GateCall(to)]
BY DEF TypeOK

LEMMA GateStutter ==
    ASSUME UNCHANGED <<stage, probe, probeAttempt, closed>>
    PROVE  UNCHANGED Gate!vars
BY DEF Gate!vars

\* What stage, probe and closed become determines the abstract step.
LEMMA RefuseStep ==
    ASSUME TypeOK, NEW r \in Requests, stage[r] \in {"idle", "queued"},
           NEW to \in {"busy", "denied", "cancelled", "shut"},
           stage' = [stage EXCEPT ![r] = to], UNCHANGED <<probe, probeAttempt, closed>>
    PROVE  Gate!Refuse(r)
<1>1. GateCall(to) = "refused" /\ GateCall(stage[r]) \in {"new", "waiting"}
  BY DEF GateCall
<1> QED
  BY <1>1, GateCallStep DEF Gate!Refuse

LEMMA WaitStep ==
    ASSUME TypeOK, NEW r \in Requests, AcquireQueued(r)
    PROVE  Gate!Wait(r)
<1>1. GateCall("queued") = "waiting" /\ GateCall("idle") = "new"
  BY DEF GateCall
<1> QED
  BY <1>1, GateCallStep DEF Gate!Wait, AcquireQueued, probeVars

LEMMA LeaveStep ==
    ASSUME IInv, NEW r \in Requests, Release(r)
    PROVE  Gate!Leave(r)
<1>1. GateCall("released") = "left" /\ GateCall("admitted") = "entered"
  BY DEF GateCall
<1>2. /\ stage[r] = "admitted" /\ stage' = [stage EXCEPT ![r] = "released"] /\ closed' = closed
      /\ PassProbeOn(r)
  BY DEF Release
<1>3. probeAttempt = r => probe = "inFlight"
  BY RequestsAssumption DEF IInv, SingleProbe
<1>4. IF probeAttempt = r THEN GateLimit(probe') = "held" /\ probeAttempt' = Nobody
                          ELSE probe' = probe /\ probeAttempt' = probeAttempt
  BY <1>2, <1>3 DEF PassProbeOn, GateLimit, probeVars
<1> QED
  BY <1>1, <1>2, <1>4, GateCallStep DEF Gate!Leave, IInv

LEMMA PassStep ==
    ASSUME IInv, NEW r \in Requests, Responded(r)
    PROVE  Gate!PassLimit(r) \/ UNCHANGED Gate!vars
<1>1. stage[r] = "admitted" /\ stage' = stage /\ closed' = closed
  BY DEF Responded, MayAnswer
<1>2. CASE probe = "inFlight" /\ probeAttempt = r
  <2>1. probe' = "none" /\ probeAttempt' = Nobody
    BY <1>2 DEF Responded
  <2> QED
    BY <1>1, <1>2, <2>1 DEF Gate!PassLimit, GateCall, GateLimit
<1>3. CASE ~(probe = "inFlight" /\ probeAttempt = r)
  BY <1>1, <1>3, GateStutter DEF Responded, probeVars
<1> QED
  BY <1>2, <1>3

LEMMA MeetStep ==
    ASSUME IInv, NEW r \in Requests, PauseClientStart(r)
    PROVE  Gate!MeetLimit(r)
<1>1. /\ stage[r] = "admitted" /\ stage' = stage /\ closed' = closed /\ r \in RateLimited
      /\ probe' = "needed" /\ probeAttempt' = Nobody
      /\ probe = "none" \/ r = probeAttempt
  BY DEF PauseClientStart, MayAnswer, RecoveryUnderWay
<1> QED
  BY <1>1 DEF Gate!MeetLimit, GateCall, GateLimit

LEMMA ShutGate ==
    ASSUME TypeOK, Close
    PROVE  Gate!Shut
<1>1. \A r \in Requests :
        GateCall(stage'[r]) = IF GateCall(stage[r]) = "waiting" THEN "refused" ELSE GateCall(stage[r])
  BY DEF TypeOK, Stages, Close, GateCall
<1>2. ~closed /\ closed' = TRUE /\ probe' = probe /\ probeAttempt' = probeAttempt
  BY DEF Close, probeVars
<1> QED
  BY <1>1, <1>2 DEF Gate!Shut

LEMMA EnterStep ==
    ASSUME IInv, ShutEmpty, PumpAdmit
    PROVE  Gate!Enter(Candidate)
<1> DEFINE r == Candidate
<1>1. Top.index \in 1..Len(pending) /\ r \in Requests /\ stage[r] = "queued"
  BY CandidateQueued DEF IInv, PumpAdmit
<1>2. ~closed /\ closed' = closed
  BY <1>1 DEF ShutEmpty, PumpAdmit, IInv, TypeOK
<1>3. /\ stage' = [stage EXCEPT ![r] = "admitted"]
      /\ ~SlotsFull(r) /\ ~AwaitsProbe(r)
      /\ IF BecomesProbe(r) THEN probe' = "inFlight" /\ probeAttempt' = r
                            ELSE UNCHANGED <<probe, probeAttempt>>
  BY DEF PumpAdmit, MayEnterSoon
<1> HIDE DEF r
<1>4. Gate!SlotFree(r)
  <2>1. active \in Nat /\ concurrency \in 1..MaximumConcurrency /\ activeMedia \in Nat
    BY DEF IInv, TypeOK
  <2>2. CASE r \in Media
    BY <1>3, <2>1, <2>2, GateEntered, LimitsAssumption DEF SlotsFull, IInv, SlotsExact, Gate!SlotFree, Gate!Cardinality, Cardinality
  <2>3. CASE r \notin Media
    BY <1>3, <2>1, <2>3, GateEntered, LimitsAssumption DEF SlotsFull, IInv, SlotsExact, Gate!SlotFree, Gate!Cardinality, Cardinality
  <2> QED
    BY <2>2, <2>3
<1>5. GateCall("admitted") = "entered" /\ GateCall("queued") = "waiting"
  BY DEF GateCall
<1>6. \/ /\ r \in RateLimited \cap MayProbe /\ GateLimit(probe) = "held"
         /\ GateLimit(probe') = "testing" /\ probeAttempt' = r
      \/ /\ \/ r \notin RateLimited \/ GateLimit(probe) = "clear"
            \/ GateLimit(probe) = "held" /\ r \notin MayProbe
         /\ probe' = probe /\ probeAttempt' = probeAttempt
  BY <1>3 DEF BecomesProbe, AwaitsProbe, GateLimit, IInv, TypeOK
<1>7. /\ [q \in Requests |-> GateCall(stage'[q])] =
           [[q \in Requests |-> GateCall(stage[q])] EXCEPT ![r] = "entered"]
      /\ [q \in Requests |-> GateCall(stage[q])][r] = "waiting"
  BY <1>1, <1>3, <1>5, GateCallStep DEF IInv
<1>8. Gate!Enter(r)
  BY <1>2, <1>4, <1>6, <1>7 DEF Gate!Enter
<1> QED
  BY <1>8 DEF r

-----------------------------------------------------------------------------
LEMMA InitGate == Init => Gate!Init
BY DEF Init, Gate!Init, GateCall, GateLimit

LEMMA StepGate == IInv /\ ShutEmpty /\ [Next]_vars => [Gate!Next]_(Gate!vars)
<1> SUFFICES ASSUME IInv, ShutEmpty, [Next]_vars PROVE Gate!Next \/ UNCHANGED Gate!vars
  OBVIOUS
<1>1. ASSUME NEW r \in Requests, AcquireClosed(r) \/ AcquireBusy(r) PROVE Gate!Refuse(r)
  BY <1>1, RefuseStep DEF IInv, AcquireClosed, AcquireBusy, probeVars
<1>2. ASSUME NEW r \in Requests, AcquireQueued(r) PROVE Gate!Wait(r)
  BY <1>2, WaitStep DEF IInv
<1>3. ASSUME NEW r \in Requests, Cancel(r) PROVE Gate!Refuse(r)
  <2>1. stage[r] = "queued"
    BY <1>3 DEF Cancel, IInv, TypeOK, QueueExact, Queued, Range
  <2> QED
    BY <1>3, <2>1, RefuseStep DEF IInv, Cancel, probeVars
<1>4. ASSUME NEW r \in Requests, Release(r) PROVE Gate!Leave(r)
  BY <1>4, LeaveStep
<1>5. ASSUME NEW r \in Requests, Responded(r) PROVE Gate!PassLimit(r) \/ UNCHANGED Gate!vars
  BY <1>5, PassStep
<1>6. ASSUME NEW r \in Requests, PauseClientExtend(r) PROVE UNCHANGED Gate!vars
  BY <1>6, GateStutter DEF PauseClientExtend, probeVars
<1>7. ASSUME NEW r \in Requests, PauseClientStart(r) PROVE Gate!MeetLimit(r)
  BY <1>7, MeetStep
<1>8. CASE Close
  BY <1>8, ShutGate DEF Gate!Next, IInv
<1>9. CASE ScaleConcurrency \/ PauseGlobal \/ TimerFires \/ StrayTimerFires \/ HoldTimerFires \/ Tick
           \/ UNCHANGED vars
  BY <1>9, GateStutter
     DEF ScaleConcurrency, PauseGlobal, TimerFires, StrayTimerFires, HoldTimerFires, Tick, vars, probeVars
<1>10. CASE PumpDeny
  <2>1. Candidate \in Requests /\ stage[Candidate] = "queued"
    BY <1>10, CandidateQueued DEF IInv, PumpDeny
  <2>2. Gate!Refuse(Candidate)
    BY <1>10, <2>1, RefuseStep DEF IInv, PumpDeny, probeVars
  <2> QED
    BY <2>1, <2>2 DEF Gate!Next
<1>11. CASE PumpAdmit
  <2>1. Candidate \in Requests
    BY <1>11, CandidateQueued DEF IInv, PumpAdmit
  <2> QED
    BY <1>11, <2>1, EnterStep DEF Gate!Next
<1>12. CASE PumpSkipBlocked \/ PumpSkipEarly \/ PumpReturns \/ PumpEnds
  BY <1>12, GateStutter DEF PumpSkipBlocked, PumpSkipEarly, PumpReturns, PumpEnds, probeVars
<1> QED
  BY <1>1, <1>2, <1>3, <1>4, <1>5, <1>6, <1>7, <1>8, <1>9, <1>10, <1>11, <1>12
     DEF Next, PumpStep, Gate!Next

\* Seen by its callers, the admission is the gate: bounded slots, one test of an
\* unidentified limit at a time, nothing admitted after closure (admission.ts).
THEOREM GateImplemented == Spec => ImplementsGate
<1>1. Init => IInv /\ ShutEmpty /\ Gate!Init
  BY InitInv, InitGate DEF Init, ShutEmpty
<1>2. IInv /\ ShutEmpty /\ [Next]_vars => IInv' /\ ShutEmpty' /\ [Gate!Next]_(Gate!vars)
  BY StepInv, ShutStep, StepGate
<1> QED
  BY <1>1, <1>2, PTL DEF Spec, ImplementsGate, Gate!Spec

-----------------------------------------------------------------------------
(* Nothing waits unattended. *)

\* The top pump still comes to r; or some pump in progress will arm a timer in time for it.
ToScan(r) == ~Idle /\ \E i \in Top.index..Len(pending) : pending[i] = r
Promised(r) == \E f \in 1..Len(frames) : frames[f].earliest <= EntersAt(r)
Attended == \A r \in Queued : Wakes(r) \/ Promised(r) \/ ToScan(r)

\* Every wait ends at an instant of the model, and a pump in progress promises only later ones.
Timely ==
    /\ now <= Horizon /\ globalUntil <= Horizon /\ \A t \in Routes : routeUntil[t] <= Horizon
    /\ \A f \in 1..Len(frames) : now < frames[f].earliest

\* While pumps are in progress nobody needs to be woken: NoLostWakeup alone is not inductive.
WakeInv == IInv /\ ShutEmpty /\ Timely /\ Attended /\ NoSilentHold

LEMMA EntersInTime ==
    ASSUME IInv, Timely, NEW r \in Requests
    PROVE  /\ EntersAt(r) \in 0..Horizon /\ now \in Nat /\ Horizon \in Nat
           /\ EntersAt(r) < Never /\ now < Never
<1>1. /\ now \in Nat /\ globalUntil \in Nat /\ Horizon \in Nat /\ NotBefore[r] \in 0..Horizon
      /\ RouteOf[r] \in Routes /\ routeUntil[RouteOf[r]] \in Nat
  BY AttributesAssumption, LimitsAssumption DEF IInv, TypeOK
<1>2. RouteUntil(r) \in 0..Horizon
  BY <1>1 DEF Timely, RouteUntil
<1>3. Limited(r) \in 0..Horizon
  BY <1>1, <1>2 DEF Timely, Limited, Later
<1> QED
  BY <1>1, <1>3 DEF EntersAt, Later, Never, Timely

LEMMA EntersInTimeNext ==
    ASSUME IInv', Timely', NEW r \in Requests
    PROVE  EntersAt(r)' \in 0..Horizon /\ now' \in Nat /\ EntersAt(r)' < Never
<1>1. /\ now' \in Nat /\ globalUntil' \in Nat /\ Horizon \in Nat /\ NotBefore[r] \in 0..Horizon
      /\ RouteOf[r] \in Routes /\ routeUntil'[RouteOf[r]] \in Nat
  BY AttributesAssumption, LimitsAssumption DEF IInv, TypeOK
<1>2. RouteUntil(r)' \in 0..Horizon
  BY <1>1 DEF Timely, RouteUntil
<1>3. Limited(r)' \in 0..Horizon
  BY <1>1, <1>2 DEF Timely, Limited, Later
<1> QED
  BY <1>1, <1>3 DEF EntersAt, Later, Never

\* A pump that starts comes to everybody who waits, unless the admission is closed and nobody does.
Fresh(own) ==
    frames' = IF closed' THEN frames
              ELSE Append(frames, [index |-> 1, earliest |-> Never, own |-> own, calling |-> FALSE])

LEMMA PumpIsFresh ==
    ASSUME NEW own, Pump(own), closed' = closed
    PROVE  \E who : Fresh(who)
<1>1. Fresh(own)
  BY DEF Pump, Fresh
<1> QED
  BY <1>1

LEMMA FrontIs ==
    ASSUME NEW S, NEW s \in Seq(S), NEW n \in 1..Len(s)
    PROVE  Len(SubSeq(s, 1, n - 1)) = n - 1 /\ \A i \in 1..(n - 1) : SubSeq(s, 1, n - 1)[i] = s[i]
OBVIOUS

LEMMA ClosedQuiet ==
    ASSUME IInv', ShutEmpty', closed'
    PROVE  Attended' /\ NoSilentHold'
<1>1. pending' = <<>> /\ Queued' = {} /\ Range(pending') = {}
  BY DEF ShutEmpty, IInv, QueueExact, Range
<1>2. RateLimitHold' = "none"
  BY <1>1 DEF RateLimitHold
<1> QED
  BY <1>1, <1>2 DEF Attended, NoSilentHold

LEMMA FreshServes ==
    ASSUME IInv, IInv', ShutEmpty', Timely, now' = now, NEW own, Fresh(own)
    PROVE  Attended' /\ NoSilentHold' /\ \A f \in 1..Len(frames') : now' < frames'[f].earliest
<1> DEFINE frame == [index |-> 1, earliest |-> Never, own |-> own, calling |-> FALSE]
<1>1. frame.index = 1 /\ frame.earliest = Never
  OBVIOUS
<1>2. frames \in Seq(FrameType) /\ frames' \in Seq(FrameType)
  BY DEF IInv, TypeOK
<1>3. now < Never
  BY LimitsAssumption DEF Timely, Never, IInv, TypeOK
<1>4. CASE closed'
  BY <1>2, <1>4, ClosedQuiet DEF Fresh, Timely
<1>5. CASE ~closed'
  <2>1. frames' = Append(frames, frame)
    BY <1>5 DEF Fresh
  <2> HIDE DEF frame
  <2>2. /\ Len(frames') = Len(frames) + 1 /\ Len(frames) \in Nat /\ frames'[Len(frames')] = frame
        /\ \A f \in 1..Len(frames) : frames'[f] = frames[f]
    BY <1>2, <2>1, AppendProperties
  <2>3. ~Idle' /\ Top'.index = 1
    BY <1>1, <2>2 DEF Idle, Top
  <2>4. \A r \in Queued' : \E i \in 1..Len(pending') : pending'[i] = r
    BY DEF IInv, TypeOK, QueueExact, Range
  <2>5. Attended'
    BY <2>3, <2>4 DEF Attended, ToScan
  <2>6. \A f \in 1..Len(frames') : now' < frames'[f].earliest
    <3> SUFFICES ASSUME NEW f \in 1..Len(frames')
                 PROVE  now' < frames'[f].earliest
      OBVIOUS
    <3>1. CASE f \in 1..Len(frames)
      BY <3>1, <2>2 DEF Timely
    <3>2. CASE f \notin 1..Len(frames)
      <4>1. f = Len(frames')
        BY <3>2, <2>2
      <4> QED
        BY <4>1, <2>2, <1>1, <1>3
    <3> QED
      BY <3>1, <3>2
  <2> QED
    BY <2>3, <2>5, <2>6 DEF NoSilentHold
<1> QED
  BY <1>4, <1>5

\* An attempt that answered and still has to release wakes everybody.
LEMMA AnsweredServes ==
    ASSUME NEW a \in Admitted', a \in answered'
    PROVE  Attended' /\ NoSilentHold'
BY DEF Attended, NoSilentHold, Wakes

\* The instants stay in the model.
LEMMA TimelyWaits ==
    ASSUME WakeInv, [Next]_vars
    PROVE  /\ now' <= Horizon /\ globalUntil' <= Horizon /\ \A t \in Routes : routeUntil'[t] <= Horizon
           /\ now' = now \/ Idle
<1>0. /\ now \in Nat /\ Horizon \in Nat /\ RouteWaits \subseteq 0..Horizon /\ now <= Horizon
      /\ globalUntil <= Horizon /\ routeUntil \in [Routes -> Nat]
      /\ \A t \in Routes : routeUntil[t] <= Horizon
  BY LimitsAssumption DEF WakeInv, IInv, TypeOK, Timely
<1>1. (now' = now \/ Idle) /\ now' <= Horizon
  BY <1>0 DEF Next, AcquireClosed, AcquireBusy, AcquireQueued, Cancel, Release, Responded, PauseClientExtend,
     PauseClientStart, Close, ScaleConcurrency, PauseGlobal, PumpStep, PumpDeny, PumpSkipBlocked,
     PumpSkipEarly, PumpAdmit, PumpReturns, PumpEnds, TimerFires, StrayTimerFires, HoldTimerFires, Tick, vars
<1>2. globalUntil' <= Horizon
  <2>1. CASE PauseGlobal
    BY <2>1 DEF PauseGlobal
  <2>2. ASSUME NEW r \in Requests, PauseClientExtend(r)
        PROVE  globalUntil' <= Horizon
    BY <1>0, <2>2 DEF PauseClientExtend, PauseUnidentified, pauseVars
  <2>3. ASSUME NEW r \in Requests, PauseClientStart(r)
        PROVE  globalUntil' <= Horizon
    BY <1>0, <2>3 DEF PauseClientStart, PauseUnidentified, pauseVars
  <2>4. CASE ~PauseGlobal /\ \A r \in Requests : ~PauseClientExtend(r) /\ ~PauseClientStart(r)
    <3>1. globalUntil' = globalUntil
      BY <2>4 DEF Next, AcquireClosed, AcquireBusy, AcquireQueued, Cancel, Release, Responded, Close,
         ScaleConcurrency, PumpStep, PumpDeny, PumpSkipBlocked, PumpSkipEarly, PumpAdmit, PumpReturns,
         PumpEnds, TimerFires, StrayTimerFires, HoldTimerFires, Tick, vars, pauseVars
    <3> QED
      BY <3>1, <1>0
  <2> QED
    BY <2>1, <2>2, <2>3, <2>4
<1>3. \A t \in Routes : routeUntil'[t] <= Horizon
  <2>1. ASSUME NEW r \in Requests, Responded(r)
        PROVE  \A t \in Routes : routeUntil'[t] <= Horizon
    <3>1. routeUntil' \in [Routes -> RouteWaits]
      BY <2>1 DEF Responded, LearnRoutes
    <3>2. \A t \in Routes : routeUntil'[t] \in 0..Horizon
      BY <1>0, <3>1
    <3> QED
      BY <3>2, <1>0
  <2>2. CASE Close
    BY <1>0, <2>2 DEF Close
  <2>3. CASE PumpAdmit
    <3>1. Reserve(Candidate)
      BY <2>3 DEF PumpAdmit
    <3>2. CASE UNCHANGED rateVars
      BY <1>0, <3>2 DEF rateVars
    <3>3. CASE ~UNCHANGED rateVars
      <4>1. PICK until \in RouteWaits : routeUntil' = [routeUntil EXCEPT ![RouteOf[Candidate]] = until]
        BY <3>1, <3>3 DEF Reserve
      <4>2. until <= Horizon
        BY <1>0
      <4> QED
        BY <1>0, <4>1, <4>2
    <3> QED
      BY <3>2, <3>3
  <2>4. CASE ~Close /\ ~PumpAdmit /\ \A r \in Requests : ~Responded(r)
    <3>1. routeUntil' = routeUntil
      BY <2>4 DEF Next, AcquireClosed, AcquireBusy, AcquireQueued, Cancel, Release, PauseClientExtend,
         PauseClientStart, PauseGlobal, ScaleConcurrency, PumpStep, PumpDeny, PumpSkipBlocked, PumpSkipEarly,
         PumpReturns, PumpEnds, TimerFires, StrayTimerFires, HoldTimerFires, Tick, vars, rateVars
    <3> QED
      BY <3>1, <1>0
  <2> QED
    BY <2>1, <2>2, <2>3, <2>4
<1> QED
  BY <1>1, <1>2, <1>3

\* Whoever will be woken still will be after a step that ends no wake-up and lets nobody in earlier.
LEMMA WakesKept ==
    ASSUME NEW r \in Requests, Wakes(r), IInv, Timely, IInv', Timely',
           \A t \in {timer} \cup stray : t = NoTimer \/ t \in {timer'} \cup stray',
           Later(EntersAt(r), now) <= Later(EntersAt(r)', now'),
           SlotsFull(r) => SlotsFull(r)', Admitted \subseteq Admitted',
           AwaitsProbe(r) => AwaitsProbe(r)' /\ probeAttempt' = probeAttempt,
           answered \subseteq answered'
    PROVE  Wakes(r)'
<1>1. CASE \E t \in {timer} \cup stray : t # NoTimer /\ t <= Later(EntersAt(r), now)
  <2>1. PICK t \in {timer} \cup stray : t # NoTimer /\ t <= Later(EntersAt(r), now)
    BY <1>1
  <2>2. t \in {timer'} \cup stray' /\ t \in Nat
    BY <2>1 DEF IInv, TypeOK
  <2>3. Later(EntersAt(r), now) \in Nat /\ Later(EntersAt(r)', now') \in Nat
    <3>1. EntersAt(r) \in 0..Horizon /\ now \in Nat /\ Horizon \in Nat
      BY EntersInTime
    <3>2. EntersAt(r)' \in 0..Horizon /\ now' \in Nat
      BY EntersInTimeNext
    <3> QED
      BY <3>1, <3>2 DEF Later
  <2>4. t <= Later(EntersAt(r)', now')
    BY <2>1, <2>2, <2>3
  <2> QED
    BY <2>1, <2>2, <2>4 DEF Wakes
<1>2. CASE SlotsFull(r) /\ \E a \in Admitted : a \in Media <=> r \in Media
  BY <1>2 DEF Wakes
<1>3. CASE AwaitsProbe(r) /\ probeAttempt \in Admitted
  BY <1>3 DEF Wakes
<1>4. CASE Admitted \cap answered # {}
  BY <1>4 DEF Wakes
<1> QED
  BY <1>1, <1>2, <1>3, <1>4 DEF Wakes

LEMMA EntersSame ==
    ASSUME NEW r, UNCHANGED <<now, globalUntil, routeUntil>>
    PROVE  EntersAt(r)' = EntersAt(r)
BY DEF EntersAt, Limited, RouteUntil, Later

\* A step that changes nothing anybody waits for
LEMMA QuietServes ==
    ASSUME WakeInv, UNCHANGED <<now, pending, slotVars, concurrency, pauseVars, probe, probeAttempt,
                                routeUntil, timerVars, answered, frames>>,
           UNCHANGED stage \/ \E r \in Requests : /\ stage[r] = "idle"
                                                 /\ \E to \in {"shut", "busy"} : stage' = [stage EXCEPT ![r] = to]
    PROVE  Attended'
<1>1. Queued' = Queued /\ Admitted' = Admitted
  BY DEF Queued, Admitted, WakeInv, IInv, TypeOK
<1>2. \A r \in Queued : r \in Requests
  BY DEF Queued
<1>3. \A r \in Requests : EntersAt(r)' = EntersAt(r)
  BY EntersSame DEF pauseVars
<1>4. \A r \in Requests : (SlotsFull(r)' <=> SlotsFull(r)) /\ (AwaitsProbe(r)' <=> AwaitsProbe(r))
  BY DEF SlotsFull, AwaitsProbe, slotVars
<1>5. \A r \in Requests : Wakes(r) => Wakes(r)'
  BY <1>1, <1>3, <1>4 DEF Wakes, timerVars
<1>6. \A r \in Requests : (Promised(r) => Promised(r)') /\ (ToScan(r) => ToScan(r)')
  BY <1>3 DEF Promised, ToScan, Idle, Top
<1> QED
  BY <1>1, <1>2, <1>5, <1>6 DEF WakeInv, Attended

\* The request the pump stands at leaves the queue: the others stay where the pump still comes to them.
LEMMA ScanOn ==
    ASSUME IInv, AtCandidate, Dequeue(Top.index), NEW r, r # Candidate, ToScan(r),
           frames' = Resumed(Candidate)
    PROVE  ToScan(r)'
<1> DEFINE k == Top.index
<1>1. k \in 1..Len(pending) /\ ~Idle /\ pending \in Seq(Requests)
  BY CandidateQueued DEF IInv, TypeOK, AtCandidate, Scanning
<1>2. PICK i \in k..Len(pending) : pending[i] = r
  BY DEF ToScan
<1>3. i # k /\ i \in 1..Len(pending) /\ Len(pending) \in Nat /\ k \in Nat
  BY <1>1, <1>2 DEF Candidate
<1>4. pending' = RemoveAt(pending, k)
  BY DEF Dequeue
<1>5. Top'.index = k /\ ~Idle'
  <2>1. Len(frames) \in 1..Len(frames) /\ frames \in Seq(FrameType) /\ Top \in FrameType
    BY <1>1, TopType DEF IInv, TypeOK
  <2>2. Len(Resumed(Candidate)) = Len(frames) /\ Resumed(Candidate) # <<>>
        /\ Resumed(Candidate)[Len(frames)].index = Top.index
    <3> DEFINE back == \A f \in 1..Len(frames) : frames[f].own # Candidate
    <3>1. [Top EXCEPT !.calling = back].index = Top.index
      BY <2>1 DEF FrameType
    <3>2. Resumed(Candidate) = [frames EXCEPT ![Len(frames)] = [Top EXCEPT !.calling = back]]
      BY DEF Resumed, Top
    <3> HIDE DEF back
    <3> QED
      BY <2>1, <3>1, <3>2
  <2> QED
    BY <2>2 DEF Top, Idle
<1> HIDE DEF k
<1>6. pending'[i - 1] = r /\ i - 1 \in k..Len(pending')
  <2>1. i - 1 \in 1..(Len(pending) - 1) /\ ~(i - 1 < k)
    BY <1>1, <1>2, <1>3
  <2>2. Len(pending') = Len(pending) - 1 /\ pending'[i - 1] = pending[(i - 1) + 1]
    BY <1>1, <1>4, <2>1, RemoveAtIs
  <2> QED
    BY <1>2, <1>3, <2>1, <2>2
<1> QED
  BY <1>5, <1>6 DEF ToScan

LEMMA ResumedPromises ==
    ASSUME IInv, ~Idle, NEW r, frames' = Resumed(r)
    PROVE  Len(frames') = Len(frames) /\ \A f \in 1..Len(frames) : frames'[f].earliest = frames[f].earliest
<1>1. Len(frames) \in 1..Len(frames) /\ frames \in Seq(FrameType) /\ Top \in FrameType
  BY TopType DEF IInv, TypeOK
<1> DEFINE back == \A f \in 1..Len(frames) : frames[f].own # r
<1>2. [Top EXCEPT !.calling = back].earliest = Top.earliest
  BY <1>1 DEF FrameType
<1>3. frames' = [frames EXCEPT ![Len(frames)] = [Top EXCEPT !.calling = back]]
  BY DEF Resumed, Top
<1>4. Top = frames[Len(frames)]
  BY DEF Top
<1> HIDE DEF back
<1> QED
  BY <1>1, <1>2, <1>3, <1>4

LEMMA DenyServes ==
    ASSUME WakeInv, IInv', PumpDeny
    PROVE  Attended' /\ \A f \in 1..Len(frames') : now' < frames'[f].earliest
<1>1. Candidate \in Requests /\ stage[Candidate] = "queued" /\ ~Idle /\ AtCandidate /\ Dequeue(Top.index)
  BY CandidateQueued DEF WakeInv, IInv, PumpDeny, AtCandidate, Scanning
<1>2. Len(frames') = Len(frames) /\ \A f \in 1..Len(frames) : frames'[f].earliest = frames[f].earliest
  BY <1>1, ResumedPromises DEF WakeInv, PumpDeny
<1>3. Queued' = Queued \ {Candidate} /\ Admitted' = Admitted
  BY <1>1 DEF PumpDeny, Queued, Admitted, WakeInv, IInv, TypeOK
<1>4. ASSUME NEW r \in Requests
      PROVE  /\ Wakes(r) => Wakes(r)'
             /\ Promised(r) => Promised(r)'
  <2>1. EntersAt(r)' = EntersAt(r)
    BY EntersSame DEF PumpDeny, pauseVars, rateVars
  <2>2. (SlotsFull(r)' <=> SlotsFull(r)) /\ (AwaitsProbe(r)' <=> AwaitsProbe(r))
    BY DEF SlotsFull, AwaitsProbe, PumpDeny, slotVars, probeVars
  <2>3. UNCHANGED <<now, timer, stray, probeAttempt, answered>>
    BY DEF PumpDeny, timerVars, probeVars
  <2> QED
    BY <1>2, <1>3, <2>1, <2>2, <2>3 DEF Wakes, Promised
<1>5. ASSUME NEW r \in Queued'
      PROVE  ToScan(r) => ToScan(r)'
  BY <1>1, <1>3, <1>5, ScanOn DEF WakeInv, PumpDeny
<1>6. Attended'
  BY <1>3, <1>4, <1>5 DEF Attended, WakeInv, Queued
<1> QED
  BY <1>2, <1>6 DEF WakeInv, Timely, PumpDeny

\* Reserving moves only the waits of a route that may be entered now, so nobody's wait becomes shorter.
LEMMA AdmitServes ==
    ASSUME WakeInv, IInv', Timely', PumpAdmit
    PROVE  Attended'
<1> DEFINE c == Candidate
<1>1. c \in Requests /\ stage[c] = "queued" /\ ~Idle /\ AtCandidate /\ Dequeue(Top.index)
  BY CandidateQueued DEF WakeInv, IInv, PumpAdmit, AtCandidate, Scanning
<1>2. /\ Reserve(c) /\ TakeSlot(c) /\ stage' = [stage EXCEPT ![c] = "admitted"] /\ ~SlotsFull(c)
      /\ ~AwaitsProbe(c) /\ EntersAt(c) <= now /\ frames' = Resumed(c)
      /\ BecomesProbe(c) \/ UNCHANGED <<probe, probeAttempt>>
      /\ UNCHANGED <<now, concurrency, globalUntil, timer, stray, answered>>
  BY DEF PumpAdmit, MayEnterSoon, pauseVars, timerVars
<1>3. Len(frames') = Len(frames) /\ \A f \in 1..Len(frames) : frames'[f].earliest = frames[f].earliest
  BY <1>1, <1>2, ResumedPromises DEF WakeInv
<1>4. ASSUME NEW r \in Queued'
      PROVE  r # c /\ (ToScan(r) => ToScan(r)')
  <2>1. r # c
    BY <1>1, <1>2, <1>4 DEF Queued, WakeInv, IInv, TypeOK
  <2> QED
    BY <1>1, <1>2, <2>1, ScanOn DEF WakeInv
<1> HIDE DEF c
<1>5. Queued' = Queued \ {c} /\ Admitted' = Admitted \cup {c}
  BY <1>1, <1>2 DEF Queued, Admitted, WakeInv, IInv, TypeOK
<1>6. ASSUME NEW r \in Requests
      PROVE  EntersAt(r) <= EntersAt(r)'
  <2>0. /\ now \in Nat /\ globalUntil \in Nat /\ Horizon \in Nat
        /\ NotBefore[r] \in Nat /\ RouteOf[r] \in Routes /\ routeUntil \in [Routes -> Nat]
        /\ RouteOf[c] \in Routes /\ NotBefore[c] \in Nat /\ routeUntil' \in [Routes -> Nat]
    <3>1. Horizon \in Nat /\ NotBefore \in [Requests -> 0..Horizon] /\ RouteOf \in [Requests -> Routes]
      BY AttributesAssumption, LimitsAssumption
    <3>2. /\ now \in Nat /\ globalUntil \in Nat /\ routeUntil \in [Routes -> Nat]
          /\ routeUntil' \in [Routes -> Nat]
      BY DEF WakeInv, IInv, TypeOK
    <3>3. NotBefore[r] \in 0..Horizon /\ NotBefore[c] \in 0..Horizon
      BY <1>1, <3>1
    <3> QED
      BY <1>1, <3>1, <3>2, <3>3
  <2>1. CASE UNCHANGED rateVars
    <3>1. EntersAt(r)' = EntersAt(r)
      BY <1>2, <2>1, EntersSame DEF rateVars
    <3>2. EntersAt(r) \in Nat
      BY EntersInTime DEF WakeInv
    <3> QED
      BY <3>1, <3>2
  <2>2. CASE ~UNCHANGED rateVars
    <3>1. PICK until \in RouteWaits : c \in RateLimited /\ until > now
                                       /\ routeUntil' = [routeUntil EXCEPT ![RouteOf[c]] = until]
      BY <1>2, <2>2 DEF Reserve
    <3>2. routeUntil[RouteOf[c]] <= now
      BY <1>2, <2>0, <3>1 DEF EntersAt, Limited, RouteUntil, Later
    <3>3. until \in Nat
      BY LimitsAssumption
    <3>4. RouteUntil(r) \in Nat /\ RouteUntil(r)' \in Nat /\ RouteUntil(r) <= RouteUntil(r)'
      BY <1>2, <2>0, <3>1, <3>2, <3>3 DEF RouteUntil
    <3>5. Limited(r) \in Nat /\ Limited(r)' \in Nat /\ Limited(r) <= Limited(r)'
      BY <1>2, <2>0, <3>4 DEF Limited, Later
    <3> QED
      BY <2>0, <3>5 DEF EntersAt, Later
  <2> QED
    BY <2>1, <2>2
<1>7. ASSUME NEW r \in Requests
      PROVE  EntersAt(r) \in Nat /\ EntersAt(r)' \in Nat /\ now \in Nat
  BY <1>7, EntersInTime, EntersInTimeNext DEF WakeInv
<1>8. ASSUME NEW r \in Requests, SlotsFull(r)
      PROVE  SlotsFull(r)'
  <2>1. active \in Nat /\ activeMedia \in Nat /\ concurrency \in Nat /\ MediaConcurrency \in Nat
    BY LimitsAssumption DEF WakeInv, IInv, TypeOK
  <2> QED
    BY <1>2, <1>8, <2>1 DEF SlotsFull, TakeSlot
<1>9. ASSUME NEW r \in Requests, AwaitsProbe(r)
      PROVE  AwaitsProbe(r)' /\ probeAttempt' = probeAttempt
  BY <1>2, <1>9 DEF AwaitsProbe, BecomesProbe
<1>10. ASSUME NEW r \in Requests, Wakes(r)
       PROVE  Wakes(r)'
  <2>1. Later(EntersAt(r), now) <= Later(EntersAt(r)', now')
    BY <1>2, <1>6, <1>7 DEF Later
  <2> QED
    BY <1>2, <1>5, <1>8, <1>9, <1>10, <2>1, WakesKept DEF WakeInv
<1>11. ASSUME NEW r \in Requests, Promised(r)
       PROVE  Promised(r)'
  <2>1. PICK f \in 1..Len(frames) : frames[f].earliest <= EntersAt(r)
    BY <1>11 DEF Promised
  <2>2. frames[f].earliest \in Nat
    <3>1. frames[f] \in FrameType
      BY DEF WakeInv, IInv, TypeOK
    <3> QED
      BY <3>1 DEF FrameType
  <2>3. frames'[f].earliest <= EntersAt(r)'
    BY <1>3, <1>6, <1>7, <2>1, <2>2
  <2> QED
    BY <1>3, <2>3 DEF Promised
<1> QED
  BY <1>4, <1>5, <1>10, <1>11 DEF WakeInv, Attended, Queued

\* A pump that passes a request by leaves it to a slot, to the probe, or to its own timer.
LEMMA SkipServes ==
    ASSUME WakeInv, IInv', PumpSkipBlocked \/ PumpSkipEarly \/ PumpReturns
    PROVE  Attended' /\ \A f \in 1..Len(frames') : now' < frames'[f].earliest
<1> DEFINE n == Len(frames)
<1>1. /\ ~Idle /\ n \in 1..n /\ n \in Nat /\ frames \in Seq(FrameType) /\ Top = frames[n]
      /\ Top \in FrameType /\ Top.earliest \in Nat /\ Top.index \in Nat
  <2>1. ~Idle
    BY DEF PumpSkipBlocked, PumpSkipEarly, PumpReturns, AtCandidate, Scanning
  <2> QED
    BY <2>1, TopType DEF WakeInv, IInv, TypeOK, Top
<1>2. /\ UNCHANGED <<now, pending, active, activeMedia, concurrency, globalUntil, probe, probeAttempt,
                     routeUntil, timer, stray, stage, answered>>
  BY DEF PumpSkipBlocked, PumpSkipEarly, PumpReturns, queueVars, slotVars, pauseVars, probeVars, rateVars,
         timerVars
<1>3. PICK top \in FrameType :
        /\ frames' = [frames EXCEPT ![n] = top]
        /\ PumpReturns => top.index = Top.index /\ top.earliest = Top.earliest
        /\ ~PumpReturns => top.index = Top.index + 1 /\ AtCandidate /\ top.earliest <= Top.earliest
        /\ PumpSkipBlocked => top.earliest = Top.earliest
        /\ ~PumpReturns /\ ~PumpSkipBlocked => top.earliest <= EntersAt(Candidate)
        /\ now < top.earliest
  <2>0. now < Top.earliest
    BY <1>1 DEF WakeInv, Timely
  <2>1. CASE PumpReturns
    <3> DEFINE top == [Top EXCEPT !.calling = FALSE]
    <3>1. top \in FrameType /\ top.index = Top.index /\ top.earliest = Top.earliest
      BY <1>1 DEF FrameType
    <3>2. frames' = [frames EXCEPT ![n] = top]
      BY <1>1, <2>1 DEF PumpReturns
    <3>3. ~PumpSkipBlocked
      BY <2>1 DEF PumpReturns, PumpSkipBlocked, AtCandidate, Scanning
    <3> HIDE DEF top
    <3> QED
      BY <2>0, <2>1, <3>1, <3>2, <3>3
  <2>2. CASE PumpSkipBlocked
    <3> DEFINE top == [Top EXCEPT !.index = @ + 1]
    <3>0. Top \in FrameType
      BY <1>1
    <3>1. top \in FrameType
      BY <3>0 DEF FrameType
    <3>2. top.index = Top.index + 1 /\ top.earliest = Top.earliest
      BY <1>1 DEF FrameType
    <3>3. frames' = [frames EXCEPT ![n] = top]
      BY <1>1, <2>2 DEF PumpSkipBlocked
    <3>4. ~PumpReturns /\ AtCandidate
      BY <2>2 DEF PumpReturns, PumpSkipBlocked, AtCandidate, Scanning
    <3> HIDE DEF top
    <3>5. top.earliest <= Top.earliest
      BY <1>1, <3>2
    <3> QED
      BY <2>0, <2>2, <3>1, <3>2, <3>3, <3>4, <3>5
  <2>3. CASE PumpSkipEarly /\ ~PumpSkipBlocked
    <3> DEFINE soon == SoonestEntry(Top.earliest, Candidate)
               top == [index |-> Top.index + 1, earliest |-> soon, own |-> Top.own, calling |-> FALSE]
    <3>1. Candidate \in Requests /\ now < EntersAt(Candidate) /\ AtCandidate /\ ~PumpReturns
      BY <2>3, CandidateQueued DEF WakeInv, IInv, PumpSkipEarly, PumpReturns, AtCandidate, Scanning
    <3>2. EntersAt(Candidate) \in Nat /\ now \in Nat
      BY <3>1, EntersInTime DEF WakeInv
    <3>3. soon \in Nat /\ soon <= Top.earliest /\ soon <= EntersAt(Candidate) /\ now < soon
      BY <1>1, <2>0, <3>1, <3>2 DEF SoonestEntry, Earlier
    <3>4. frames' = [frames EXCEPT ![n] = top]
      BY <2>3 DEF PumpSkipEarly
    <3> HIDE DEF soon
    <3>5. top \in FrameType /\ top.index = Top.index + 1 /\ top.earliest = soon
      BY <1>1, <3>3 DEF FrameType
    <3> HIDE DEF top
    <3> QED
      BY <2>3, <3>1, <3>3, <3>4, <3>5
  <2> QED
    BY <2>1, <2>2, <2>3
<1>4. /\ Len(frames') = n /\ frames'[n] = top /\ \A f \in 1..n : f # n => frames'[f] = frames[f]
      /\ ~Idle' /\ Top' = top
  <2>1. Len(frames') = n /\ frames'[n] = top /\ (\A f \in 1..n : f # n => frames'[f] = frames[f])
    BY <1>1, <1>3
  <2>2. frames' # <<>>
    BY <1>1, <2>1
  <2> QED
    BY <2>1, <2>2 DEF Idle, Top
<1>5. \A f \in 1..n : now < frames[f].earliest /\ frames[f].earliest \in Nat /\ now \in Nat
  <2>1. \A f \in 1..n : frames[f] \in FrameType
    BY <1>1
  <2> QED
    BY <2>1 DEF WakeInv, Timely, IInv, TypeOK, FrameType
<1> HIDE DEF n
<1>6. \A f \in 1..Len(frames') : now' < frames'[f].earliest
  BY <1>2, <1>3, <1>4, <1>5
<1>7. ASSUME NEW r \in Requests
      PROVE  /\ EntersAt(r)' = EntersAt(r) /\ (SlotsFull(r)' <=> SlotsFull(r))
             /\ (AwaitsProbe(r)' <=> AwaitsProbe(r)) /\ EntersAt(r) \in Nat
  BY <1>2, <1>7, EntersSame, EntersInTime DEF SlotsFull, AwaitsProbe, WakeInv
<1>8. Queued' = Queued /\ Admitted' = Admitted
  BY <1>2 DEF Queued, Admitted
<1>9. ASSUME NEW r \in Requests, Wakes(r)
      PROVE  Wakes(r)'
  BY <1>2, <1>7, <1>8, <1>9 DEF Wakes
<1>10. ASSUME NEW r \in Requests, Promised(r)
       PROVE  Promised(r)'
  <2>1. PICK f \in 1..n : frames[f].earliest <= EntersAt(r)
    BY <1>10 DEF Promised, n
  <2>2. frames'[f].earliest \in Nat /\ frames'[f].earliest <= frames[f].earliest
    <3>1. top.earliest \in Nat /\ top.earliest <= Top.earliest
      BY <1>1, <1>3 DEF FrameType
    <3> QED
      BY <1>1, <1>4, <1>5, <2>1, <3>1
  <2>3. frames'[f].earliest <= EntersAt(r)'
    BY <1>5, <1>7, <2>1, <2>2
  <2> QED
    BY <1>4, <2>1, <2>3 DEF Promised
<1>11. ASSUME NEW r \in Requests, ToScan(r)
       PROVE  Wakes(r)' \/ Promised(r)' \/ ToScan(r)'
  <2>1. PICK i \in Top.index..Len(pending) : pending[i] = r
    BY <1>11 DEF ToScan
  <2>2. Len(pending) \in Nat
    BY DEF WakeInv, IInv, TypeOK
  <2>3. CASE i \in top.index..Len(pending)
    BY <1>2, <1>4, <2>1, <2>3 DEF ToScan
  <2>4. CASE i \notin top.index..Len(pending)
    <3>1. ~PumpReturns /\ i = Top.index /\ AtCandidate /\ r = Candidate
      BY <1>1, <1>3, <2>1, <2>2, <2>4 DEF Candidate
    <3>2. CASE ~PumpSkipBlocked
      <4>1. top.earliest <= EntersAt(r)'
        BY <1>3, <1>7, <3>1, <3>2
      <4> QED
        BY <1>1, <1>4, <4>1 DEF Promised
    <3>3. CASE PumpSkipBlocked /\ SlotsFull(r)
      <4>1. \E a \in Admitted : a \in Media <=> r \in Media
        <5>2. active = Cardinality(Admitted \ Media) /\ activeMedia = Cardinality(Admitted \cap Media)
              /\ concurrency \in 1..MaximumConcurrency
          BY DEF WakeInv, IInv, SlotsExact, TypeOK
        <5>3. MediaConcurrency \in Nat \ {0} /\ MaximumConcurrency \in Nat
          BY LimitsAssumption
        <5>4. IF r \in Media THEN activeMedia # 0 ELSE active # 0
          <6>1. IF r \in Media THEN activeMedia >= MediaConcurrency ELSE active >= concurrency
            BY <3>3 DEF SlotsFull
          <6>2. active \in Nat /\ activeMedia \in Nat
            BY DEF WakeInv, IInv, TypeOK
          <6> QED
            BY <5>2, <5>3, <6>1, <6>2
        <5>5. IF r \in Media THEN Admitted \cap Media # {} ELSE Admitted \ Media # {}
          BY <5>2, <5>4, FS_EmptySet
        <5> QED
          BY <5>5
      <4> QED
        BY <1>7, <1>8, <3>3, <4>1 DEF Wakes
    <3>4. CASE PumpSkipBlocked /\ AwaitsProbe(r)
      <4>1. probeAttempt \in Admitted
        BY <3>4 DEF AwaitsProbe, WakeInv, IInv, SingleProbe, Testing, Admitted, TypeOK
      <4> QED
        BY <1>2, <1>7, <1>8, <3>4, <4>1 DEF Wakes
    <3> QED
      BY <3>1, <3>2, <3>3, <3>4 DEF PumpSkipBlocked
  <2> QED
    BY <2>3, <2>4
<1> QED
  BY <1>6, <1>8, <1>9, <1>10, <1>11 DEF WakeInv, Attended, Queued

\* A pump that ends arms the timer it promised, and reports what holds the queue.
LEMMA EndServes ==
    ASSUME WakeInv, IInv', Timely', PumpEnds
    PROVE  Attended' /\ NoSilentHold' /\ \A f \in 1..Len(frames') : now' < frames'[f].earliest
<1> DEFINE n == Len(frames)
<1>1. /\ ~Idle /\ n \in 1..n /\ n \in Nat /\ frames \in Seq(FrameType) /\ Top = frames[n]
      /\ Top.earliest \in Nat
  BY TopType DEF PumpEnds, Scanning, WakeInv, IInv, TypeOK, Top
<1>2. /\ UNCHANGED <<now, pending, active, activeMedia, concurrency, globalUntil, pauseKind, probe, probeAttempt,
                     routeUntil, stage, answered>>
      /\ frames' = SubSeq(frames, 1, n - 1) /\ holdReason' = RateLimitHold
      /\ IF Top.earliest = Never THEN UNCHANGED timerVars ELSE ArmTimer(Top.earliest)
      /\ Top.index > Len(pending)
  BY DEF PumpEnds, queueVars, slotVars, pauseVars, probeVars, rateVars, Below, TrackHold
<1>3. Len(frames') = n - 1 /\ \A f \in 1..(n - 1) : frames'[f] = frames[f]
  BY <1>1, <1>2, FrontIs
<1> HIDE DEF n
<1>4. \A f \in 1..Len(frames') : now' < frames'[f].earliest
  BY <1>1, <1>2, <1>3 DEF WakeInv, Timely, n
<1>5. Queued' = Queued /\ Admitted' = Admitted
  BY <1>2 DEF Queued, Admitted
<1>6. \A t \in {timer} \cup stray : t = NoTimer \/ t \in {timer'} \cup stray'
  BY <1>2 DEF ArmTimer, timerVars
<1>7. ASSUME NEW r \in Requests
      PROVE  /\ EntersAt(r)' = EntersAt(r) /\ (SlotsFull(r)' <=> SlotsFull(r))
             /\ (AwaitsProbe(r)' <=> AwaitsProbe(r))
             /\ EntersAt(r) \in Nat /\ now \in Nat /\ EntersAt(r) < Never /\ Never \in Nat
  <2>1. Horizon \in Nat
    BY LimitsAssumption
  <2> QED
    BY <1>2, <1>7, <2>1, EntersSame, EntersInTime DEF SlotsFull, AwaitsProbe, WakeInv, Never
<1>8. ASSUME NEW r \in Requests, Wakes(r)
      PROVE  Wakes(r)'
  <2>1. Later(EntersAt(r), now) <= Later(EntersAt(r)', now')
    BY <1>2, <1>7 DEF Later
  <2> QED
    BY <1>2, <1>5, <1>6, <1>7, <1>8, <2>1, WakesKept DEF WakeInv
<1>9. ASSUME NEW r \in Requests, Promised(r)
      PROVE  Wakes(r)' \/ Promised(r)'
  <2>1. PICK f \in 1..n : frames[f].earliest <= EntersAt(r)
    BY <1>9 DEF Promised, n
  <2>2. CASE f \in 1..(n - 1)
    BY <1>3, <1>7, <2>1, <2>2 DEF Promised
  <2>3. CASE f \notin 1..(n - 1)
    <3>1. f = n
      BY <1>1, <2>1, <2>3
    <3>2. Top.earliest <= EntersAt(r) /\ now < Top.earliest /\ Top.earliest # Never
      BY <1>1, <1>7, <2>1, <3>1 DEF WakeInv, Timely, n
    <3>3. timer' = now + Earlier(TimerSpan, Later(1, Top.earliest - now))
      BY <1>2, <3>2 DEF ArmTimer
    <3>4. TimerSpan \in Nat
      BY LimitsAssumption
    <3>5. timer' <= Later(EntersAt(r)', now') /\ timer' # NoTimer
      <4> DEFINE e == Top.earliest
      <4>1. e \in Nat /\ now \in Nat /\ TimerSpan \in Nat /\ now < e /\ EntersAt(r) \in Nat
        BY <1>1, <1>7, <3>2, <3>4
      <4>2. timer' = now + Earlier(TimerSpan, Later(1, e - now)) /\ e <= EntersAt(r)
        BY <3>2, <3>3
      <4> HIDE DEF e
      <4>3. timer' \in Nat /\ timer' <= EntersAt(r)
        BY <4>1, <4>2 DEF Earlier, Later
      <4>4. Later(EntersAt(r)', now') = Later(EntersAt(r), now)
        BY <1>2, <1>7
      <4> QED
        BY <4>1, <4>3, <4>4 DEF Later, NoTimer
    <3> QED
      BY <3>5 DEF Wakes
  <2> QED
    BY <2>2, <2>3
<1>10. ASSUME NEW r
       PROVE  ~ToScan(r)
  <2>1. Top.index \in Nat
    BY <1>1, TopType DEF WakeInv, IInv
  <2>2. Len(pending) \in Nat
    BY DEF WakeInv, IInv, TypeOK
  <2> QED
    BY <1>2, <2>1, <2>2 DEF ToScan
<1>11. Attended'
  BY <1>5, <1>8, <1>9, <1>10 DEF WakeInv, Attended, Queued
<1>12. RateLimitHold' = RateLimitHold
  BY <1>2 DEF RateLimitHold, RouteUntil
<1>13. NoSilentHold'
  BY <1>2, <1>12 DEF NoSilentHold
<1> QED
  BY <1>4, <1>11, <1>13

\* As time passes waits end: a timer is still due no later than what it wakes.
LEMMA TickServes ==
    ASSUME WakeInv, IInv', Timely', Tick
    PROVE  Attended' /\ NoSilentHold'
<1>1. /\ frames = <<>> /\ frames' = <<>> /\ now' = now + 1 /\ now \in Nat
      /\ UNCHANGED <<pending, active, activeMedia, concurrency, globalUntil, pauseKind, probe, probeAttempt,
                     routeUntil, timer, stray, stage, answered, holdReason>>
  BY DEF Tick, Idle, queueVars, slotVars, pauseVars, probeVars, rateVars, timerVars, holdVars, WakeInv, IInv, TypeOK
<1>2. Queued' = Queued /\ Admitted' = Admitted
  BY <1>1 DEF Queued, Admitted
<1>3. ASSUME NEW r \in Requests
      PROVE  /\ Later(EntersAt(r), now) <= Later(EntersAt(r)', now')
             /\ RouteUntil(r)' # 0 => RouteUntil(r) # 0
  <2>1. /\ globalUntil \in Nat /\ Horizon \in Nat /\ NotBefore[r] \in 0..Horizon
        /\ routeUntil[RouteOf[r]] \in Nat
    BY AttributesAssumption, LimitsAssumption DEF WakeInv, IInv, TypeOK
  <2> DEFINE w == routeUntil[RouteOf[r]]
             b == NotBefore[r]
  <2>2. RouteUntil(r) = (IF w > now THEN w ELSE 0) /\ RouteUntil(r)' = (IF w > now + 1 THEN w ELSE 0)
    BY <1>1 DEF RouteUntil
  <2>3. w \in Nat /\ b \in Nat
    BY <2>1
  <2>4. /\ EntersAt(r) = Later(b, IF r \in RateLimited THEN Later(globalUntil, RouteUntil(r)) ELSE 0)
        /\ EntersAt(r)' = Later(b, IF r \in RateLimited THEN Later(globalUntil, RouteUntil(r)') ELSE 0)
    BY <1>1 DEF EntersAt, Limited, Later
  <2> HIDE DEF w, b
  <2> QED
    BY <1>1, <2>1, <2>2, <2>3, <2>4 DEF Later
<1>4. ASSUME NEW r \in Requests, Wakes(r)
      PROVE  Wakes(r)'
  <2>1. (SlotsFull(r)' <=> SlotsFull(r)) /\ (AwaitsProbe(r)' <=> AwaitsProbe(r))
    BY <1>1 DEF SlotsFull, AwaitsProbe
  <2>2. \A t \in {timer} \cup stray : t = NoTimer \/ t \in {timer'} \cup stray'
    BY <1>1
  <2> QED
    BY <1>1, <1>2, <1>3, <1>4, <2>1, <2>2, WakesKept DEF WakeInv
<1>5. \A r \in Queued : Wakes(r)
  <2>1. \A r : ~ToScan(r) /\ ~Promised(r)
    BY <1>1 DEF ToScan, Promised, Idle
  <2> QED
    BY <2>1 DEF WakeInv, Attended
<1>6. Attended'
  BY <1>2, <1>4, <1>5 DEF Attended, Queued
<1>7. RateLimitHold' # "none" => RateLimitHold # "none"
  <2> SUFFICES ASSUME RateLimitHold' # "none"
               PROVE  RateLimitHold # "none"
    OBVIOUS
  <2> DEFINE holds == {r \in Range(pending) \cap RateLimited :
                         globalUntil > now \/ probe = "inFlight" \/ RouteUntil(r) # 0}
  <2>1. PICK r \in Range(pending) \cap RateLimited :
          globalUntil > now + 1 \/ probe = "inFlight" \/ RouteUntil(r)' # 0
    BY <1>1 DEF RateLimitHold, Range
  <2>2. globalUntil \in Nat /\ r \in Requests /\ pauseKind # "none"
    BY AttributesAssumption DEF WakeInv, IInv, TypeOK
  <2>3. r \in holds
    BY <1>1, <1>3, <2>1, <2>2
  <2>4. RateLimitHold = IF holds = {} THEN "none"
                        ELSE IF globalUntil > now THEN pauseKind
                        ELSE IF probe = "inFlight" THEN "client" ELSE "route"
    BY DEF RateLimitHold
  <2> HIDE DEF holds
  <2> QED
    BY <2>2, <2>3, <2>4
<1>8. NoSilentHold'
  BY <1>1, <1>2, <1>7 DEF WakeInv, NoSilentHold, Idle
<1> QED
  BY <1>6, <1>8

LEMMA HoldServes ==
    ASSUME WakeInv, IInv', ShutEmpty', HoldTimerFires
    PROVE  Attended' /\ NoSilentHold'
<1>1. /\ UNCHANGED <<now, pending, slotVars, concurrency, pauseVars, probe, probeAttempt, routeUntil, timerVars,
                     answered, frames, stage, closed>>
  BY DEF HoldTimerFires, queueVars, probeVars, rateVars
<1>2. Attended'
  BY <1>1, QuietServes
<1>3. CASE closed
  BY <1>1, <1>3, ClosedQuiet
<1>4. CASE ~closed
  <2>1. RateLimitHold' = RateLimitHold
    BY <1>1 DEF RateLimitHold, RouteUntil, pauseVars
  <2>2. holdReason' = RateLimitHold
    BY <1>4 DEF HoldTimerFires
  <2> QED
    BY <1>2, <2>1, <2>2 DEF NoSilentHold
<1> QED
  BY <1>3, <1>4

\* A step that changes neither the queue nor what limits it
LEMMA HoldSame ==
    ASSUME NoSilentHold,
           UNCHANGED <<now, pending, pauseVars, probe, routeUntil, holdReason, frames, answered, Admitted>>
    PROVE  NoSilentHold'
<1>1. RateLimitHold' = RateLimitHold
  BY DEF RateLimitHold, RouteUntil, pauseVars
<1> QED
  BY <1>1 DEF NoSilentHold, Idle

LEMMA WakeStep == WakeInv /\ [Next]_vars => WakeInv'
<1> SUFFICES ASSUME WakeInv, [Next]_vars PROVE WakeInv'
  OBVIOUS
<1> DEFINE Ahead == \A f \in 1..Len(frames) : now < frames[f].earliest
<1>1. IInv /\ IInv' /\ ShutEmpty' /\ Timely /\ TypeOK
  BY StepInv, ShutStep DEF WakeInv, IInv
<1>2. /\ now' <= Horizon /\ globalUntil' <= Horizon /\ \A t \in Routes : routeUntil'[t] <= Horizon
      /\ now' = now \/ Idle
  BY TimelyWaits
<1>3. Ahead' => Timely'
  BY <1>2 DEF Timely
<1>4. ASSUME UNCHANGED <<now, frames>>
      PROVE  Ahead'
  BY <1>1, <1>4 DEF Timely
<1>5. ASSUME NEW own, Fresh(own), now' = now
      PROVE  Attended' /\ NoSilentHold' /\ Ahead'
  BY <1>1, <1>5, FreshServes
<1>6. ASSUME NEW r \in Requests, AcquireClosed(r) \/ AcquireBusy(r)
      PROVE  Attended' /\ NoSilentHold' /\ Ahead'
  <2>1. /\ UNCHANGED <<now, pending, slotVars, concurrency, pauseVars, probe, probeAttempt, routeUntil, timerVars,
                       answered, frames, holdReason>>
        /\ stage[r] = "idle" /\ \E to \in {"shut", "busy"} : stage' = [stage EXCEPT ![r] = to]
    BY <1>6 DEF AcquireClosed, AcquireBusy, queueVars, probeVars, rateVars, holdVars
  <2>2. Attended'
    BY <2>1, QuietServes
  <2>3. Admitted' = Admitted
    BY <1>1, <2>1 DEF Admitted, TypeOK
  <2>4. NoSilentHold'
    BY <2>1, <2>3, HoldSame DEF WakeInv
  <2> QED
    BY <1>4, <2>1, <2>2, <2>4
<1>7. ASSUME NEW r \in Requests, AcquireQueued(r) \/ Cancel(r) \/ Release(r)
      PROVE  Attended' /\ NoSilentHold' /\ Ahead'
  <2>1. \E own : Fresh(own)
    BY <1>7, PumpIsFresh DEF AcquireQueued, Cancel, Release
  <2> QED
    BY <1>5, <1>7, <2>1 DEF AcquireQueued, Cancel, Release
<1>8. ASSUME NEW r \in Requests, Responded(r) \/ PauseClientExtend(r) \/ PauseClientStart(r)
      PROVE  Attended' /\ NoSilentHold' /\ Ahead'
  <2>1. r \in Admitted' /\ r \in answered' /\ now' = now
    BY <1>8 DEF Responded, PauseClientExtend, PauseClientStart, MayAnswer, Admitted
  <2>2. Attended' /\ NoSilentHold'
    BY <2>1, AnsweredServes
  <2>3. frames' = frames \/ \E own : Fresh(own)
    BY <1>8, PumpIsFresh DEF Responded, PauseClientExtend, PauseClientStart
  <2> QED
    BY <1>4, <1>5, <2>1, <2>2, <2>3
<1>9. ASSUME ScaleConcurrency \/ PauseGlobal \/ TimerFires \/ StrayTimerFires
      PROVE  Attended' /\ NoSilentHold' /\ Ahead'
  <2>1. \E own : Fresh(own)
    <3>1. CASE ScaleConcurrency \/ PauseGlobal \/ TimerFires
      BY <3>1, PumpIsFresh DEF ScaleConcurrency, PauseGlobal, TimerFires
    <3>2. CASE StrayTimerFires
      <4>1. Fresh(Nobody)
        BY <3>2 DEF StrayTimerFires, Fresh
      <4> QED
        BY <4>1
    <3> QED
      BY <1>9, <3>1, <3>2
  <2> QED
    BY <1>5, <1>9, <2>1 DEF ScaleConcurrency, PauseGlobal, TimerFires, StrayTimerFires
<1>10. ASSUME Close
       PROVE  Attended' /\ NoSilentHold' /\ Ahead'
  BY <1>1, <1>4, <1>10, ClosedQuiet DEF Close
<1>11. ASSUME PumpDeny \/ PumpSkipBlocked \/ PumpSkipEarly \/ PumpReturns \/ PumpAdmit
       PROVE  Attended' /\ NoSilentHold' /\ Ahead'
  <2>1. ~Idle /\ Len(frames) \in 1..Len(frames) /\ now' = now
    BY <1>1, <1>11, TopType DEF PumpDeny, PumpSkipBlocked, PumpSkipEarly, PumpReturns, PumpAdmit, AtCandidate,
       Scanning
  <2>2. frames' # <<>>
    BY <1>1, <1>11, <2>1 DEF PumpDeny, PumpSkipBlocked, PumpSkipEarly, PumpReturns, PumpAdmit, Resumed, TypeOK
  <2>3. NoSilentHold'
    BY <2>2 DEF NoSilentHold, Idle
  <2>4. CASE PumpDeny
    BY <1>1, <2>3, <2>4, DenyServes
  <2>5. CASE PumpSkipBlocked \/ PumpSkipEarly \/ PumpReturns
    BY <1>1, <2>3, <2>5, SkipServes
  <2>6. CASE PumpAdmit
    <3>1. Len(frames') = Len(frames) /\ \A f \in 1..Len(frames) : frames'[f].earliest = frames[f].earliest
      BY <1>1, <2>1, <2>6, ResumedPromises DEF PumpAdmit
    <3>2. Ahead'
      BY <1>1, <2>1, <3>1 DEF Timely
    <3> QED
      BY <1>1, <1>3, <2>3, <2>6, <3>2, AdmitServes
  <2> QED
    BY <1>11, <2>4, <2>5, <2>6
<1>12. ASSUME PumpEnds
       PROVE  Attended' /\ NoSilentHold' /\ Ahead'
  <2>1. now' = now /\ frames' = SubSeq(frames, 1, Len(frames) - 1) /\ ~Idle
    BY <1>12 DEF PumpEnds, Below, Scanning
  <2>2. Len(frames) \in 1..Len(frames) /\ frames \in Seq(FrameType)
    BY <1>1, <2>1, TopType DEF TypeOK
  <2>3. Len(frames') = Len(frames) - 1 /\ \A f \in 1..(Len(frames) - 1) : frames'[f] = frames[f]
    BY <2>1, <2>2, FrontIs
  <2>4. Ahead'
    BY <1>1, <2>1, <2>2, <2>3 DEF Timely
  <2> QED
    BY <1>1, <1>3, <1>12, <2>4, EndServes
<1>13. ASSUME Tick
       PROVE  Attended' /\ NoSilentHold' /\ Ahead'
  <2>1. frames' = <<>>
    BY <1>13 DEF Tick, Idle
  <2>2. Ahead'
    BY <2>1
  <2> QED
    BY <1>1, <1>3, <1>13, <2>2, TickServes
<1>14. ASSUME HoldTimerFires
       PROVE  Attended' /\ NoSilentHold' /\ Ahead'
  BY <1>1, <1>4, <1>14, HoldServes DEF HoldTimerFires
<1>15. ASSUME UNCHANGED vars
       PROVE  Attended' /\ NoSilentHold' /\ Ahead'
  <2>1. /\ UNCHANGED <<now, pending, slotVars, concurrency, pauseVars, probe, probeAttempt, routeUntil, timerVars,
                       answered, frames, stage, holdReason>>
    BY <1>15 DEF vars, queueVars, probeVars, rateVars, holdVars
  <2>2. Attended' /\ Admitted' = Admitted
    BY <2>1, QuietServes DEF Admitted
  <2> QED
    BY <1>4, <2>1, <2>2, HoldSame DEF WakeInv
<1> HIDE DEF Ahead
<1>16. Attended' /\ NoSilentHold' /\ Ahead'
  BY <1>6, <1>7, <1>8, <1>9, <1>10, <1>11, <1>12, <1>13, <1>14, <1>15 DEF Next, PumpStep
<1> QED
  BY <1>1, <1>3, <1>16 DEF WakeInv

LEMMA WakeInit == Init => WakeInv
<1> SUFFICES ASSUME Init PROVE WakeInv
  OBVIOUS
<1>1. Queued = {} /\ frames = <<>> /\ pending = <<>> /\ closed = FALSE
  BY DEF Init, Queued
<1>2. Range(pending) = {}
  BY <1>1 DEF Range
<1>3. RateLimitHold = "none"
  BY <1>2 DEF RateLimitHold
<1>4. Horizon \in Nat
  BY LimitsAssumption
<1> QED
  BY <1>1, <1>3, <1>4, InitInv DEF WakeInv, ShutEmpty, Timely, Attended, NoSilentHold, Init

\* Nothing waits unattended: whatever pumps nest in one another, every waiting request has a timer, a slot,
\* a probe or an answer that will pump for it, and a rate limit that holds the queue is timed or was
\* reported (RestAdmission.WaitsServed).
THEOREM WaitsAreServed == Spec => []WaitsServed
<1>1. WakeInv => WaitsServed
  BY DEF WakeInv, WaitsServed, NoLostWakeup, Attended, ToScan, Promised, Idle
<1> QED
  BY <1>1, WakeInit, WakeStep, PTL DEF Spec

=============================================================================
