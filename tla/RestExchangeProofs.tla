------------------------- MODULE RestExchangeProofs -------------------------
(***************************************************************************)
(* A request that changes something is applied at most once, and the       *)
(* outcome its operation ends with is true, for every plan, timeout, size  *)
(* and number of operations, attempts and retries.                         *)
(***************************************************************************)
EXTENDS RestExchange, DataLemmas

Before == {"new", "ready", "waiting", "admitted"}
During == {"sending", "reading", "closing"}
Over == {"cleaning", "ended"}
Verdict == {"none", "success", "failed", "disabled", "limited", "lost", "transient"}

\* The types of what an exchange keeps of its request
Typed ==
    /\ phase \in [Operations -> Phases]
    /\ step \in [Operations -> Nat] /\ \A o \in Operations : step[o] \in Steps(o)
    /\ attempt \in [Operations -> 1..MaxAttempts]
    /\ outcome \in [Operations -> Outcomes]
    /\ reply \in [Operations -> Answers \cup {"none"}]
    /\ verdict \in [Operations -> Verdict]
    /\ wire \subseteq Operations \X Nat \X Nat
    /\ effects \in [Operations -> Nat]

\* The server neither applied a copy of the request nor can do so.
Untouched(o) == effects[o] = 0 /\ OnWire(o) = {}
\* What the server did of the request is final.
Settled(o) == OnWire(o) = {}
Applied(o) == effects[o] = 1 /\ OnWire(o) = {}
\* At most one copy is out, and none once the request was applied.
Single(o) ==
    \/ effects[o] = 0 /\ \A c, d \in OnWire(o) : c = d
    \/ Applied(o)

\* What an operation may conclude from the point it has reached: before its request is dispatched
\* nothing happened, and neither did it when the answer is one after which it may be sent again;
\* after a refusal nothing more happens; a success was applied.
Truthful(o) ==
    /\ Single(o)
    /\ o \in succeeded => phase[o] \in Over /\ Applied(o)
    /\ phase[o] \in Before => reply[o] = "none" /\ Untouched(o)
    /\ phase[o] \in During =>
        /\ ~Sends(o) => Untouched(o)
        /\ reply[o] \in {"limited", "slotsBusy"} => Untouched(o)
        /\ reply[o] = "refused" => Settled(o)
        /\ reply[o] = "done" /\ Sends(o) => Applied(o)
        /\ outcome[o] = "notDispatched" => Untouched(o)
        /\ outcome[o] # "unknown" => Settled(o)
    /\ phase[o] = "closing" =>
        /\ verdict[o] = "success" => reply[o] = "done"
        /\ verdict[o] = "limited" => reply[o] = "limited"
        /\ verdict[o] = "disabled" => ~Sends(o)
    /\ phase[o] \in Over /\ o \notin succeeded =>
        /\ outcome[o] = "notDispatched" => Untouched(o)
        /\ outcome[o] # "unknown" => Settled(o)

ExchangeInv == Typed /\ \A o \in Operations \ Reads : Truthful(o)

-----------------------------------------------------------------------------
(* Steps that leave an operation alone *)

SameFor(o) ==
    /\ phase'[o] = phase[o] /\ step'[o] = step[o] /\ outcome'[o] = outcome[o]
    /\ reply'[o] = reply[o] /\ verdict'[o] = verdict[o] /\ effects'[o] = effects[o]
    /\ OnWire(o)' = OnWire(o)
    /\ o \in succeeded' <=> o \in succeeded

LEMMA KeptApart ==
    ASSUME NEW o \in Operations, Truthful(o), SameFor(o)
    PROVE  Truthful(o)'
<1>1. Sends(o)' <=> Sends(o)
    BY DEF SameFor, Sends, Kind
<1>2. Untouched(o)' <=> Untouched(o)
    BY DEF SameFor, Untouched
<1>3. Applied(o)' <=> Applied(o)
    BY DEF SameFor, Applied
<1>4. Single(o)' <=> Single(o)
    BY <1>3 DEF SameFor, Single
<1>5. Settled(o)' <=> Settled(o)
    BY DEF SameFor, Settled
<1> QED BY <1>1, <1>2, <1>3, <1>4, <1>5 DEF SameFor, Truthful

LEMMA SameWire == ASSUME wire' = wire PROVE \A o : OnWire(o)' = OnWire(o)
BY DEF OnWire

LEMMA WireGrows ==
    ASSUME NEW o \in Operations, wire' = wire \cup {Current(o)}
    PROVE  /\ \A p : p # o => OnWire(p)' = OnWire(p)
           /\ Sends(o) => OnWire(o)' = OnWire(o) \cup {Current(o)}
           /\ ~Sends(o) => OnWire(o)' = OnWire(o)
<1> DEFINE c == Current(o)
<1>1. c[1] = o /\ c[2] = step[o]
    BY DEF Current
<1>2. KindOf(o, c[2]) = "send" <=> Sends(o)
    BY <1>1 DEF Sends, Kind
<1>3. wire' = wire \cup {c}
    OBVIOUS
<1> HIDE DEF c
<1>4. c = Current(o)
    BY DEF c
<1> QED BY <1>1, <1>2, <1>3, <1>4 DEF OnWire

LEMMA WireShrinks ==
    ASSUME NEW c, wire' = wire \ {c}
    PROVE  \A p : OnWire(p)' = OnWire(p) \ {c}
BY DEF OnWire

-----------------------------------------------------------------------------
(* The steps of an operation *)

\* A step that only moves the operation from phase to phase
Moves(o, from, to) ==
    /\ phase[o] \in from /\ to \in Phases
    /\ phase' = [phase EXCEPT ![o] = to]
    /\ UNCHANGED <<step, attempt, outcome, reply, wire, effects, succeeded>>

LEMMA Moved ==
    ASSUME NEW o \in Operations, Typed, NEW from, NEW to, Moves(o, from, to)
    PROVE  /\ phase' \in [Operations -> Phases] /\ phase'[o] = to
           /\ Sends(o)' <=> Sends(o)
           /\ \A p \in Operations : (Untouched(p)' <=> Untouched(p)) /\ (Settled(p)' <=> Settled(p)) /\ (Applied(p)' <=> Applied(p))
                                    /\ (Single(p)' <=> Single(p))
<1>1. \A p : OnWire(p)' = OnWire(p)
    BY SameWire DEF Moves
<1>2. effects' = effects
    BY DEF Moves
<1>3. \A p \in Operations : (Untouched(p)' <=> Untouched(p)) /\ (Settled(p)' <=> Settled(p)) /\ (Applied(p)' <=> Applied(p))
                            /\ (Single(p)' <=> Single(p))
    BY <1>1, <1>2 DEF Untouched, Settled, Applied, Single
<1> QED BY <1>3 DEF Moves, Typed, Sends, Kind


\* What a step of operation o has to show
Kept(o) ==
    /\ Typed'
    /\ \A p \in Operations \ {o} : SameFor(p)
    /\ o \notin Reads /\ Truthful(o) => Truthful(o)'

\* Until the request is dispatched, nothing happened.
LEMMA BeforeDispatch ==
    ASSUME NEW o \in Operations, Typed, phase[o] \in Before,
           NEW to \in Before \cup {"closing"} \cup Over, phase' = [phase EXCEPT ![o] = to],
           to = "closing" => verdict'[o] = "failed",
           NEW i \in Steps(o), step' = [step EXCEPT ![o] = i],
           NEW v \in Verdict, verdict' = [verdict EXCEPT ![o] = v],
           UNCHANGED <<attempt, outcome, reply, wire, effects, succeeded>>
    PROVE  Kept(o)
<1>1. \A p : OnWire(p)' = OnWire(p)
    BY SameWire
<1>2. Typed'
    <2>1. phase' \in [Operations -> Phases]
        BY DEF Typed, Before, Over, Phases
    <2>2. step' \in [Operations -> Nat] /\ \A p \in Operations : step'[p] \in Steps(p)
        <3>1. i \in Nat
            BY DEF Steps
        <3> QED BY <3>1 DEF Typed
    <2>3. verdict' \in [Operations -> Verdict]
        BY DEF Typed
    <2> QED BY <2>1, <2>2, <2>3 DEF Typed
<1>3. \A p \in Operations \ {o} : SameFor(p)
    BY <1>1 DEF SameFor, Typed
<1>4. ASSUME Truthful(o)
      PROVE  Truthful(o)'
    <2>1. Untouched(o) /\ reply[o] = "none" /\ o \notin succeeded
        BY <1>4 DEF Truthful, Before, Over
    <2>2. Untouched(o)' /\ reply'[o] = "none" /\ o \notin succeeded'
        BY <2>1, <1>1 DEF Untouched
    <2>3. Single(o)' /\ Settled(o)'
        BY <2>2 DEF Single, Untouched, Settled
    <2>4. phase'[o] = "closing" => verdict'[o] = "failed"
        BY DEF Typed
    <2> QED BY <2>2, <2>3, <2>4 DEF Truthful
<1> QED BY <1>2, <1>3, <1>4 DEF Kept

\* While the answer is received and read, only an answer that says so makes the outcome a rejection.
LEMMA DuringAttempt ==
    ASSUME NEW o \in Operations, Typed, phase[o] \in {"sending", "reading"},
           NEW to \in {"reading", "closing"}, phase' = [phase EXCEPT ![o] = to],
           NEW v \in Verdict, verdict' = [verdict EXCEPT ![o] = v],
           NEW w \in Outcomes, outcome' = [outcome EXCEPT ![o] = w],
           w = outcome[o] \/ (w = "rejected" /\ reply[o] \in {"limited", "refused", "slotsBusy"}),
           to = "closing" => /\ v = "success" => reply[o] = "done"
                             /\ v = "limited" => reply[o] = "limited"
                             /\ v = "disabled" => ~Sends(o),
           UNCHANGED <<step, attempt, reply, wire, effects, succeeded>>
    PROVE  Kept(o)
<1>1. \A p : OnWire(p)' = OnWire(p)
    BY SameWire
<1>2. Typed'
    BY DEF Typed, Phases
<1>3. \A p \in Operations \ {o} : SameFor(p)
    BY <1>1 DEF SameFor, Typed
<1>4. ASSUME Truthful(o)
      PROVE  Truthful(o)'
    <2>1. (Untouched(o)' <=> Untouched(o)) /\ (Settled(o)' <=> Settled(o)) /\ (Applied(o)' <=> Applied(o)) /\ (Single(o)' <=> Single(o))
        BY <1>1 DEF Untouched, Settled, Applied, Single
    <2>2. Sends(o)' <=> Sends(o)
        BY DEF Sends, Kind
    <2>3. phase'[o] = to /\ verdict'[o] = v /\ outcome'[o] = w
        BY DEF Typed
    <2>4. o \notin succeeded
        BY <1>4 DEF Truthful, Over
    <2>5. Untouched(o) => Settled(o)
        BY DEF Untouched, Settled
    <2>6. w = outcome[o] \/ (w # "notDispatched" /\ Settled(o))
        BY <1>4, <2>5 DEF Truthful, During
    <2> QED BY <1>4, <2>1, <2>2, <2>3, <2>4, <2>6 DEF Truthful, During, Over, Before
<1> QED BY <1>2, <1>3, <1>4 DEF Kept


LEMMA EarlySteps ==
    ASSUME NEW o \in Operations, Typed,
           ExecuteRefused(o) \/ Execute(o) \/ Ask(o) \/ NotAdmitted(o) \/ Admit(o) \/ NotDispatched(o)
    PROVE  Kept(o)
<1> DEFINE Step(to, i, v) ==
        /\ phase[o] \in Before /\ to \in Before \cup {"closing"} \cup Over
        /\ phase' = [phase EXCEPT ![o] = to]
        /\ to = "closing" => v = "failed"
        /\ i \in Steps(o) /\ step' = [step EXCEPT ![o] = i]
        /\ v \in Verdict /\ verdict' = [verdict EXCEPT ![o] = v]
        /\ UNCHANGED <<attempt, outcome, reply, wire, effects, succeeded>>
<1>1. ASSUME NEW to, NEW i, NEW v, Step(to, i, v)
      PROVE  Kept(o)
    <2>1. to = "closing" => verdict'[o] = "failed"
        BY <1>1 DEF Typed
    <2> QED BY <1>1, <2>1, BeforeDispatch
<1>2. verdict[o] \in Verdict /\ verdict = [verdict EXCEPT ![o] = verdict[o]]
    BY DEF Typed
<1>3. step[o] \in Steps(o) /\ step = [step EXCEPT ![o] = step[o]]
    BY DEF Typed
<1>4. 1 \in Steps(o) /\ Discovery \in Steps(o)
    BY PlanAssumption DEF Steps, Discovery
<1>5. CASE ExecuteRefused(o)
    <2>1. Step("ended", step[o], verdict[o])
        BY <1>5, <1>2, <1>3 DEF ExecuteRefused, netVars, endVars, Before, Over
    <2> QED BY <2>1, <1>1
<1>6. CASE Execute(o)
    <2>1. Step("ready", IF instance THEN 1 ELSE Discovery, verdict[o])
        BY <1>6, <1>2, <1>4 DEF Execute, netVars, Before
    <2> QED BY <2>1, <1>1
<1>7. CASE Ask(o)
    <2>1. Step("waiting", step[o], verdict[o])
        BY <1>7, <1>2, <1>3 DEF Ask, netVars, endVars, Before
    <2> QED BY <2>1, <1>1
<1>8. CASE NotAdmitted(o)
    <2>1. Step("cleaning", step[o], verdict[o])
        BY <1>8, <1>2, <1>3 DEF NotAdmitted, netVars, endVars, Before, Over
    <2> QED BY <2>1, <1>1
<1>9. CASE Admit(o)
    <2>1. Step("closing", step[o], "failed") \/ Step("admitted", step[o], verdict[o])
        BY <1>9, <1>2, <1>3 DEF Admit, netVars, endVars, Before, Verdict
    <2> QED BY <2>1, <1>1
<1>10. CASE NotDispatched(o)
    <2>1. Step("closing", step[o], "failed")
        BY <1>10, <1>3 DEF NotDispatched, endVars, Before, Verdict
    <2> QED BY <2>1, <1>1
<1> QED BY <1>5, <1>6, <1>7, <1>8, <1>9, <1>10

LEMMA AnswerSteps ==
    ASSUME NEW o \in Operations, Typed,
           Break(o) \/ ReceiveLimit(o) \/ ReceiveAnswer(o) \/ ReadLimitFailure(o) \/ ReadLimit(o)
           \/ ReadAnswer(o)
    PROVE  Kept(o)
<1> DEFINE Step(to, v, w) ==
        /\ phase[o] \in {"sending", "reading"} /\ to \in {"reading", "closing"}
        /\ phase' = [phase EXCEPT ![o] = to]
        /\ v \in Verdict /\ verdict' = [verdict EXCEPT ![o] = v]
        /\ w \in Outcomes /\ outcome' = [outcome EXCEPT ![o] = w]
        /\ w = outcome[o] \/ (w = "rejected" /\ reply[o] \in {"limited", "refused", "slotsBusy"})
        /\ to = "closing" => /\ v = "success" => reply[o] = "done"
                             /\ v = "limited" => reply[o] = "limited"
                             /\ v = "disabled" => ~Sends(o)
        /\ UNCHANGED <<step, attempt, reply, wire, effects, succeeded>>
<1>1. ASSUME NEW to, NEW v, NEW w, Step(to, v, w)
      PROVE  Kept(o)
    BY <1>1, DuringAttempt
<1>2. verdict[o] \in Verdict /\ verdict = [verdict EXCEPT ![o] = verdict[o]]
    BY DEF Typed
<1>3. outcome[o] \in Outcomes /\ outcome = [outcome EXCEPT ![o] = outcome[o]]
    BY DEF Typed
<1>4. "rejected" \in Outcomes
    BY DEF Outcomes
<1>5. CASE Break(o)
    <2>1. Step("closing", "lost", outcome[o])
        BY <1>5, <1>3 DEF Break, netVars, endVars, Verdict
    <2> QED BY <2>1, <1>1
<1>6. CASE ReceiveLimit(o)
    <2>1. Step("reading", verdict[o], outcome[o])
        BY <1>6, <1>2, <1>3 DEF ReceiveLimit, netVars, endVars
    <2> QED BY <2>1, <1>1
<1>7. CASE ReceiveAnswer(o)
    <2>1. Step("reading", verdict[o], "rejected") \/ Step("reading", verdict[o], outcome[o])
        BY <1>7, <1>2, <1>3, <1>4 DEF ReceiveAnswer, netVars, endVars
    <2> QED BY <2>1, <1>1
<1>8. CASE ReadLimitFailure(o)
    <2>1. Step("closing", "failed", "rejected") \/ Step("closing", "failed", outcome[o])
        BY <1>8, <1>3, <1>4 DEF ReadLimitFailure, Rejected, netVars, endVars, Verdict
    <2> QED BY <2>1, <1>1
<1>9. CASE ReadLimit(o)
    <2>1. Step("closing", "limited", "rejected") \/ Step("closing", "limited", outcome[o])
        BY <1>9, <1>3, <1>4 DEF ReadLimit, Rejected, netVars, endVars, Verdict
    <2> QED BY <2>1, <1>1
<1>10. CASE ReadAnswer(o)
    <2>1. PICK v \in Verdicts(o) : verdict' = [verdict EXCEPT ![o] = v]
        BY <1>10 DEF ReadAnswer
    <2>2. /\ v \in Verdict /\ v # "limited"
          /\ v = "success" => reply[o] = "done"
          /\ v = "disabled" => ~Sends(o)
        BY <2>1, <1>10 DEF ReadAnswer, Answers, Verdicts, Verdict, Sends
    <2>3. Step("closing", v, "rejected") \/ Step("closing", v, outcome[o])
        BY <1>10, <1>3, <1>4, <2>1, <2>2 DEF ReadAnswer, netVars, endVars
    <2> QED BY <2>3, <1>1
<1> QED BY <1>5, <1>6, <1>7, <1>8, <1>9, <1>10


LEMMA DispatchStep ==
    ASSUME NEW o \in Operations, Typed, Dispatch(o)
    PROVE  Kept(o)
<1>1. /\ phase[o] = "admitted" /\ phase' = [phase EXCEPT ![o] = "sending"]
      /\ wire' = wire \cup {Current(o)}
      /\ outcome' = IF Sends(o) THEN [outcome EXCEPT ![o] = "unknown"] ELSE outcome
      /\ UNCHANGED <<step, attempt, reply, verdict, succeeded, effects>>
    BY DEF Dispatch, Dispatched, endVars
<1>2. /\ \A p : p # o => OnWire(p)' = OnWire(p)
      /\ Sends(o) => OnWire(o)' = OnWire(o) \cup {Current(o)}
      /\ ~Sends(o) => OnWire(o)' = OnWire(o)
    BY <1>1, WireGrows
<1>3. Typed'
    <2>1. Current(o) \in Operations \X Nat \X Nat
        BY DEF Current, Typed
    <2> QED BY <2>1, <1>1 DEF Typed, Phases, Outcomes
<1>4. \A p \in Operations \ {o} : SameFor(p)
    BY <1>1, <1>2 DEF SameFor, Typed
<1>5. ASSUME Truthful(o)
      PROVE  Truthful(o)'
    <2>1. Untouched(o) /\ reply[o] = "none" /\ o \notin succeeded
        BY <1>1, <1>5 DEF Truthful, Before, Over
    <2>2. Sends(o)' <=> Sends(o)
        BY <1>1 DEF Sends, Kind
    <2>3. phase'[o] = "sending" /\ (Sends(o) => outcome'[o] = "unknown") /\ reply'[o] = "none"
        BY <1>1, <2>1 DEF Typed
    <2>4. CASE Sends(o)
        <3>1. effects'[o] = 0 /\ OnWire(o)' = {Current(o)}
            BY <2>1, <2>4, <1>1, <1>2 DEF Untouched
        <3>2. Single(o)'
            BY <3>1 DEF Single
        <3> QED BY <3>2, <2>1, <2>2, <2>3, <2>4, <1>1 DEF Truthful, Before, Over
    <2>5. CASE ~Sends(o)
        <3>1. Untouched(o)'
            BY <2>1, <2>5, <1>1, <1>2 DEF Untouched
        <3>2. Single(o)' /\ Settled(o)'
            BY <3>1 DEF Single, Untouched, Settled
        <3> QED BY <3>1, <3>2, <2>1, <2>2, <2>3, <2>5, <1>1 DEF Truthful, Before, Over
    <2> QED BY <2>4, <2>5
<1> QED BY <1>3, <1>4, <1>5 DEF Kept

LEMMA InterruptStep ==
    ASSUME NEW o \in Operations, Typed, Interrupt(o)
    PROVE  Kept(o)
<1>1. UNCHANGED <<phase, step, attempt, outcome, reply, verdict, wire, effects, succeeded>>
    BY DEF Interrupt, opVars, netVars
<1>2. \A p : OnWire(p)' = OnWire(p)
    BY <1>1, SameWire
<1>3. \A p \in Operations : SameFor(p)
    BY <1>1, <1>2 DEF SameFor
<1> QED BY <1>1, <1>3, KeptApart DEF Kept, Typed

LEMMA FinishStep ==
    ASSUME NEW o \in Operations, Typed, Finish(o)
    PROVE  Kept(o)
<1>1. /\ phase[o] = "cleaning" /\ phase' = [phase EXCEPT ![o] = "ended"]
      /\ UNCHANGED <<step, attempt, outcome, reply, verdict, wire, effects, succeeded>>
    BY DEF Finish, netVars
<1>2. \A p : OnWire(p)' = OnWire(p)
    BY <1>1, SameWire
<1>3. Typed'
    BY <1>1 DEF Typed, Phases
<1>4. \A p \in Operations \ {o} : SameFor(p)
    BY <1>1, <1>2 DEF SameFor, Typed
<1>5. (Untouched(o)' <=> Untouched(o)) /\ (Settled(o)' <=> Settled(o)) /\ (Applied(o)' <=> Applied(o)) /\ (Single(o)' <=> Single(o))
    BY <1>1, <1>2 DEF Untouched, Settled, Applied, Single
<1>6. phase'[o] = "ended"
    BY <1>1 DEF Typed
<1>7. Truthful(o) => Truthful(o)'
    BY <1>1, <1>5, <1>6 DEF Truthful, Before, During, Over
<1> QED BY <1>3, <1>4, <1>7 DEF Kept

\* After an attempt the exchange goes on, or the operation ends.
GoesOn(o) ==
    /\ phase' = [phase EXCEPT ![o] = "ready"] /\ succeeded' = succeeded
    /\ \E i \in Steps(o) : step' = [step EXCEPT ![o] = i]
    /\ \E n \in 1..MaxAttempts : attempt' = [attempt EXCEPT ![o] = n]
Ends(o) ==
    /\ phase' = [phase EXCEPT ![o] = "cleaning"] /\ UNCHANGED <<step, attempt>>
    /\ \/ succeeded' = succeeded
       \/ succeeded' = succeeded \cup {o} /\ verdict[o] = "success" /\ Sends(o)

LEMMA AfterAttempt ==
    ASSUME NEW o \in Operations, Typed, Release(o)
    PROVE  \/ GoesOn(o) /\ (o \notin Reads => verdict[o] = "limited" \/ ~Sends(o))
           \/ GoesOn(o) /\ verdict[o] = "disabled"
           \/ Ends(o)
<1>1. step[o] \in Steps(o) /\ Len(Plan[o]) \in Nat \ {0}
    <2>1. Plan[o] \in Seq({"prepare", "upload", "send"}) /\ Plan[o] # <<>>
        BY PlanAssumption
    <2> QED BY <2>1, EmptySeq, LenProperties DEF Typed
<1>2. Sends(o) <=> step[o] = Len(Plan[o])
    BY <1>1, PlanAssumption DEF Sends, Kind, KindOf, Steps, Discovery, Typed
<1>3. /\ step = [step EXCEPT ![o] = step[o]] /\ attempt[o] \in 1..MaxAttempts
      /\ MaxAttempts \in Nat \ {0} /\ 1 \in 1..MaxAttempts
    BY BoundsAssumption DEF Typed
<1>4. ASSUME NEW at, Again(o, at)
      PROVE  GoesOn(o)
    <2>1. attempt' = [attempt EXCEPT ![o] = attempt[o] + 1] /\ attempt[o] + 1 \in 1..MaxAttempts
        BY <1>4, <1>3 DEF Again
    <2> QED BY <2>1, <1>1, <1>3, <1>4 DEF Again, GoesOn
<1>5. ASSUME NEW i \in Steps(o), GoTo(o, i)
      PROVE  GoesOn(o)
    BY <1>3, <1>5 DEF GoTo, GoesOn
<1>6. CASE Succeed(o)
    <2>1. step[o] < Len(Plan[o]) => step[o] + 1 \in Steps(o)
        BY <1>1 DEF Steps
    <2>2. ~(step[o] < Len(Plan[o])) => step[o] = Len(Plan[o])
        BY <1>1 DEF Steps
    <2> QED BY <1>6, <1>5, <2>1, <2>2, <1>1, <1>2 DEF Succeed, Ends
<1>7. CASE SendInline(o)
    <2>1. Len(Plan[o]) \in Steps(o)
        BY <1>1 DEF Steps
    <2> QED BY <1>7, <1>5, <2>1 DEF SendInline
<1>8. CASE RepeatRead(o)
    BY <1>8, <1>4 DEF RepeatRead, MayRepeat
<1>9. CASE WaitOut(o)
    BY <1>9, <1>4 DEF WaitOut
<1>10. CASE GiveUp(o)
    BY <1>10 DEF GiveUp, Fail, Ends
<1> QED BY <1>6, <1>7, <1>8, <1>9, <1>10 DEF Release

\* The exchange goes on only where nothing happened.
LEMMA ReleaseStep ==
    ASSUME NEW o \in Operations, Typed, Release(o)
    PROVE  Kept(o)
<1>1. /\ phase[o] = "closing" /\ reply' = [reply EXCEPT ![o] = "none"]
      /\ verdict' = [verdict EXCEPT ![o] = "none"]
      /\ UNCHANGED <<outcome, wire, effects>>
    BY DEF Release, netVars
<1>2. \A p : OnWire(p)' = OnWire(p)
    BY <1>1, SameWire
<1>3. \/ GoesOn(o) /\ (o \notin Reads => verdict[o] = "limited" \/ ~Sends(o))
      \/ GoesOn(o) /\ verdict[o] = "disabled"
      \/ Ends(o)
    BY AfterAttempt
<1>4. Typed'
    <2>1. CASE GoesOn(o)
        <3>1. PICK i \in Steps(o) : step' = [step EXCEPT ![o] = i]
            BY <2>1 DEF GoesOn
        <3>2. PICK n \in 1..MaxAttempts : attempt' = [attempt EXCEPT ![o] = n]
            BY <2>1 DEF GoesOn
        <3>3. i \in Nat
            BY PlanAssumption DEF Steps
        <3>4. step' \in [Operations -> Nat] /\ \A p \in Operations : step'[p] \in Steps(p)
            BY <3>1, <3>3 DEF Typed
        <3> QED BY <2>1, <1>1, <3>2, <3>4 DEF GoesOn, Typed, Phases, Verdict
    <2>2. CASE Ends(o)
        BY <2>2, <1>1 DEF Ends, Typed, Phases, Verdict
    <2> QED BY <2>1, <2>2, <1>3
<1>5. \A p \in Operations \ {o} : SameFor(p)
    BY <1>1, <1>2, <1>3 DEF SameFor, Typed, GoesOn, Ends
<1>6. ASSUME o \notin Reads, Truthful(o)
      PROVE  Truthful(o)'
    <2>1. (Untouched(o)' <=> Untouched(o)) /\ (Settled(o)' <=> Settled(o)) /\ (Applied(o)' <=> Applied(o)) /\ (Single(o)' <=> Single(o))
        BY <1>1, <1>2 DEF Untouched, Settled, Applied, Single
    <2>2. reply'[o] = "none" /\ verdict'[o] = "none" /\ outcome'[o] = outcome[o]
        BY <1>1 DEF Typed
    <2>3. o \notin succeeded
        BY <1>6, <1>1 DEF Truthful, Over
    <2>4. CASE GoesOn(o) /\ ((verdict[o] = "limited" \/ ~Sends(o)) \/ verdict[o] = "disabled")
        <3>1. Untouched(o) /\ Settled(o)
            BY <2>4, <1>6, <1>1 DEF Truthful, During, Untouched, Settled
        <3>2. phase'[o] = "ready" /\ o \notin succeeded'
            BY <2>4, <2>3 DEF Typed, GoesOn
        <3> QED BY <3>1, <3>2, <2>1, <2>2, <1>6 DEF Truthful, Before, During, Over
    <2>5. CASE Ends(o)
        <3>1. phase'[o] = "cleaning"
            BY <2>5 DEF Typed, Ends
        <3>2. o \in succeeded' => Applied(o)
            BY <2>5, <2>3, <1>6, <1>1 DEF Truthful, During, Ends
        <3>3. /\ outcome[o] = "notDispatched" => Untouched(o)
              /\ outcome[o] # "unknown" => Settled(o)
            BY <1>6, <1>1 DEF Truthful, During
        <3> QED BY <3>1, <3>2, <3>3, <2>1, <2>2, <1>6 DEF Truthful, Before, During, Over
    <2> QED BY <2>4, <2>5, <1>3, <1>6
<1> QED BY <1>4, <1>5, <1>6 DEF Kept

-----------------------------------------------------------------------------
(* The network and the server *)

\* A copy of the request that leaves the network unapplied changes nothing.
LEMMA LoseStep ==
    ASSUME NEW c \in wire, ExchangeInv, Lose(c)
    PROVE  ExchangeInv'
<1>1. /\ wire' = wire \ {c}
      /\ UNCHANGED <<phase, step, attempt, outcome, reply, verdict, effects, succeeded>>
    BY DEF Lose, opVars, endVars
<1>2. Typed'
    BY <1>1 DEF ExchangeInv, Typed
<1>3. \A p : OnWire(p)' = OnWire(p) \ {c}
    BY <1>1, WireShrinks
<1>4. ASSUME NEW p \in Operations \ Reads
      PROVE  Truthful(p)'
    <2>1. Truthful(p)
        BY DEF ExchangeInv
    <2>2. (Untouched(p) => Untouched(p)') /\ (Settled(p) => Settled(p)') /\ (Applied(p) => Applied(p)') /\ (Single(p) => Single(p)')
        BY <1>1, <1>3 DEF Untouched, Settled, Applied, Single
    <2>3. Sends(p)' <=> Sends(p)
        BY <1>1 DEF Sends, Kind
    <2> QED BY <1>1, <2>1, <2>2, <2>3 DEF Truthful
<1> QED BY <1>2, <1>4 DEF ExchangeInv

LEMMA ServeStep ==
    ASSUME NEW c \in wire, ExchangeInv, Serve(c)
    PROVE  ExchangeInv'
<1> DEFINE o == c[1]
<1>1. PICK answer \in Answers :
        /\ reply' = IF Current(o) = c /\ phase[o] = "sending"
                    THEN [reply EXCEPT ![o] = answer] ELSE reply
        /\ \E effect \in EffectsOf(answer) :
             effects' = IF KindOf(o, c[2]) = "send" THEN [effects EXCEPT ![o] = @ + effect] ELSE effects
    BY DEF Serve
<1>2. PICK effect \in {0, 1} :
        /\ answer = "done" => effect = 1
        /\ answer \in {"limited", "slotsBusy"} => effect = 0
        /\ effects' = IF KindOf(o, c[2]) = "send" THEN [effects EXCEPT ![o] = @ + effect] ELSE effects
    BY <1>1 DEF Answers, EffectsOf
<1>3. wire' = wire \ {c} /\ UNCHANGED <<phase, step, attempt, outcome, verdict, succeeded>>
    BY DEF Serve, endVars
<1>4. \A p : OnWire(p)' = OnWire(p) \ {c}
    BY <1>3, WireShrinks
<1>5. o \in Operations
    BY DEF ExchangeInv, Typed
<1>6. Typed'
    <2>1. reply' \in [Operations -> Answers \cup {"none"}]
        BY <1>1, <1>5 DEF ExchangeInv, Typed
    <2>2. effects' \in [Operations -> Nat]
        BY <1>2, <1>5 DEF ExchangeInv, Typed
    <2> QED BY <1>3, <2>1, <2>2 DEF ExchangeInv, Typed
<1>7. \A p : Sends(p)' <=> Sends(p)
    BY <1>3 DEF Sends, Kind
<1>8. \A p \in Operations \ {o} : SameFor(p)
    <2>1. \A p \in Operations \ {o} : c \notin OnWire(p)
        BY DEF OnWire
    <2>2. \A p \in Operations \ {o} : reply'[p] = reply[p] /\ effects'[p] = effects[p]
        BY <1>1, <1>2, <1>5 DEF ExchangeInv, Typed
    <2> QED BY <2>1, <2>2, <1>3, <1>4 DEF SameFor
<1>9. ASSUME o \notin Reads
      PROVE  Truthful(o)'
    <2>1. Truthful(o)
        BY <1>5, <1>9 DEF ExchangeInv
    <2>2. CASE KindOf(o, c[2]) = "send"
        <3>1. c \in OnWire(o) /\ ~Untouched(o) /\ ~Applied(o) /\ ~Settled(o)
            BY <2>2 DEF OnWire, Untouched, Applied, Settled
        <3>2. effects[o] = 0 /\ OnWire(o)' = {}
            BY <3>1, <2>1, <1>4 DEF Truthful, Single
        <3>3. effects'[o] = effect
            BY <3>2, <2>2, <1>2, <1>5 DEF ExchangeInv, Typed
        <3>4. (effect = 0 => Untouched(o)') /\ (effect = 1 => Applied(o)') /\ Settled(o)'
            BY <3>2, <3>3 DEF Untouched, Applied, Settled
        <3>5. Single(o)'
            BY <3>2, <3>3 DEF Single, Applied
        <3>6. /\ o \notin succeeded /\ phase[o] \notin Before
              /\ phase[o] \in During =>
                   /\ Sends(o) /\ outcome[o] = "unknown"
                   /\ reply[o] \notin {"limited", "refused", "slotsBusy", "done"}
              /\ phase[o] \in Over => outcome[o] = "unknown"
            BY <3>1, <2>1 DEF Truthful, Before, During, Over
        <3>7. CASE Current(o) = c /\ phase[o] = "sending"
            <4>1. reply'[o] = answer
                BY <3>7, <1>1, <1>5 DEF ExchangeInv, Typed
            <4>2. phase[o] \in During /\ phase'[o] = "sending"
                BY <3>7, <1>3 DEF During
            <4> QED BY <4>1, <4>2, <3>4, <3>5, <3>6, <1>2, <1>3, <1>7 DEF Truthful, Before, During, Over
        <3>8. CASE ~(Current(o) = c /\ phase[o] = "sending")
            <4>1. reply'[o] = reply[o]
                BY <3>8, <1>1
            <4> QED BY <4>1, <3>4, <3>5, <3>6, <2>1, <1>3, <1>7 DEF Truthful, During
        <3> QED BY <3>7, <3>8
    <2>3. CASE KindOf(o, c[2]) # "send"
        <3>1. effects' = effects /\ OnWire(o)' = OnWire(o)
            BY <2>3, <1>2, <1>4 DEF OnWire
        <3>2. (Untouched(o)' <=> Untouched(o)) /\ (Settled(o)' <=> Settled(o)) /\ (Applied(o)' <=> Applied(o)) /\ (Single(o)' <=> Single(o))
            BY <3>1 DEF Untouched, Settled, Applied, Single
        <3>3. CASE Current(o) = c /\ phase[o] = "sending"
            <4>1. ~Sends(o)
                BY <3>3, <2>3 DEF Sends, Kind, Current
            <4>2. phase[o] \in During /\ phase'[o] = "sending"
                BY <3>3, <1>3 DEF During
            <4>3. Untouched(o)' /\ Settled(o)'
                BY <4>1, <4>2, <3>2, <2>1 DEF Truthful, Untouched, Settled
            <4> QED BY <4>1, <4>2, <4>3, <3>2, <2>1, <1>3, <1>7 DEF Truthful, Before, During, Over
        <3>4. CASE ~(Current(o) = c /\ phase[o] = "sending")
            <4>1. reply'[o] = reply[o]
                BY <3>4, <1>1
            <4> QED BY <4>1, <3>2, <2>1, <1>3, <1>7 DEF Truthful
        <3> QED BY <3>3, <3>4
    <2> QED BY <2>2, <2>3
<1>10. \A p \in Operations \ Reads : p # o => Truthful(p)'
    BY <1>8, KeptApart DEF ExchangeInv
<1> QED BY <1>6, <1>9, <1>10 DEF ExchangeInv

-----------------------------------------------------------------------------
(* The invariant *)

LEMMA StopStep ==
    ASSUME ExchangeInv, Stop
    PROVE  ExchangeInv'
<1>1. /\ phase' = [o \in Operations |-> IF phase[o] = "waiting" THEN "cleaning" ELSE phase[o]]
      /\ UNCHANGED <<step, attempt, outcome, reply, verdict, wire, effects, succeeded>>
    BY DEF Stop, FailWaiting, netVars
<1>2. Typed'
    BY <1>1 DEF ExchangeInv, Typed, Phases
<1>3. ASSUME NEW p \in Operations \ Reads
      PROVE  Truthful(p)'
    <2>1. Truthful(p)
        BY DEF ExchangeInv
    <2>2. OnWire(p)' = OnWire(p)
        BY <1>1, SameWire
    <2>3. (Untouched(p)' <=> Untouched(p)) /\ (Settled(p)' <=> Settled(p)) /\ (Applied(p)' <=> Applied(p)) /\ (Single(p)' <=> Single(p))
        BY <1>1, <2>2 DEF Untouched, Settled, Applied, Single
    <2>4. Sends(p)' <=> Sends(p)
        BY <1>1 DEF Sends, Kind
    <2>5. CASE phase[p] = "waiting"
        <3>1. phase'[p] = "cleaning" /\ Untouched(p) /\ Settled(p)
            BY <2>5, <1>1, <2>1 DEF Truthful, Before, Untouched, Settled
        <3> QED BY <3>1, <2>1, <2>3, <2>5, <1>1 DEF Truthful, Before, During, Over
    <2>6. CASE phase[p] # "waiting"
        <3>1. phase'[p] = phase[p]
            BY <2>6, <1>1
        <3> QED BY <3>1, <2>1, <2>3, <2>4, <1>1 DEF Truthful
    <2> QED BY <2>5, <2>6
<1> QED BY <1>2, <1>3 DEF ExchangeInv

LEMMA QuietStep ==
    ASSUME ExchangeInv, UNCHANGED <<phase, step, attempt, outcome, reply, verdict, wire, effects, succeeded>>
    PROVE  ExchangeInv'
<1>1. \A p : OnWire(p)' = OnWire(p)
    BY SameWire
<1>2. \A p \in Operations : SameFor(p)
    BY <1>1 DEF SameFor
<1> QED BY <1>2, KeptApart DEF ExchangeInv, Typed

LEMMA ExchangeInit == Init => ExchangeInv
<1> SUFFICES ASSUME Init
             PROVE  ExchangeInv
    OBVIOUS
<1>1. Typed
    BY PlanAssumption, BoundsAssumption DEF Init, Typed, Phases, Outcomes, Answers, Verdict, Steps, Discovery
<1>2. \A o \in Operations : Untouched(o)
    BY DEF Init, Untouched, OnWire
<1> QED BY <1>1, <1>2 DEF Init, ExchangeInv, Truthful, Single, Untouched, Before, During, Over

LEMMA ExchangeStep == ExchangeInv /\ [Next]_vars => ExchangeInv'
<1> SUFFICES ASSUME ExchangeInv, [Next]_vars
             PROVE  ExchangeInv'
    OBVIOUS
<1>1. ASSUME NEW o \in Operations, Kept(o)
      PROVE  ExchangeInv'
    BY <1>1, KeptApart DEF Kept, ExchangeInv
<1>2. ASSUME NEW o \in Operations,
             \/ ExecuteRefused(o) \/ Execute(o) \/ Ask(o) \/ NotAdmitted(o) \/ Admit(o)
             \/ NotDispatched(o)
      PROVE  ExchangeInv'
    BY <1>1, <1>2, EarlySteps DEF ExchangeInv
<1>3. ASSUME NEW o \in Operations,
             \/ Break(o) \/ ReceiveLimit(o) \/ ReceiveAnswer(o) \/ ReadLimitFailure(o)
             \/ ReadLimit(o) \/ ReadAnswer(o)
      PROVE  ExchangeInv'
    BY <1>1, <1>3, AnswerSteps DEF ExchangeInv
<1>4. ASSUME NEW o \in Operations, Dispatch(o) \/ Interrupt(o) \/ Release(o) \/ Finish(o)
      PROVE  ExchangeInv'
    BY <1>1, <1>4, DispatchStep, InterruptStep, ReleaseStep, FinishStep DEF ExchangeInv
<1>5. ASSUME ShutdownReturns \/ Tick \/ UNCHANGED vars
      PROVE  ExchangeInv'
    <2>1. UNCHANGED <<phase, step, attempt, outcome, reply, verdict, wire, effects, succeeded>>
        BY <1>5 DEF ShutdownReturns, Tick, vars, opVars, endVars, netVars
    <2> QED BY <2>1, QuietStep
<1> QED BY <1>2, <1>3, <1>4, <1>5, StopStep, ServeStep, LoseStep DEF Next


-----------------------------------------------------------------------------
(* The properties *)

LEMMA SmallSet ==
    ASSUME NEW S, \A c, d \in S : c = d
    PROVE  Cardinality(S) \in {0, 1}
<1>1. CASE S = {}
    BY <1>1, FS_EmptySet
<1>2. CASE S # {}
    <2>1. PICK c : S = {c}
        BY <1>2
    <2> QED BY <2>1, FS_Singleton
<1> QED BY <1>1, <1>2

\* A request that changes something takes effect at most once, however many attempts are made and
\* whatever is lost, delayed or interrupted (RestExchange.AtMostOnce).
THEOREM AppliedAtMostOnce == Spec => []AtMostOnce
<1>1. ExchangeInv => AtMostOnce
    <2> SUFFICES ASSUME ExchangeInv, NEW o \in Operations \ Reads
                 PROVE  effects[o] + Cardinality(OnWire(o)) <= 1
        BY DEF AtMostOnce
    <2>1. Single(o)
        BY DEF ExchangeInv, Truthful
    <2>2. CASE effects[o] = 0 /\ \A c, d \in OnWire(o) : c = d
        BY <2>2, SmallSet
    <2>3. CASE Applied(o)
        BY <2>3, FS_EmptySet DEF Applied
    <2> QED BY <2>1, <2>2, <2>3 DEF Single
<1> QED BY <1>1, ExchangeInit, ExchangeStep, PTL DEF Spec

\* The outcome an operation ends with is true of all its attempts: a success was applied, one that was
\* not dispatched was not, after a rejection no copy is under way, and a request is sent again only
\* when no earlier attempt took effect or still can (RestExchange.OutcomeTrue).
THEOREM OutcomesAreTrue == Spec => []OutcomeTrue
<1>1. ExchangeInv => OutcomeTrue
    <2> SUFFICES ASSUME ExchangeInv, NEW o \in Operations \ Reads
                 PROVE  /\ phase[o] \in Over =>
                            /\ o \in succeeded => effects[o] = 1
                            /\ o \notin succeeded /\ outcome[o] = "notDispatched" => effects[o] = 0
                            /\ o \notin succeeded /\ outcome[o] # "unknown" => OnWire(o) = {}
                        /\ phase[o] = "closing" /\ reply[o] \in {"limited", "slotsBusy"} =>
                            effects[o] = 0 /\ OnWire(o) = {}
        BY DEF OutcomeTrue, Over
    <2>1. Truthful(o)
        BY DEF ExchangeInv
    <2>2. phase[o] = "closing" => phase[o] \in During
        BY DEF During
    <2> QED BY <2>1, <2>2 DEF Truthful, Applied, Untouched, Settled
<1> QED BY <1>1, ExchangeInit, ExchangeStep, PTL DEF Spec


-----------------------------------------------------------------------------
(* Slots and places in the queue *)

AtWork == {"admitted", "sending", "reading", "closing"}

\* A call is entered, or waits, exactly when it is the current one of an operation that says so.
Owned(o) ==
    /\ Current(o) \in Calls
    /\ \A c \in Calls : c[1] = o =>
        /\ call[c] = "entered" <=> c = Current(o) /\ phase[o] \in AtWork
        /\ call[c] = "waiting" <=> c = Current(o) /\ phase[o] = "waiting"

SlotsInv == ExchangeInv /\ call \in [Calls -> CallStages] /\ \A o \in Operations : Owned(o)

LEMMA CurrentIsCall == ASSUME Typed, NEW o \in Operations PROVE Current(o) \in Calls
BY DEF Typed, Current, Calls

LEMMA GateCalls ==
    ASSUME NEW c \in Calls, call \in [Calls -> CallStages]
    PROVE  /\ Gate!Wait(c) => call' = [call EXCEPT ![c] = "waiting"]
           /\ Gate!Refuse(c) => call' = [call EXCEPT ![c] = "refused"]
           /\ Gate!Enter(c) => call' = [call EXCEPT ![c] = "entered"]
           /\ Gate!Leave(c) => call' = [call EXCEPT ![c] = "left"]
           /\ Gate!MeetLimit(c) => call' = call
           /\ Gate!PassLimit(c) => call' = call
BY DEF Gate!Wait, Gate!Refuse, Gate!Enter, Gate!Leave, Gate!MeetLimit, Gate!PassLimit

\* What a step of operation o has to show
KeepsSlots(o) ==
    /\ call' \in [Calls -> CallStages]
    /\ \A c \in Calls : c[1] # o => call'[c] = call[c]
    /\ \A p \in Operations \ {o} : phase'[p] = phase[p] /\ step'[p] = step[p] /\ attempt'[p] = attempt[p]
    /\ Owned(o)'

LEMMA OthersKeepSlots ==
    ASSUME SlotsInv, NEW o \in Operations, KeepsSlots(o), ExchangeInv'
    PROVE  SlotsInv'
<1>1. ASSUME NEW p \in Operations, p # o
      PROVE  Owned(p)'
    <2>1. Current(p)' = Current(p) /\ phase'[p] = phase[p]
        BY <1>1 DEF KeepsSlots, Current
    <2>2. \A c \in Calls : c[1] = p => call'[c] = call[c]
        BY <1>1 DEF KeepsSlots
    <2> QED BY <2>1, <2>2 DEF SlotsInv, Owned
<1> QED BY <1>1 DEF SlotsInv, KeepsSlots

\* The call stays as it is, and so does what its stage says.
LEMMA SameCall ==
    ASSUME SlotsInv, NEW o \in Operations, call' = call, ExchangeInv',
           NEW to, phase' = [phase EXCEPT ![o] = to], attempt' = attempt,
           step' = step \/ (phase[o] = "new" /\ \E i : step' = [step EXCEPT ![o] = i]),
           to \in AtWork <=> phase[o] \in AtWork, to = "waiting" <=> phase[o] = "waiting"
    PROVE  SlotsInv'
<1>1. Typed /\ Typed'
    BY DEF SlotsInv, ExchangeInv
<1>2. phase'[o] = to
    BY <1>1 DEF Typed
<1>3. \A p \in Operations \ {o} : phase'[p] = phase[p] /\ step'[p] = step[p] /\ attempt'[p] = attempt[p]
    BY <1>1 DEF Typed
<1>4. Owned(o)'
    <2>1. Current(o)' \in Calls
        BY <1>1, CurrentIsCall DEF Typed, Current, Calls, Steps
    <2>2. Owned(o)
        BY DEF SlotsInv
    <2>3. CASE step' = step
        <3>1. Current(o)' = Current(o)
            BY <2>3 DEF Current
        <3> QED BY <3>1, <2>1, <2>2, <1>2 DEF Owned
    <2>4. CASE phase[o] = "new"
        <3>1. phase[o] \notin AtWork /\ phase[o] # "waiting"
            BY <2>4 DEF AtWork
        <3> QED BY <3>1, <2>1, <2>2, <1>2 DEF Owned
    <2> QED BY <2>3, <2>4
<1> QED BY <1>3, <1>4, OthersKeepSlots DEF KeepsSlots, SlotsInv

\* The gate moves the current call as the operation's phase says.
LEMMA CurrentCall ==
    ASSUME SlotsInv, NEW o \in Operations, ExchangeInv',
           NEW stage \in CallStages, call' = [call EXCEPT ![Current(o)] = stage],
           NEW to, phase' = [phase EXCEPT ![o] = to], UNCHANGED <<step, attempt>>,
           to \in AtWork <=> stage = "entered", to = "waiting" <=> stage = "waiting"
    PROVE  SlotsInv'
<1>1. Typed /\ Typed' /\ call \in [Calls -> CallStages] /\ Owned(o)
    BY DEF SlotsInv, ExchangeInv
<1>2. phase'[o] = to
    BY <1>1 DEF Typed
<1>3. \A p \in Operations \ {o} : phase'[p] = phase[p] /\ step'[p] = step[p] /\ attempt'[p] = attempt[p]
    BY <1>1 DEF Typed
<1>4. Current(o)' = Current(o) /\ Current(o) \in Calls /\ Current(o)[1] = o
    BY <1>1, CurrentIsCall DEF Current
<1>5. /\ call' \in [Calls -> CallStages] /\ call'[Current(o)] = stage
      /\ \A c \in Calls : c # Current(o) => call'[c] = call[c]
    BY <1>1, <1>4
<1>6. Owned(o)'
    BY <1>1, <1>2, <1>4, <1>5 DEF Owned
<1> QED BY <1>3, <1>4, <1>5, <1>6, OthersKeepSlots DEF KeepsSlots

\* The slot of an attempt is given back before the next one.
LEMMA ReleasedCall ==
    ASSUME SlotsInv, NEW o \in Operations, Release(o), ExchangeInv'
    PROVE  SlotsInv'
<1>1. Typed /\ Typed' /\ call \in [Calls -> CallStages] /\ Owned(o)
    BY DEF SlotsInv, ExchangeInv
<1>2. Current(o) \in Calls /\ Current(o)[1] = o /\ phase[o] = "closing"
    BY <1>1, CurrentIsCall DEF Current, Release
<1>3. Gate!Leave(Current(o))
    BY DEF Release, Leave
<1>4. call' = [call EXCEPT ![Current(o)] = "left"]
    BY <1>1, <1>2, <1>3, GateCalls
<1>5. /\ call' \in [Calls -> CallStages] /\ call'[Current(o)] = "left"
      /\ \A c \in Calls : c # Current(o) => call'[c] = call[c]
    BY <1>1, <1>2, <1>4 DEF CallStages
<1>6. GoesOn(o) \/ Ends(o)
    BY <1>1, AfterAttempt
<1>7. phase'[o] \in {"ready", "cleaning"}
    BY <1>1, <1>6 DEF GoesOn, Ends, Typed
<1>8. \A p \in Operations \ {o} : phase'[p] = phase[p] /\ step'[p] = step[p] /\ attempt'[p] = attempt[p]
    BY <1>1, <1>6 DEF GoesOn, Ends, Typed
<1>9. Owned(o)'
    <2>1. Current(o)' \in Calls
        BY <1>1 DEF Typed, Current, Calls, Steps
    <2>2. phase'[o] \notin AtWork /\ phase'[o] # "waiting"
        BY <1>7 DEF AtWork
    <2>3. \A c \in Calls : c[1] = o => call'[c] \notin {"entered", "waiting"}
        BY <1>1, <1>2, <1>5 DEF Owned
    <2> QED BY <2>1, <2>2, <2>3 DEF Owned
<1> QED BY <1>2, <1>5, <1>8, <1>9, OthersKeepSlots DEF KeepsSlots


LEMMA GateMoves ==
    ASSUME SlotsInv, NEW o \in Operations, ExchangeInv', Ask(o) \/ NotAdmitted(o) \/ Admit(o)
    PROVE  SlotsInv'
<1>1. Current(o) \in Calls /\ call \in [Calls -> CallStages]
    BY CurrentIsCall DEF SlotsInv, ExchangeInv
<1>2. UNCHANGED <<step, attempt>>
    BY DEF Ask, NotAdmitted, Admit
<1>3. {"waiting", "refused", "entered"} \subseteq CallStages
    BY DEF CallStages
<1>4. CASE Ask(o)
    <2>1. call' = [call EXCEPT ![Current(o)] = "waiting"] /\ phase' = [phase EXCEPT ![o] = "waiting"]
        BY <1>1, <1>4, GateCalls DEF Ask
    <2>2. "waiting" \notin AtWork
        BY DEF AtWork
    <2> QED BY <2>1, <2>2, <1>2, <1>3, CurrentCall
<1>5. CASE NotAdmitted(o)
    <2>1. call' = [call EXCEPT ![Current(o)] = "refused"] /\ phase' = [phase EXCEPT ![o] = "cleaning"]
        BY <1>1, <1>5, GateCalls DEF NotAdmitted
    <2>2. "cleaning" \notin AtWork
        BY DEF AtWork
    <2> QED BY <2>1, <2>2, <1>2, <1>3, CurrentCall
<1>6. CASE Admit(o)
    <2>1. PICK to \in {"closing", "admitted"} : phase' = [phase EXCEPT ![o] = to]
        BY <1>6 DEF Admit
    <2>2. call' = [call EXCEPT ![Current(o)] = "entered"]
        BY <1>1, <1>6, GateCalls DEF Admit
    <2>3. to \in AtWork /\ to # "waiting"
        BY <2>1 DEF AtWork
    <2> QED BY <2>1, <2>2, <2>3, <1>2, <1>3, CurrentCall
<1> QED BY <1>4, <1>5, <1>6

LEMMA CallStays ==
    ASSUME SlotsInv, NEW o \in Operations, ExchangeInv',
           \/ ExecuteRefused(o) \/ Execute(o) \/ Dispatch(o) \/ NotDispatched(o) \/ Break(o)
           \/ ReceiveLimit(o) \/ ReceiveAnswer(o) \/ ReadLimitFailure(o) \/ ReadLimit(o) \/ ReadAnswer(o)
           \/ Finish(o)
    PROVE  SlotsInv'
<1> DEFINE Step(to) == /\ call' = call /\ phase' = [phase EXCEPT ![o] = to] /\ attempt' = attempt
                       /\ step' = step \/ (phase[o] = "new" /\ \E i : step' = [step EXCEPT ![o] = i])
                       /\ to \in AtWork <=> phase[o] \in AtWork
                       /\ to = "waiting" <=> phase[o] = "waiting"
<1>1. ASSUME NEW to, Step(to)
      PROVE  SlotsInv'
    BY <1>1, SameCall
<1>2. Current(o) \in Calls /\ call \in [Calls -> CallStages]
    BY CurrentIsCall DEF SlotsInv, ExchangeInv
<1>3. CASE ExecuteRefused(o)
    <2>1. Step("ended")
        BY <1>3 DEF ExecuteRefused, gateVars, AtWork
    <2> QED BY <2>1, <1>1
<1>4. CASE Execute(o)
    <2>1. Step("ready")
        BY <1>4 DEF Execute, gateVars, AtWork
    <2> QED BY <2>1, <1>1
<1>5. CASE Dispatch(o)
    <2>1. Step("sending")
        BY <1>5 DEF Dispatch, gateVars, AtWork
    <2> QED BY <2>1, <1>1
<1>6. CASE NotDispatched(o) \/ Break(o) \/ ReadLimitFailure(o) \/ ReadAnswer(o)
    <2>1. Step("closing")
        BY <1>6 DEF NotDispatched, Break, ReadLimitFailure, ReadAnswer, gateVars, AtWork
    <2> QED BY <2>1, <1>1
<1>7. CASE ReceiveLimit(o)
    <2>1. Step("reading")
        BY <1>7 DEF ReceiveLimit, gateVars, AtWork
    <2> QED BY <2>1, <1>1
<1>8. CASE ReceiveAnswer(o)
    <2>1. call' = call
        BY <1>2, <1>8, GateCalls DEF ReceiveAnswer, Responded, gateVars
    <2>2. Step("reading")
        BY <2>1, <1>8 DEF ReceiveAnswer, AtWork
    <2> QED BY <2>2, <1>1
<1>9. CASE ReadLimit(o)
    <2>1. call' = call
        BY <1>2, <1>9, GateCalls DEF ReadLimit, Responded, PauseClient, gateVars
    <2>2. Step("closing")
        BY <2>1, <1>9 DEF ReadLimit, AtWork
    <2> QED BY <2>2, <1>1
<1>10. CASE Finish(o)
    <2>1. Step("ended")
        BY <1>10 DEF Finish, gateVars, AtWork
    <2> QED BY <2>1, <1>1
<1> QED BY <1>3, <1>4, <1>5, <1>6, <1>7, <1>8, <1>9, <1>10

\* Closing the gate takes every waiting call out of the queue, and its operation with it.
LEMMA GateCloses ==
    ASSUME SlotsInv, Stop, ExchangeInv'
    PROVE  SlotsInv'
<1>1. /\ call' = [c \in Calls |-> IF call[c] = "waiting" THEN "refused" ELSE call[c]]
      /\ phase' = [o \in Operations |-> IF phase[o] = "waiting" THEN "cleaning" ELSE phase[o]]
      /\ UNCHANGED <<step, attempt>>
    BY DEF Stop, FailWaiting, Gate!Shut
<1>2. call' \in [Calls -> CallStages]
    BY <1>1 DEF SlotsInv, CallStages
<1>3. ASSUME NEW o \in Operations
      PROVE  Owned(o)'
    <2>1. Current(o)' = Current(o) /\ Owned(o)
        BY <1>1 DEF Current, SlotsInv
    <2> QED BY <2>1, <1>1 DEF Owned, AtWork
<1> QED BY <1>2, <1>3 DEF SlotsInv

LEMMA SlotsStep == SlotsInv /\ [Next]_vars => SlotsInv'
<1> SUFFICES ASSUME SlotsInv, [Next]_vars
             PROVE  SlotsInv'
    OBVIOUS
<1>1. ExchangeInv'
    BY ExchangeStep DEF SlotsInv
<1>2. ASSUME UNCHANGED <<call, phase, step, attempt>>
      PROVE  SlotsInv'
    <2>1. \A o \in Operations : Owned(o)'
        BY <1>2 DEF SlotsInv, Owned, Current
    <2> QED BY <1>1, <1>2, <2>1 DEF SlotsInv
<1>3. ASSUME NEW o \in Operations, Interrupt(o)
      PROVE  SlotsInv'
    BY <1>2, <1>3 DEF Interrupt, gateVars, opVars
<1>4. ASSUME NEW c \in wire, Serve(c) \/ Lose(c)
      PROVE  SlotsInv'
    BY <1>2, <1>4 DEF Serve, Lose, gateVars, opVars
<1>5. ASSUME ShutdownReturns \/ Tick \/ UNCHANGED vars
      PROVE  SlotsInv'
    BY <1>2, <1>5 DEF ShutdownReturns, Tick, vars, gateVars, opVars
<1> QED BY <1>1, <1>3, <1>4, <1>5, GateMoves, CallStays, ReleasedCall, GateCloses DEF Next

LEMMA SlotsInit == Init => SlotsInv
<1> SUFFICES ASSUME Init
             PROVE  SlotsInv
    OBVIOUS
<1>1. ExchangeInv
    BY ExchangeInit
<1>2. call = [c \in Calls |-> "new"] /\ phase = [o \in Operations |-> "new"]
    BY DEF Init, Gate!Init
<1>3. \A o \in Operations : Owned(o)
    BY <1>1, <1>2, CurrentIsCall DEF ExchangeInv, Owned, AtWork
<1> QED BY <1>1, <1>2, <1>3 DEF SlotsInv, CallStages

\* No retry, interruption or closure leaks a slot or a place in the queue: they belong to the running
\* attempts, one each (RestExchange.SlotsOwned).
THEOREM SlotsAreOwned == Spec => []SlotsOwned
<1>1. SlotsInv => SlotsOwned
    <2> SUFFICES ASSUME SlotsInv
                 PROVE  SlotsOwned
        OBVIOUS
    <2>1. \A c \in Calls : c[1] \in Operations /\ c = <<c[1], c[2], c[3]>>
        BY DEF Calls
    <2>2. \A o \in Operations : Current(o) \in Calls /\ Current(o)[1] = o /\ Owned(o)
        BY DEF SlotsInv, Owned, Current
    <2>3. {c \in Calls : call[c] = "entered"} = {Current(o) : o \in Holding}
        BY <2>1, <2>2 DEF Owned, Holding, AtWork
    <2>4. {c \in Calls : call[c] = "waiting"} = {Current(o) : o \in {p \in Operations : phase[p] = "waiting"}}
        BY <2>1, <2>2 DEF Owned
    <2> QED BY <2>3, <2>4 DEF SlotsOwned, Gate!Entered
<1> QED BY <1>1, SlotsInit, SlotsStep, PTL DEF Spec

-----------------------------------------------------------------------------
(* Types *)

GateTyped ==
    /\ call \in [Calls -> CallStages] /\ limit \in {"clear", "held", "testing"}
    /\ tester \in Calls \cup {Nobody} /\ shut \in BOOLEAN

\* The types of what Typed leaves out
RestTyped ==
    /\ GateTyped /\ now \in Nat
    /\ retries \in [Operations -> 0..MaxReadRetries]
    /\ until \in [Operations -> Nat] /\ deadline \in [Operations -> Nat]
    /\ inline \subseteq Operations /\ stopping \subseteq Operations /\ succeeded \subseteq Operations
    /\ instance \in BOOLEAN /\ finished \in BOOLEAN
    /\ wire \subseteq Calls /\ opened \in [Operations -> Nat]

LEMMA GateTypes ==
    ASSUME GateTyped, NEW c \in Calls,
           \/ Gate!Wait(c) \/ Gate!Refuse(c) \/ Gate!Enter(c) \/ Gate!Leave(c)
           \/ Gate!MeetLimit(c) \/ Gate!PassLimit(c)
    PROVE  GateTyped'
<1>1. CASE Gate!Wait(c)
    BY <1>1 DEF GateTyped, Gate!Wait, CallStages
<1>2. CASE Gate!Refuse(c)
    BY <1>2 DEF GateTyped, Gate!Refuse, CallStages
<1>3. CASE Gate!Enter(c)
    BY <1>3 DEF GateTyped, Gate!Enter, CallStages
<1>4. CASE Gate!Leave(c)
    BY <1>4 DEF GateTyped, Gate!Leave, CallStages
<1>5. CASE Gate!MeetLimit(c)
    BY <1>5 DEF GateTyped, Gate!MeetLimit
<1>6. CASE Gate!PassLimit(c)
    BY <1>6 DEF GateTyped, Gate!PassLimit
<1> QED BY <1>1, <1>2, <1>3, <1>4, <1>5, <1>6

LEMMA RestTypesStep ==
    ASSUME Typed, RestTyped, [Next]_vars
    PROVE  RestTyped'
<1> USE BoundsAssumption
<1>1. UNCHANGED gateVars => GateTyped'
    BY DEF gateVars, RestTyped, GateTyped
<1>2. ASSUME NEW o \in Operations, ExecuteRefused(o) \/ Execute(o) \/ Dispatch(o) \/ NotDispatched(o)
      PROVE  RestTyped'
    <2>1. GateTyped'
        BY <1>1, <1>2 DEF ExecuteRefused, Execute, Dispatch, NotDispatched
    <2>2. Current(o) \in Calls
        BY CurrentIsCall
    <2>3. now + Timeout[o] \in Nat
        BY DEF RestTyped
    <2>4. opened' \in [Operations -> Nat]
        BY <1>2 DEF RestTyped, ExecuteRefused, Execute, Dispatch, NotDispatched, Open, netVars
    <2>5. wire' \subseteq Calls
        BY <1>2, <2>2 DEF RestTyped, ExecuteRefused, Execute, Dispatch, NotDispatched, netVars
    <2>6. deadline' \in [Operations -> Nat]
        BY <1>2, <2>3 DEF RestTyped, ExecuteRefused, Execute, Dispatch, NotDispatched
    <2> QED BY <1>2, <2>1, <2>4, <2>5, <2>6
            DEF RestTyped, ExecuteRefused, Execute, Dispatch, NotDispatched, endVars, netVars
<1>3. ASSUME NEW o \in Operations, Ask(o) \/ NotAdmitted(o) \/ Admit(o) \/ Interrupt(o) \/ Finish(o)
      PROVE  RestTyped'
    <2>1. GateTyped'
        BY <1>1, <1>3, GateTypes, CurrentIsCall DEF Ask, NotAdmitted, Admit, Interrupt, Finish, RestTyped
    <2> QED BY <1>3, <2>1 DEF RestTyped, Ask, NotAdmitted, Admit, Interrupt, Finish, endVars, netVars, opVars
<1>4. ASSUME NEW o \in Operations,
             \/ Break(o) \/ ReceiveLimit(o) \/ ReceiveAnswer(o) \/ ReadLimitFailure(o)
             \/ ReadLimit(o) \/ ReadAnswer(o)
      PROVE  RestTyped'
    <2>1. GateTyped'
        BY <1>1, <1>4, GateTypes, CurrentIsCall
        DEF Break, ReceiveLimit, ReceiveAnswer, ReadLimitFailure, ReadLimit, ReadAnswer, Responded,
            PauseClient, RestTyped
    <2> QED BY <1>4, <2>1 DEF RestTyped, Break, ReceiveLimit, ReceiveAnswer, ReadLimitFailure,
            ReadLimit, ReadAnswer, endVars, netVars
<1>5. ASSUME NEW o \in Operations, Release(o)
      PROVE  RestTyped'
    <2>1. GateTyped'
        BY <1>5, GateTypes, CurrentIsCall DEF Release, Leave, RestTyped
    <2>2. /\ UNCHANGED <<now, deadline, stopping, finished, wire, opened>>
          /\ Succeed(o) \/ SendInline(o) \/ RepeatRead(o) \/ WaitOut(o) \/ GiveUp(o)
        BY <1>5 DEF Release, netVars
    <2> DEFINE Types == /\ retries' \in [Operations -> 0..MaxReadRetries] /\ until' \in [Operations -> Nat]
                        /\ inline' \subseteq Operations /\ succeeded' \subseteq Operations
                        /\ instance' \in BOOLEAN
    <2>3. ASSUME Succeed(o)
          PROVE  Types
        <3>1. instance' \in BOOLEAN
            BY <2>3, Zenon DEF Succeed, RestTyped
        <3>2. CASE step[o] < Len(Plan[o])
            <4>1. GoTo(o, step[o] + 1) /\ inline' = inline
                BY <2>3, <3>2 DEF Succeed
            <4>2. /\ retries' = [retries EXCEPT ![o] = 0] /\ until' = [until EXCEPT ![o] = 0]
                  /\ succeeded' = succeeded
                BY <4>1 DEF GoTo
            <4>3. 0 \in 0..MaxReadRetries /\ 0 \in Nat
                OBVIOUS
            <4> QED BY <3>1, <4>1, <4>2, <4>3 DEF RestTyped
        <3>3. CASE ~(step[o] < Len(Plan[o]))
            BY <2>3, <3>1, <3>3 DEF Succeed, RestTyped
        <3> QED BY <3>2, <3>3
    <2>4. ASSUME SendInline(o)
          PROVE  Types
        BY <2>4 DEF SendInline, GoTo, RestTyped
    <2>5. ASSUME RepeatRead(o)
          PROVE  Types
        <3>1. retries[o] < MaxReadRetries /\ retries[o] \in 0..MaxReadRetries
            BY <2>5 DEF RepeatRead, MayRepeat, RestTyped
        <3>2. retries[o] + 1 \in 0..MaxReadRetries
            BY <3>1
        <3>3. \A delay \in RetryDelays : now + delay \in Nat
            BY DEF RestTyped
        <3> QED BY <2>5, <3>2, <3>3 DEF RepeatRead, Again, RestTyped
    <2>6. ASSUME WaitOut(o)
          PROVE  Types
        <3>1. \A asked \in Asked : now + asked \in Nat
            BY DEF RestTyped
        <3> QED BY <2>6, <3>1 DEF WaitOut, Again, RestTyped
    <2>7. ASSUME GiveUp(o)
          PROVE  Types
        BY <2>7 DEF GiveUp, Fail, RestTyped
    <2> HIDE DEF Types
    <2>8. Types
        BY <2>2, <2>3, <2>4, <2>5, <2>6, <2>7
    <2> QED BY <2>1, <2>2, <2>8 DEF RestTyped, Types
<1>6. ASSUME NEW c \in wire, Serve(c) \/ Lose(c)
      PROVE  RestTyped'
    <2>1. GateTyped'
        BY <1>1, <1>6 DEF Serve, Lose
    <2> QED BY <1>6, <2>1 DEF RestTyped, Serve, Lose, endVars, opVars
<1>7. ASSUME Stop
      PROVE  RestTyped'
    <2>1. GateTyped'
        BY <1>7 DEF Stop, Gate!Shut, RestTyped, GateTyped, CallStages
    <2> QED BY <1>7, <2>1 DEF RestTyped, Stop, netVars
<1>8. ASSUME ShutdownReturns \/ Tick \/ UNCHANGED vars
      PROVE  RestTyped'
    <2>1. GateTyped'
        BY <1>1, <1>8 DEF ShutdownReturns, Tick, vars
    <2>2. UNCHANGED <<retries, until, deadline, inline, stopping, succeeded, instance, wire, opened>>
        BY <1>8 DEF ShutdownReturns, Tick, vars, endVars, netVars, opVars
    <2>3. now' \in {now, now + 1} /\ finished' \in {finished, TRUE}
        BY <1>8 DEF ShutdownReturns, Tick, vars, endVars
    <2>4. now' \in Nat
        BY <2>3 DEF RestTyped
    <2>5. finished' \in BOOLEAN
        BY <2>3, Zenon DEF RestTyped
    <2> QED BY <2>1, <2>2, <2>4, <2>5 DEF RestTyped
<1> QED BY <1>2, <1>3, <1>4, <1>5, <1>6, <1>7, <1>8 DEF Next

LEMMA RestTypesInit == Init => RestTyped
<1> SUFFICES ASSUME Init
             PROVE  RestTyped
    OBVIOUS
<1>1. GateTyped
    BY DEF Init, Gate!Init, GateTyped, CallStages
<1>2. MaxReadRetries \in Nat /\ Inline \subseteq Operations
    BY BoundsAssumption, PlanAssumption
<1>3. /\ retries \in [Operations -> 0..MaxReadRetries]
      /\ until \in [Operations -> Nat] /\ deadline \in [Operations -> Nat]
      /\ opened \in [Operations -> Nat] /\ now \in Nat
    BY <1>2 DEF Init
<1> QED BY <1>1, <1>2, <1>3 DEF Init, RestTyped

-----------------------------------------------------------------------------
(* The upload budget and shutdown *)

Reserved(running) == Total(UploadSize, running)

\* The running operations are finitely many, the budget is the sum of what they reserved, and once
\* shutdown returned none runs and the gate is closed.
BudgetInv ==
    /\ SlotsInv /\ RestTyped
    /\ IsFiniteSet(Running) /\ uploadBytes = Reserved(Running) /\ uploadBytes <= UploadMaxBytes
    /\ finished => Running = {} /\ shut

LEMMA RunningKept ==
    ASSUME Typed, NEW o \in Operations, phase[o] \notin {"new", "ended"},
           NEW to, to \notin {"new", "ended"}, phase' = [phase EXCEPT ![o] = to]
    PROVE  Running' = Running
<1>1. \A p \in Operations : phase'[p] = IF p = o THEN to ELSE phase[p]
    BY DEF Typed
<1> QED BY <1>1 DEF Running

\* Who runs changes only when an operation is executed and when it ends.
LEMMA RunningIs ==
    ASSUME SlotsInv, [Next]_vars
    PROVE  \/ Running' = Running /\ uploadBytes' = uploadBytes
           \/ \E o \in Operations : Execute(o) /\ o \notin Running /\ Running' = Running \cup {o}
           \/ \E o \in Operations : Finish(o) /\ o \in Running /\ Running' = Running \ {o}
<1>1. Typed
    BY DEF SlotsInv, ExchangeInv
<1>2. ASSUME NEW o \in Operations, Execute(o)
      PROVE  o \notin Running /\ Running' = Running \cup {o}
    <2>1. phase[o] = "new" /\ \A p \in Operations : phase'[p] = IF p = o THEN "ready" ELSE phase[p]
        BY <1>1, <1>2 DEF Typed, Execute
    <2> QED BY <2>1 DEF Running
<1>3. ASSUME NEW o \in Operations, Finish(o)
      PROVE  o \in Running /\ Running' = Running \ {o}
    <2>1. phase[o] = "cleaning" /\ \A p \in Operations : phase'[p] = IF p = o THEN "ended" ELSE phase[p]
        BY <1>1, <1>3 DEF Typed, Finish
    <2> QED BY <2>1 DEF Running
<1>4. ASSUME NEW o \in Operations, ExecuteRefused(o)
      PROVE  Running' = Running /\ uploadBytes' = uploadBytes
    <2>1. phase[o] = "new" /\ \A p \in Operations : phase'[p] = IF p = o THEN "ended" ELSE phase[p]
        BY <1>1, <1>4 DEF Typed, ExecuteRefused
    <2>2. Running' = Running
        BY <2>1 DEF Running
    <2> QED BY <2>2, <1>4 DEF ExecuteRefused, endVars
<1>5. ASSUME NEW o \in Operations,
             \/ Ask(o) \/ NotAdmitted(o) \/ Admit(o) \/ Dispatch(o) \/ NotDispatched(o) \/ Break(o)
             \/ ReceiveLimit(o) \/ ReceiveAnswer(o) \/ ReadLimitFailure(o) \/ ReadLimit(o)
             \/ ReadAnswer(o) \/ Release(o)
      PROVE  Running' = Running /\ uploadBytes' = uploadBytes
    <2>1. uploadBytes' = uploadBytes
        BY <1>5 DEF Ask, NotAdmitted, Admit, Dispatch, NotDispatched, Break, ReceiveLimit, ReceiveAnswer,
            ReadLimitFailure, ReadLimit, ReadAnswer, Release, endVars
    <2>2. phase[o] \notin {"new", "ended"}
        BY <1>5 DEF Ask, NotAdmitted, Admit, Dispatch, NotDispatched, Break, ReceiveLimit, ReceiveAnswer,
            ReadLimitFailure, ReadLimit, ReadAnswer, Release
    <2>3. \E to \in {"waiting", "cleaning", "closing", "admitted", "sending", "reading", "ready"} :
              phase' = [phase EXCEPT ![o] = to]
        <3>1. CASE Release(o)
            BY <3>1, <1>1, AfterAttempt DEF GoesOn, Ends
        <3>2. CASE ~Release(o)
            BY <3>2, <1>5 DEF Ask, NotAdmitted, Admit, Dispatch, NotDispatched, Break, ReceiveLimit,
                ReceiveAnswer, ReadLimitFailure, ReadLimit, ReadAnswer
        <3> QED BY <3>1, <3>2
    <2> QED BY <1>1, <2>1, <2>2, <2>3, RunningKept
<1>6. ASSUME UNCHANGED <<phase, uploadBytes>>
      PROVE  Running' = Running /\ uploadBytes' = uploadBytes
    BY <1>6 DEF Running
<1>7. ASSUME NEW o \in Operations, Interrupt(o)
      PROVE  Running' = Running /\ uploadBytes' = uploadBytes
    BY <1>6, <1>7 DEF Interrupt, opVars
<1>8. ASSUME NEW c \in wire, Serve(c) \/ Lose(c)
      PROVE  Running' = Running /\ uploadBytes' = uploadBytes
    BY <1>6, <1>8 DEF Serve, Lose, opVars, endVars
<1>9. ASSUME ShutdownReturns \/ Tick \/ UNCHANGED vars
      PROVE  Running' = Running /\ uploadBytes' = uploadBytes
    BY <1>6, <1>9 DEF ShutdownReturns, Tick, vars, opVars, endVars
<1>10. ASSUME Stop
       PROVE  Running' = Running /\ uploadBytes' = uploadBytes
    <2>1. \A p \in Operations : phase'[p] = IF phase[p] = "waiting" THEN "cleaning" ELSE phase[p]
        BY <1>10 DEF Stop, FailWaiting
    <2>2. Running' = Running
        BY <2>1 DEF Running
    <2> QED BY <2>2, <1>10 DEF Stop
<1> QED BY <1>2, <1>3, <1>4, <1>5, <1>7, <1>8, <1>9, <1>10 DEF Next

\* A closed gate stays closed.
LEMMA ShutStays ==
    ASSUME shut, [Next]_vars
    PROVE  shut' /\ \A o \in Operations : ~Execute(o)
<1>1. \A c : Gate!Wait(c) \/ Gate!Refuse(c) \/ Gate!Enter(c) \/ Gate!Leave(c) \/ Gate!MeetLimit(c)
             \/ Gate!PassLimit(c) => shut' = shut
    BY DEF Gate!Wait, Gate!Refuse, Gate!Enter, Gate!Leave, Gate!MeetLimit, Gate!PassLimit
<1>2. shut' = shut \/ Gate!Shut
    BY <1>1, ZenonT(40) DEF Next, ExecuteRefused, Execute, Ask, NotAdmitted, Admit, Dispatch, NotDispatched, Break,
        ReceiveLimit, ReceiveAnswer, ReadLimitFailure, ReadLimit, ReadAnswer, Interrupt, Release, Leave,
        Finish, Serve, Lose, Stop, ShutdownReturns, Tick, vars, gateVars, Responded, PauseClient
<1> QED BY <1>2 DEF Gate!Shut, Execute

LEMMA BudgetInit == Init => BudgetInv
<1> SUFFICES ASSUME Init
             PROVE  BudgetInv
    OBVIOUS
<1>1. Running = {} /\ uploadBytes = 0 /\ finished = FALSE
    BY DEF Init, Running
<1>2. IsFiniteSet(Running) /\ Reserved(Running) = 0
    BY <1>1, FS_EmptySet, TotalEmpty DEF Reserved
<1>3. 0 <= UploadMaxBytes
    BY BoundsAssumption
<1> QED BY <1>1, <1>2, <1>3, SlotsInit, RestTypesInit DEF BudgetInv

LEMMA BudgetStep == BudgetInv /\ [Next]_vars => BudgetInv'
<1> SUFFICES ASSUME BudgetInv, [Next]_vars
             PROVE  BudgetInv'
    OBVIOUS
<1>1. SlotsInv /\ Typed /\ RestTyped /\ SlotsInv' /\ RestTyped'
    BY SlotsStep, RestTypesStep DEF BudgetInv, SlotsInv, ExchangeInv
<1>2. \A o \in Operations : UploadSize[o] \in Nat
    BY BoundsAssumption
<1>3. UploadMaxBytes \in Nat /\ Running \subseteq Operations
    BY BoundsAssumption DEF Running
<1>4. uploadBytes \in Nat
    BY <1>2, <1>3, TotalNat DEF BudgetInv, Reserved
<1> DEFINE Budget == IsFiniteSet(Running) /\ uploadBytes = Reserved(Running) /\ uploadBytes <= UploadMaxBytes
<1>5. Budget'
    <2>1. CASE Running' = Running /\ uploadBytes' = uploadBytes
        BY <2>1 DEF BudgetInv
    <2>2. ASSUME NEW o \in Operations, Execute(o), o \notin Running, Running' = Running \cup {o}
          PROVE  Budget'
        <3>1. uploadBytes' = uploadBytes + UploadSize[o] /\ UploadSize[o] <= UploadMaxBytes - uploadBytes
            BY <2>2 DEF Execute, Fits
        <3>2. IsFiniteSet(Running \cup {o})
            BY OneMore, <2>2 DEF BudgetInv
        <3>3. Reserved(Running \cup {o}) = UploadSize[o] + Reserved(Running)
            BY <1>2, <1>3, <2>2, TotalMore DEF BudgetInv, Reserved
        <3>4. Reserved(Running)' = Reserved(Running \cup {o})
            BY <2>2 DEF Reserved
        <3> QED BY <1>2, <1>3, <1>4, <2>2, <3>1, <3>2, <3>3, <3>4 DEF BudgetInv
    <2>3. ASSUME NEW o \in Operations, Finish(o), o \in Running, Running' = Running \ {o}
          PROVE  Budget'
        <3>1. uploadBytes' = uploadBytes - UploadSize[o]
            BY <2>3 DEF Finish, ReturnBytes
        <3>2. IsFiniteSet(Running \ {o})
            BY OneLess, <2>3 DEF BudgetInv
        <3>3. Reserved(Running) = UploadSize[o] + Reserved(Running \ {o})
            BY <1>2, <1>3, <2>3, TotalLess DEF BudgetInv, Reserved
        <3>4. Reserved(Running)' = Reserved(Running \ {o})
            BY <2>3 DEF Reserved
        <3>5. Reserved(Running \ {o}) \in Nat
            BY <1>2, <1>3, <3>2, TotalNat DEF Reserved
        <3> QED BY <1>2, <1>3, <1>4, <2>3, <3>1, <3>2, <3>3, <3>4, <3>5 DEF BudgetInv
    <2> QED BY <2>1, <2>2, <2>3, <1>1, RunningIs
<1>6. finished' => Running' = {} /\ shut'
    <2>1. CASE ShutdownReturns
        BY <2>1 DEF ShutdownReturns, Idle, Running, opVars, gateVars
    <2>2. CASE ~ShutdownReturns
        <3>1. finished' = finished
            BY <2>2 DEF Next, ExecuteRefused, Execute, Ask, NotAdmitted, Admit, Dispatch, NotDispatched, Break,
                ReceiveLimit, ReceiveAnswer, ReadLimitFailure, ReadLimit, ReadAnswer, Interrupt, Release,
                Finish, Serve, Lose, Stop, ShutdownReturns, Tick, vars, endVars
        <3>2. finished => Running' = {}
            BY <1>1, RunningIs, ShutStays DEF BudgetInv
        <3> QED BY <3>1, <3>2, ShutStays DEF BudgetInv
    <2> QED BY <2>1, <2>2
<1> QED BY <1>1, <1>5, <1>6 DEF BudgetInv

\* The upload budget is the sum of what the running operations reserved and never exceeds its limit,
\* whatever starts, fails, is interrupted or ends, and every variable keeps its type
\* (RestExchange.UploadsBounded).
THEOREM BudgetIsExact == Spec => []UploadsBounded
<1>1. BudgetInv => UploadsBounded
    <2> SUFFICES ASSUME BudgetInv
                 PROVE  UploadsBounded
        OBVIOUS
    <2>1. Reserved(Running) = MapThenSumSet(LAMBDA o : UploadSize[o], Running)
        BY Zenon DEF Reserved, Total
    <2>2. Running \subseteq Operations /\ \A o \in Operations : UploadSize[o] \in Nat
        BY BoundsAssumption DEF Running
    <2>3. uploadBytes \in Nat
        BY <2>2, TotalNat DEF BudgetInv, Reserved
    <2>4. TypeOK
        BY <2>3 DEF BudgetInv, SlotsInv, ExchangeInv, Typed, RestTyped, GateTyped, TypeOK, Verdict
    <2> QED BY <2>1, <2>4 DEF BudgetInv, UploadsBounded
<1> QED BY <1>1, BudgetInit, BudgetStep, PTL DEF Spec

\* When shutdown returns, no operation runs or will run, and no slot, place in the queue or byte of the
\* upload budget is held (RestExchange.ShutdownComplete).
THEOREM ShutdownIsComplete == Spec => []ShutdownComplete
<1>1. BudgetInv => ShutdownComplete
    <2> SUFFICES ASSUME BudgetInv, finished
                 PROVE  Running = {} /\ uploadBytes = 0 /\ shut
                        /\ \A c \in Calls : call[c] \notin {"waiting", "entered"}
        BY DEF ShutdownComplete
    <2>1. Running = {} /\ shut
        BY DEF BudgetInv
    <2>2. uploadBytes = 0
        BY <2>1, TotalEmpty DEF BudgetInv, Reserved
    <2>3. \A o \in Operations : phase[o] \in {"new", "ended"}
        BY <2>1 DEF Running
    <2>4. \A c \in Calls : c[1] \in Operations
        BY DEF Calls
    <2>5. \A c \in Calls : call[c] \notin {"waiting", "entered"}
        BY <2>3, <2>4 DEF BudgetInv, SlotsInv, Owned, AtWork
    <2> QED BY <2>1, <2>2, <2>5
<1> QED BY <1>1, BudgetInit, BudgetStep, PTL DEF Spec

-----------------------------------------------------------------------------
(* Bodies that can be read once *)

\* Until its operation is over, a body is closed before and while its upload is prepared, and whenever
\* a step that carries it is yet to be dispatched; what goes inline is not uploaded any more.
Unread(o) ==
    /\ opened[o] <= 1
    /\ phase[o] = "new" => opened[o] = 0 /\ step[o] = Discovery
    /\ phase[o] \notin Over =>
        /\ Kind(o) \in {"discover", "prepare"} => opened[o] = 0
        /\ phase[o] \in Before /\ CarriesStream(o) => opened[o] = 0
        /\ o \in inline => \A i \in step[o]..Len(Plan[o]) : KindOf(o, i) # "upload"
    /\ phase[o] = "closing" =>
        /\ verdict[o] = "disabled" => Kind(o) = "prepare"
        /\ verdict[o] = "limited" => Kind(o) # "upload"

StreamInv == Typed /\ opened \in [Operations -> Nat] /\ inline \subseteq Operations
             /\ \A o \in Streams : Unread(o)

LEMMA UnreadKept ==
    ASSUME NEW o \in Operations, Unread(o),
           phase'[o] = phase[o], step'[o] = step[o], opened'[o] = opened[o], verdict'[o] = verdict[o],
           o \in inline' <=> o \in inline
    PROVE  Unread(o)'
BY DEF Unread, CarriesStream, Sends, Kind

LEMMA PlanIs ==
    ASSUME NEW o \in Operations
    PROVE  /\ Len(Plan[o]) \in Nat \ {0}
           /\ \A i \in Steps(o) : /\ KindOf(o, i) \in {"discover", "prepare", "upload", "send"}
                                  /\ KindOf(o, i) = "discover" <=> i = 0
                                  /\ KindOf(o, i) = "send" <=> i = Len(Plan[o])
<1>1. Plan[o] \in Seq({"prepare", "upload", "send"}) /\ Plan[o] # <<>>
    BY PlanAssumption
<1>2. Len(Plan[o]) \in Nat \ {0}
    BY <1>1, EmptySeq, LenProperties
<1>3. \A i \in 1..Len(Plan[o]) : /\ Plan[o][i] \in {"prepare", "upload", "send"}
                                 /\ Plan[o][i] = "send" <=> i = Len(Plan[o])
    BY <1>1, PlanAssumption
<1> QED BY <1>2, <1>3 DEF KindOf, Discovery, Steps

\* A step of an operation that leaves its exchange where it is and opens nothing
LEMMA MovesUnread ==
    ASSUME NEW o \in Streams, Typed, Unread(o), phase[o] \notin Over,
           NEW to, phase'[o] = to, to # "new", to \in Before => phase[o] \in Before,
           step'[o] = step[o], opened'[o] = opened[o], o \in inline' <=> o \in inline,
           to = "closing" => /\ verdict'[o] = "disabled" => Kind(o) = "prepare"
                             /\ verdict'[o] = "limited" => Kind(o) # "upload"
    PROVE  Unread(o)'
<1>1. (Kind(o)' = Kind(o)) /\ (CarriesStream(o)' <=> CarriesStream(o))
    BY DEF Kind, CarriesStream, Sends
<1> QED BY <1>1 DEF Unread

\* The exchange goes on with a later step, or with the request itself.
LEMMA NextUnread ==
    ASSUME NEW o \in Streams, Typed, Unread(o), phase[o] \notin Over,
           NEW i \in Steps(o), step'[o] = i, phase'[o] = "ready", opened'[o] = opened[o],
           o \in inline' => o \in inline \/ (Kind(o) = "prepare" /\ i = Len(Plan[o])),
           \/ i = step[o] + 1
           \/ i = Len(Plan[o]) /\ Kind(o) = "prepare"
           \/ i = step[o] /\ (Kind(o) \in {"discover", "prepare"} \/ (Sends(o) /\ o \notin inline))
           \/ i = 1 /\ step[o] = 0
    PROVE  Unread(o)'
<1>1. o \in Operations /\ step[o] \in Steps(o) /\ Len(Plan[o]) \in Nat \ {0} /\ step[o] \in Nat /\ i \in Nat
    BY PlanAssumption, PlanIs DEF Typed, Steps
<1>2. Kind(o) = KindOf(o, step[o]) /\ Kind(o)' = KindOf(o, i)
    BY DEF Kind
<1>3. "prepare" = KindOf(o, i) => Kind(o) \in {"discover", "prepare"}
    <2> SUFFICES ASSUME KindOf(o, i) = "prepare"
                 PROVE  Kind(o) \in {"discover", "prepare"}
        OBVIOUS
    <2>1. i # 0 /\ i # Len(Plan[o]) /\ i \in 1..Len(Plan[o]) /\ Plan[o][i] = "prepare"
        BY <1>1, PlanIs DEF KindOf, Discovery, Steps
    <2>2. step[o] <= i /\ (step[o] = Len(Plan[o]) => step[o] = i)
        BY <1>1, <2>1, PlanIs DEF Steps, Sends, Kind
    <2>3. ASSUME Kind(o) = "upload"
          PROVE  FALSE
        <3>1. step[o] \in 1..Len(Plan[o]) /\ Plan[o][step[o]] = "upload"
            BY <1>1, <1>2, <2>3, PlanIs DEF KindOf, Discovery, Steps
        <3>2. i < step[o]
            BY <1>1, <2>1, <3>1, StreamsAssumption
        <3> QED BY <2>2, <3>2, <1>1
    <2>4. Kind(o) # "send"
        BY <1>1, <1>2, <2>1, <2>2, PlanIs
    <2> QED BY <1>1, <1>2, <2>3, <2>4, PlanIs
<1>4. KindOf(o, i) = "upload" => Kind(o) \in {"discover", "prepare"}
    <2> SUFFICES ASSUME KindOf(o, i) = "upload"
                 PROVE  Kind(o) \in {"discover", "prepare"}
        OBVIOUS
    <2>1. i # 0 /\ i # Len(Plan[o]) /\ i \in 1..Len(Plan[o]) /\ Plan[o][i] = "upload"
        BY <1>1, PlanIs DEF KindOf, Discovery, Steps
    <2>2. CASE step[o] = i
        BY <2>1, <2>2, <1>1, <1>2 DEF Sends
    <2>3. CASE step[o] # i
        <3>1. Kind(o) # "upload"
            <4>1. ASSUME Kind(o) = "upload"
                  PROVE  FALSE
                <5>1. step[o] \in 1..Len(Plan[o]) /\ Plan[o][step[o]] = "upload"
                    BY <1>1, <1>2, <4>1, PlanIs DEF KindOf, Discovery, Steps
                <5> QED BY <5>1, <2>1, <2>3, <1>1, PlanAssumption
            <4> QED BY <4>1
        <3>2. step[o] # Len(Plan[o])
            BY <2>1, <2>3, <1>1 DEF Steps
        <3> QED BY <1>1, <1>2, <3>1, <3>2, PlanIs
    <2> QED BY <2>2, <2>3
<1>5. KindOf(o, i) = "discover" => Kind(o) \in {"discover", "prepare"}
    BY <1>1, <1>2, PlanIs
<1>6. KindOf(o, i) = "send" /\ o \in inline' => Kind(o) \in {"discover", "prepare"}
    <2> SUFFICES ASSUME KindOf(o, i) = "send", o \in inline', Kind(o) # "prepare"
                 PROVE  Kind(o) = "discover"
        OBVIOUS
    <2>1. o \in inline
        OBVIOUS
    <2>2. Kind(o) # "upload"
        <3>1. step[o] \in step[o]..Len(Plan[o])
            BY <1>1 DEF Steps
        <3> QED BY <2>1, <3>1, <1>2 DEF Unread
    <2>3. i = Len(Plan[o])
        BY <1>1, PlanIs
    <2>4. step[o] # Len(Plan[o]) \/ Kind(o) = "discover"
        BY <2>1, <2>3, <1>1, <1>2, PlanIs DEF Steps, Sends
    <2> QED BY <1>1, <1>2, <2>2, <2>4, PlanIs
<1>7. Kind(o) \in {"discover", "prepare"} => opened'[o] = 0
    BY DEF Unread
<1>8. o \in inline' => \A j \in i..Len(Plan[o]) : KindOf(o, j) # "upload"
    <2> SUFFICES ASSUME o \in inline', NEW j \in i..Len(Plan[o])
                 PROVE  KindOf(o, j) # "upload"
        OBVIOUS
    <2>1. CASE o \in inline
        <3>1. j \in step[o]..Len(Plan[o])
            BY <1>1 DEF Steps
        <3> QED BY <3>1, <2>1 DEF Unread
    <2>2. CASE o \notin inline
        BY <2>2, <1>1, PlanIs DEF Steps
    <2> QED BY <2>1, <2>2
<1>9. CarriesStream(o)' <=> o \in Streams /\ (KindOf(o, i) = "upload" \/ (KindOf(o, i) = "send" /\ o \in inline'))
    BY <1>2 DEF CarriesStream, Sends
<1>10. opened'[o] <= 1 /\ phase'[o] \notin {"new", "closing"}
    BY DEF Unread
<1>11. Kind(o)' \in {"discover", "prepare"} => opened'[o] = 0
    BY <1>2, <1>3, <1>5, <1>7
<1>12. CarriesStream(o)' => opened'[o] = 0
    BY <1>4, <1>6, <1>7, <1>9
<1> QED BY <1>8, <1>10, <1>11, <1>12 DEF Unread

\* Whoever is not the operation that moves keeps what Unread speaks of.
OnlyOf(o) ==
    \A p \in Operations \ {o} :
        /\ phase'[p] = phase[p] /\ step'[p] = step[p] /\ opened'[p] = opened[p] /\ verdict'[p] = verdict[p]
        /\ p \in inline' <=> p \in inline

LEMMA OthersUnread ==
    ASSUME NEW o \in Operations, OnlyOf(o), \A p \in Streams : Unread(p), o \in Streams => Unread(o)'
    PROVE  \A p \in Streams : Unread(p)'
<1> SUFFICES ASSUME NEW p \in Streams, p # o
             PROVE  Unread(p)'
    OBVIOUS
<1>1. p \in Operations
    BY PlanAssumption
<1> QED BY <1>1, UnreadKept DEF OnlyOf

\* The attempt opens the body it carries, or fails before or after it did.
LEMMA OpensUnread ==
    ASSUME NEW o \in Streams, StreamInv, phase[o] = "admitted",
           NEW to \in {"sending", "closing"}, phase'[o] = to, to = "closing" => verdict'[o] = "failed",
           step'[o] = step[o], o \in inline' <=> o \in inline,
           opened'[o] = opened[o] \/ (CarriesStream(o) /\ opened'[o] = opened[o] + 1)
    PROVE  Unread(o)'
<1>1. (Kind(o)' = Kind(o)) /\ (CarriesStream(o)' <=> CarriesStream(o))
    BY DEF Kind, CarriesStream, Sends
<1>2. Unread(o) /\ o \in Operations /\ opened[o] \in Nat
    BY PlanAssumption DEF StreamInv
<1>3. CarriesStream(o) => opened[o] = 0 /\ Kind(o) \notin {"discover", "prepare"}
    BY <1>2 DEF Unread, Before, Over, CarriesStream, Sends
<1>4. opened'[o] <= 1 /\ (Kind(o) \in {"discover", "prepare"} => opened'[o] = 0)
    BY <1>2, <1>3 DEF Unread, Over
<1>5. phase'[o] \notin Before \cup {"new"} /\ phase[o] \notin Over
    BY DEF Before, Over
<1> QED BY <1>1, <1>2, <1>4, <1>5 DEF Unread

\* After an attempt, whatever it came to
LEMMA ReleaseUnread ==
    ASSUME NEW o \in Streams, StreamInv, Release(o)
    PROVE  Unread(o)'
<1>1. o \in Operations /\ Typed /\ Unread(o) /\ phase[o] = "closing" /\ phase[o] \notin Over
    BY PlanAssumption DEF StreamInv, Release, Over
<1>2. opened' = opened
    BY DEF Release, netVars
<1>3. step[o] \in Steps(o) /\ step[o] \in Nat /\ Len(Plan[o]) \in Nat \ {0}
    BY <1>1, PlanIs DEF Typed
<1>4. \A to : phase' = [phase EXCEPT ![o] = to] => phase'[o] = to
    BY <1>1 DEF Typed
<1>5. \A i : step' = [step EXCEPT ![o] = i] => step'[o] = i
    BY <1>1 DEF Typed
<1>6. ASSUME phase' = [phase EXCEPT ![o] = "cleaning"], step' = step, inline' = inline
      PROVE  Unread(o)'
    BY <1>1, <1>2, <1>4, <1>6, MovesUnread DEF Before
<1>7. CASE Succeed(o)
    <2>1. CASE step[o] < Len(Plan[o])
        <3>1. GoTo(o, step[o] + 1) /\ inline' = inline
            BY <1>7, <2>1 DEF Succeed
        <3>2. step'[o] = step[o] + 1 /\ phase'[o] = "ready"
            BY <3>1, <1>4, <1>5 DEF GoTo
        <3>3. step[o] + 1 \in Steps(o)
            BY <1>3, <2>1 DEF Steps
        <3> QED BY <1>1, <1>2, <3>1, <3>2, <3>3, NextUnread
    <2>2. CASE ~(step[o] < Len(Plan[o]))
        BY <1>6, <1>7, <2>2 DEF Succeed
    <2> QED BY <2>1, <2>2
<1>8. CASE SendInline(o)
    <2>1. GoTo(o, Len(Plan[o])) /\ inline' = inline \cup {o} /\ Kind(o) = "prepare"
        BY <1>1, <1>8 DEF SendInline, Unread
    <2>2. step'[o] = Len(Plan[o]) /\ phase'[o] = "ready" /\ Len(Plan[o]) \in Steps(o)
        <3>1. step' = [step EXCEPT ![o] = Len(Plan[o])] /\ phase' = [phase EXCEPT ![o] = "ready"]
            BY <2>1 DEF GoTo
        <3>2. Len(Plan[o]) \in 0..Len(Plan[o])
            BY <1>3
        <3> QED BY <1>4, <1>5, <3>1, <3>2 DEF Steps
    <2>3. Kind(o) = "prepare" /\ opened'[o] = opened[o]
        BY <1>2, <2>1
    <2> HIDE DEF Kind
    <2> QED BY <1>1, <2>2, <2>3, NextUnread
<1>9. CASE RepeatRead(o)
    BY <1>9, StreamsAssumption DEF RepeatRead, MayRepeat
<1>10. CASE WaitOut(o)
    <2>1. step' = step /\ inline' = inline /\ phase' = [phase EXCEPT ![o] = "ready"]
        BY <1>10 DEF WaitOut, Again
    <2>2. Kind(o) # "upload" /\ ~(Sends(o) /\ o \in inline)
        BY <1>1, <1>10 DEF WaitOut, Unread, Resendable
    <2>3. Kind(o) \in {"discover", "prepare"} \/ (Sends(o) /\ o \notin inline)
        BY <1>1, <1>3, <2>2, PlanIs DEF Kind, Sends
    <2> QED BY <1>1, <1>2, <1>3, <1>4, <2>1, <2>3, NextUnread
<1>11. CASE GiveUp(o)
    BY <1>6, <1>11 DEF GiveUp, Fail
<1> QED BY <1>7, <1>8, <1>9, <1>10, <1>11 DEF Release

LEMMA StreamInit == Init => StreamInv
<1> SUFFICES ASSUME Init
             PROVE  StreamInv
    OBVIOUS
<1>1. Typed /\ RestTyped
    BY ExchangeInit, RestTypesInit DEF ExchangeInv
<1>2. \A o \in Streams : o \in Operations /\ opened[o] = 0 /\ phase[o] = "new" /\ step[o] = Discovery
    BY PlanAssumption DEF Init
<1>3. \A o \in Streams : \A i \in 0..Len(Plan[o]) : o \in inline => KindOf(o, i) # "upload"
    <2> SUFFICES ASSUME NEW o \in Streams, o \in inline, NEW i \in 0..Len(Plan[o])
                 PROVE  KindOf(o, i) # "upload"
        OBVIOUS
    <2>1. o \in Inline /\ o \in Operations
        BY PlanAssumption DEF Init
    <2>2. Len(Plan[o]) \in Nat
        BY <2>1, PlanIs
    <2> QED BY <2>1, <2>2, StreamsAssumption DEF KindOf, Discovery
<1>4. \A o \in Streams : ~CarriesStream(o)
    <2> SUFFICES ASSUME NEW o \in Streams
                 PROVE  Kind(o) = "discover"
        BY DEF CarriesStream, Sends
    <2> QED BY <1>2 DEF Kind, KindOf
<1> QED BY <1>1, <1>2, <1>3, <1>4 DEF StreamInv, Unread, RestTyped, Discovery

LEMMA StreamStep ==
    ASSUME StreamInv, Typed', RestTyped', [Next]_vars
    PROVE  StreamInv'
<1>1. Typed /\ opened \in [Operations -> Nat] /\ Streams \subseteq Operations /\ \A o \in Streams : Unread(o)
    BY PlanAssumption DEF StreamInv
<1> SUFFICES \A o \in Streams : Unread(o)'
    BY DEF StreamInv, RestTyped
<1>2. ASSUME UNCHANGED <<phase, step, opened, verdict, inline>>
      PROVE  \A o \in Streams : Unread(o)'
    BY <1>1, <1>2, UnreadKept
<1>3. \A o \in Operations : \A to : phase' = [phase EXCEPT ![o] = to] => phase'[o] = to
    BY <1>1 DEF Typed
<1>4. ASSUME NEW o \in Operations, ExecuteRefused(o)
      PROVE  \A p \in Streams : Unread(p)'
    <2>1. OnlyOf(o)
        BY <1>1, <1>4 DEF ExecuteRefused, netVars, OnlyOf, Typed
    <2>2. o \in Streams => Unread(o)'
        BY <1>1, <1>3, <1>4, MovesUnread DEF ExecuteRefused, netVars, Before, Over
    <2> QED BY <1>1, <2>1, <2>2, OthersUnread
<1>5. ASSUME NEW o \in Operations, Execute(o)
      PROVE  \A p \in Streams : Unread(p)'
    <2>1. OnlyOf(o)
        BY <1>1, <1>5 DEF Execute, netVars, OnlyOf, Typed
    <2>2. o \in Streams => Unread(o)'
        <3> SUFFICES ASSUME o \in Streams
                     PROVE  Unread(o)'
            OBVIOUS
        <3> DEFINE i == IF instance THEN 1 ELSE Discovery
        <3>1. Unread(o) /\ phase[o] = "new" /\ step[o] = 0 /\ Kind(o) = "discover"
            BY <1>1, <1>5 DEF Execute, Unread, Discovery, Kind, KindOf
        <3>2. i \in Steps(o) /\ (i = 1 \/ i = 0)
            BY PlanIs DEF Discovery, Steps
        <3>3. step'[o] = i /\ phase'[o] = "ready" /\ inline' = inline /\ opened' = opened
            BY <1>1, <1>3, <1>5 DEF Execute, netVars, Typed
        <3> HIDE DEF i
        <3>4. (i = 1 /\ step[o] = 0) \/ (i = step[o] /\ Kind(o) \in {"discover", "prepare"})
            BY <3>1, <3>2
        <3>5. phase[o] \notin Over
            BY <3>1 DEF Over
        <3> QED BY <1>1, <3>1, <3>2, <3>3, <3>4, <3>5, NextUnread
    <2> QED BY <1>1, <2>1, <2>2, OthersUnread
<1>6. ASSUME NEW o \in Operations, Ask(o) \/ NotAdmitted(o) \/ Admit(o) \/ Finish(o)
      PROVE  \A p \in Streams : Unread(p)'
    <2>1. OnlyOf(o)
        BY <1>1, <1>6 DEF Ask, NotAdmitted, Admit, Finish, netVars, OnlyOf, Typed
    <2>2. ASSUME o \in Streams, Finish(o)
          PROVE  Unread(o)'
        <3>1. phase'[o] = "ended" /\ opened' = opened /\ Unread(o)
            BY <1>1, <1>3, <2>2 DEF Finish, netVars
        <3> QED BY <3>1 DEF Unread, Over
    <2>3. ASSUME o \in Streams, Ask(o) \/ NotAdmitted(o)
          PROVE  Unread(o)'
        BY <1>1, <1>3, <2>3, MovesUnread DEF Ask, NotAdmitted, netVars, Before, Over
    <2>4. ASSUME o \in Streams, Admit(o)
          PROVE  Unread(o)'
        <3>1. \A v : verdict' = [verdict EXCEPT ![o] = v] => verdict'[o] = v
            BY <1>1 DEF Typed
        <3> QED BY <1>1, <1>3, <2>4, <3>1, MovesUnread DEF Admit, netVars, Before, Over
    <2> QED BY <1>1, <1>6, <2>1, <2>2, <2>3, <2>4, OthersUnread
<1>7. ASSUME NEW o \in Operations, Dispatch(o) \/ NotDispatched(o)
      PROVE  \A p \in Streams : Unread(p)'
    <2>1. opened' = opened \/ (CarriesStream(o) /\ opened' = [opened EXCEPT ![o] = @ + 1])
        BY <1>7 DEF Dispatch, NotDispatched, Open
    <2>2. OnlyOf(o)
        BY <1>1, <1>7, <2>1 DEF Dispatch, NotDispatched, OnlyOf, Typed
    <2>3. o \in Streams => Unread(o)'
        <3> SUFFICES ASSUME o \in Streams
                     PROVE  Unread(o)'
            OBVIOUS
        <3>1. \A v : verdict' = [verdict EXCEPT ![o] = v] => verdict'[o] = v
            BY <1>1 DEF Typed
        <3>2. opened'[o] = opened[o] \/ (CarriesStream(o) /\ opened'[o] = opened[o] + 1)
            BY <1>1, <2>1
        <3>3. phase[o] = "admitted" /\ step' = step /\ inline' = inline
            BY <1>7 DEF Dispatch, NotDispatched
        <3>4. \/ phase'[o] = "sending"
              \/ phase'[o] = "closing" /\ verdict'[o] = "failed"
            BY <1>3, <1>7, <3>1 DEF Dispatch, NotDispatched
        <3> QED BY <3>2, <3>3, <3>4, OpensUnread
    <2> QED BY <1>1, <2>2, <2>3, OthersUnread
<1>8. ASSUME NEW o \in Operations,
             \/ Break(o) \/ ReceiveLimit(o) \/ ReceiveAnswer(o) \/ ReadLimitFailure(o)
             \/ ReadLimit(o) \/ ReadAnswer(o)
      PROVE  \A p \in Streams : Unread(p)'
    <2>1. UNCHANGED <<step, opened, inline>>
        BY <1>8 DEF Break, ReceiveLimit, ReceiveAnswer, ReadLimitFailure, ReadLimit, ReadAnswer, netVars
    <2>2. verdict' = verdict \/ \E v : verdict' = [verdict EXCEPT ![o] = v]
        BY <1>8, Zenon DEF Break, ReceiveLimit, ReceiveAnswer, ReadLimitFailure, ReadLimit, ReadAnswer
    <2>3. phase[o] \in {"sending", "reading"} /\ (phase' = [phase EXCEPT ![o] = "reading"]
                                                 \/ phase' = [phase EXCEPT ![o] = "closing"])
        BY <1>8 DEF Break, ReceiveLimit, ReceiveAnswer, ReadLimitFailure, ReadLimit, ReadAnswer
    <2>4. OnlyOf(o)
        BY <1>1, <2>1, <2>2, <2>3 DEF OnlyOf, Typed
    <2>5. phase'[o] = "closing" => /\ verdict'[o] = "disabled" => Kind(o) = "prepare"
                                   /\ verdict'[o] = "limited" => Kind(o) # "upload"
        <3>1. \A v : verdict' = [verdict EXCEPT ![o] = v] => verdict'[o] = v
            BY <1>1 DEF Typed
        <3>2. CASE ReceiveLimit(o) \/ ReceiveAnswer(o)
            BY <1>3, <3>2 DEF ReceiveLimit, ReceiveAnswer
        <3>3. CASE Break(o) \/ ReadLimitFailure(o) \/ ReadLimit(o)
            BY <3>1, <3>3 DEF Break, ReadLimitFailure, ReadLimit
        <3>4. CASE ReadAnswer(o)
            <4>1. PICK v \in Verdicts(o) : verdict' = [verdict EXCEPT ![o] = v]
                BY <3>4 DEF ReadAnswer
            <4>2. v # "limited" /\ (v = "disabled" => Kind(o) = "prepare")
                BY <4>1, <3>4 DEF Verdicts, ReadAnswer, Answers
            <4> QED BY <3>1, <4>1, <4>2
        <3> QED BY <1>8, <3>2, <3>3, <3>4
    <2>6. o \in Streams => Unread(o)'
        BY <1>1, <1>3, <2>1, <2>3, <2>5, MovesUnread DEF Before, Over
    <2> QED BY <1>1, <2>4, <2>6, OthersUnread
<1>9. ASSUME NEW o \in Operations, Release(o)
      PROVE  \A p \in Streams : Unread(p)'
    <2>1. OnlyOf(o)
        BY <1>1, <1>9, ZenonT(40) DEF OnlyOf, Typed, Release, netVars, Succeed, SendInline, RepeatRead, WaitOut, GiveUp,
            GoTo, Again, Fail
    <2> QED BY <1>1, <1>9, <2>1, ReleaseUnread, OthersUnread
<1>10. ASSUME Stop
       PROVE  \A p \in Streams : Unread(p)'
    <2>1. UNCHANGED <<step, opened, inline, verdict>>
        BY <1>10 DEF Stop, netVars
    <2>2. \A p \in Operations : phase'[p] = phase[p] \/ (phase[p] = "waiting" /\ phase'[p] = "cleaning")
        BY <1>10 DEF Stop, FailWaiting
    <2> SUFFICES ASSUME NEW p \in Streams
                 PROVE  Unread(p)'
        OBVIOUS
    <2>3. CASE phase'[p] = phase[p]
        BY <1>1, <2>1, <2>3, UnreadKept
    <2>4. CASE phase'[p] # phase[p]
        BY <1>1, <2>1, <2>2, <2>4, MovesUnread DEF Before, Over
    <2> QED BY <2>3, <2>4
<1>11. ASSUME NEW o \in Operations, Interrupt(o)
       PROVE  \A p \in Streams : Unread(p)'
    BY <1>2, <1>11 DEF Interrupt, opVars, netVars
<1>12. ASSUME NEW c \in wire, Serve(c) \/ Lose(c)
       PROVE  \A p \in Streams : Unread(p)'
    BY <1>2, <1>12 DEF Serve, Lose, opVars
<1>13. ASSUME ShutdownReturns \/ Tick \/ UNCHANGED vars
       PROVE  \A p \in Streams : Unread(p)'
    BY <1>2, <1>13 DEF ShutdownReturns, Tick, vars, opVars, netVars
<1> QED BY <1>4, <1>5, <1>6, <1>7, <1>8, <1>9, <1>10, <1>11, <1>12, <1>13 DEF Next

\* A body that can be read only once is opened at most once, also when its request is rate limited, is
\* interrupted before it leaves or falls back from a presigned upload to sending its files inline
\* (RestExchange.StreamReadOnce).
THEOREM StreamsAreReadOnce == Spec => []StreamReadOnce
<1>1. StreamInv => StreamReadOnce
    BY DEF StreamInv, Unread, StreamReadOnce
<1>2. BudgetInv => Typed /\ RestTyped
    BY DEF BudgetInv, SlotsInv, ExchangeInv
<1>3. BudgetInv /\ StreamInv /\ [Next]_vars => BudgetInv' /\ StreamInv'
    <2>1. BudgetInv' => Typed' /\ RestTyped'
        BY DEF BudgetInv, SlotsInv, ExchangeInv
    <2> QED BY <1>2, <2>1, BudgetStep, StreamStep
<1> QED BY <1>1, <1>3, BudgetInit, StreamInit, PTL DEF Spec

=============================================================================
