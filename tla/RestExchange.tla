---------------------------- MODULE RestExchange ----------------------------
(***************************************************************************)
(* REST operations of one client (rest/owner.ts, rest/attempt.ts and       *)
(* rest/classify.ts of projects/sdk/src/internal), composed with the       *)
(* admission they pass, which is AdmissionGate here.                       *)
(*                                                                         *)
(* An operation runs the steps of its plan in order: discovery of the      *)
(* instance if nobody did it yet, preparations (opening a conversation,    *)
(* planning uploads), signed uploads, and the request itself.  Each step   *)
(* is an exchange of one or more attempts, and each attempt is a call of   *)
(* the gate.  The network may delay a request past the end of the          *)
(* operation that sent it, and lose it or its answer.                      *)
(***************************************************************************)
EXTENDS Integers, Sequences, FiniteSets, FiniteSetsExt

CONSTANTS
    Operations, Nobody,
    Plan,               \* operation -> its steps: "prepare", "upload" and, last, "send"
    Reads,              \* operations whose transient failures may be sent again (retriesAsRead)
    Streams,            \* operations with a body that can be read only once
    Inline,             \* operations that send their files in the request itself
    UploadSize,         \* operation -> bytes of its files
    UploadMaxBytes,
    Timeout,            \* operation -> timeoutMs
    ApiSlots,
    MaxReadRetries,     \* maximumReadRetries
    RetryDelays,        \* waits before a read is sent again
    Asked,              \* waits a 429 may ask for
    \* bounds of the exploration
    MaxAttempts,        \* attempts of one exchange
    Horizon             \* last instant of logical time

Discovery == 0          \* the step before the plan
Steps(o) == 0..Len(Plan[o])
Calls == UNION {{o} \X Steps(o) \X (1..MaxAttempts) : o \in Operations}
KindOf(o, i) == IF i = Discovery THEN "discover" ELSE Plan[o][i]

ASSUME PlanAssumption ==
    /\ Nobody \notin Calls
    /\ Plan \in [Operations -> Seq({"prepare", "upload", "send"}) \ {<<>>}]
    /\ \A o \in Operations : \A i \in 1..Len(Plan[o]) : Plan[o][i] = "send" <=> i = Len(Plan[o])
    \* the parts of an upload read disjoint ranges once each: one step stands for them
    /\ \A o \in Operations : \A i, j \in 1..Len(Plan[o]) :
         Plan[o][i] = "upload" /\ Plan[o][j] = "upload" => i = j
    /\ Reads \subseteq Operations /\ Streams \subseteq Operations /\ Inline \subseteq Operations
ASSUME StreamsAssumption ==
    \* what is sent again like a read has no files (encodeBody; post data is read with a POST)
    /\ Reads \cap Streams = {}
    \* an upload is planned before its parts are sent, and files that go inline are not uploaded
    /\ \A o \in Operations : \A i, j \in 1..Len(Plan[o]) :
         Plan[o][i] = "upload" /\ Plan[o][j] = "prepare" => j < i
    /\ \A o \in Inline : \A i \in 1..Len(Plan[o]) : Plan[o][i] # "upload"
ASSUME BoundsAssumption ==
    /\ UploadSize \in [Operations -> Nat] /\ UploadMaxBytes \in Nat
    /\ Timeout \in [Operations -> Nat \ {0}] /\ ApiSlots \in Nat \ {0}
    /\ MaxReadRetries \in Nat /\ RetryDelays \subseteq Nat \ {0} /\ Asked \subseteq Nat \ {0}
    /\ MaxAttempts \in Nat \ {0} /\ Horizon \in Nat

VARIABLES
    call, limit, tester, shut,  \* the gate; "shut" is also runtime.closed
    now,
    phase,          \* operation -> where its fiber is
    step, attempt,  \* its exchange and the attempt of that exchange
    retries, until, deadline,
    inline,         \* operations whose files go with the request
    outcome,        \* progress.outcome
    reply,          \* what the server answered to the attempt that is out
    verdict,        \* what the attempt came to
    stopping,       \* operations interrupted by their caller or their deadline
    succeeded,      \* operations that returned a value
    uploadBytes,    \* runtime.uploadBytes
    instance,       \* runtime.instance is resolved
    finished,       \* shutdown has returned
    wire,           \* calls on their way to the server
    effects,        \* history: how often the server applied the operation's request
    opened          \* history: how often the operation's body was opened for sending

gateVars == <<call, limit, tester, shut>>
opVars == <<phase, step, attempt, retries, until, deadline, inline, outcome, reply, verdict>>
endVars == <<stopping, succeeded, uploadBytes, instance, finished>>
netVars == <<wire, effects, opened>>
vars == <<gateVars, now, opVars, endVars, netVars>>

Gate == INSTANCE AdmissionGate WITH
    Requests <- Calls,
    RateLimited <- {c \in Calls : c[2] # Discovery},
    MayProbe <- {c \in Calls : KindOf(c[1], c[2]) # "upload"},
    Media <- {}, MediaSlots <- 0

Current(o) == <<o, step[o], attempt[o]>>
Kind(o) == KindOf(o, step[o])
Sends(o) == Kind(o) = "send"
CarriesStream(o) == o \in Streams /\ (Kind(o) = "upload" \/ (Sends(o) /\ o \in inline))

Running == {o \in Operations : phase[o] \notin {"new", "ended"}}

Init ==
    /\ Gate!Init
    /\ now = 0
    /\ phase = [o \in Operations |-> "new"]
    /\ step = [o \in Operations |-> Discovery]
    /\ attempt = [o \in Operations |-> 1]
    /\ retries = [o \in Operations |-> 0]
    /\ until = [o \in Operations |-> 0]
    /\ deadline = [o \in Operations |-> 0]
    /\ inline = Inline
    /\ outcome = [o \in Operations |-> "notDispatched"]
    /\ reply = [o \in Operations |-> "none"]
    /\ verdict = [o \in Operations |-> "none"]
    /\ stopping = {} /\ succeeded = {}
    /\ uploadBytes = 0
    /\ instance = FALSE /\ finished = FALSE
    /\ wire = {}
    /\ effects = [o \in Operations |-> 0]
    /\ opened = [o \in Operations |-> 0]

-----------------------------------------------------------------------------
(* Starting an operation *)

\* Closed, no upload bytes left, or no room in the queue.
ExecuteRefused(o) ==
    /\ phase[o] = "new"
    /\ phase' = [phase EXCEPT ![o] = "ended"]
    /\ UNCHANGED <<gateVars, now, step, attempt, retries, until, deadline, inline, outcome,
                   reply, verdict, endVars, netVars>>

\* Mutant of Fits: each operation is measured on its own.
FitsAlone(o) == UploadSize[o] <= UploadMaxBytes
Fits(o) == UploadSize[o] <= UploadMaxBytes - uploadBytes

Execute(o) ==
    /\ phase[o] = "new" /\ ~shut /\ Fits(o)
    /\ now + Timeout[o] <= Horizon
    /\ uploadBytes' = uploadBytes + UploadSize[o]
    /\ deadline' = [deadline EXCEPT ![o] = now + Timeout[o]]
    /\ step' = [step EXCEPT ![o] = IF instance THEN 1 ELSE Discovery]
    /\ phase' = [phase EXCEPT ![o] = "ready"]
    /\ UNCHANGED <<gateVars, now, attempt, retries, until, inline, outcome, reply, verdict,
                   stopping, succeeded, instance, finished, netVars>>

-----------------------------------------------------------------------------
(* Admission of an attempt *)

Ask(o) ==
    /\ phase[o] = "ready"
    /\ Gate!Wait(Current(o))
    /\ phase' = [phase EXCEPT ![o] = "waiting"]
    /\ UNCHANGED <<now, step, attempt, retries, until, deadline, inline, outcome, reply,
                   verdict, endVars, netVars>>

\* The queue is full or closed; a learned wait outlasts the deadline; the caller or the
\* deadline interrupts the wait.
NotAdmitted(o) ==
    /\ phase[o] \in {"ready", "waiting"}
    /\ Gate!Refuse(Current(o))
    /\ phase' = [phase EXCEPT ![o] = "cleaning"]
    /\ UNCHANGED <<now, step, attempt, retries, until, deadline, inline, outcome, reply,
                   verdict, endVars, netVars>>

Admit(o) ==
    /\ phase[o] = "waiting" /\ until[o] <= now
    /\ Gate!Enter(Current(o))
    /\ IF step[o] # Discovery /\ now >= deadline[o]
       THEN /\ phase' = [phase EXCEPT ![o] = "closing"]
            /\ verdict' = [verdict EXCEPT ![o] = "failed"]
       ELSE /\ phase' = [phase EXCEPT ![o] = "admitted"]
            /\ UNCHANGED verdict
    /\ UNCHANGED <<now, step, attempt, retries, until, deadline, inline, outcome, reply,
                   endVars, netVars>>

-----------------------------------------------------------------------------
(* One attempt *)

\* Mutant of Dispatched: the outcome becomes unknown only when an answer is missing.
DispatchedLate(o) == UNCHANGED outcome
Dispatched(o) == outcome' = IF Sends(o) THEN [outcome EXCEPT ![o] = "unknown"] ELSE outcome

Open(o) == opened' = IF CarriesStream(o) THEN [opened EXCEPT ![o] = @ + 1] ELSE opened

Dispatch(o) ==
    /\ phase[o] = "admitted" /\ ~shut /\ o \notin stopping
    /\ Open(o)
    /\ Dispatched(o)
    /\ wire' = wire \cup {Current(o)}
    /\ phase' = [phase EXCEPT ![o] = "sending"]
    /\ UNCHANGED <<gateVars, now, step, attempt, retries, until, deadline, inline, reply, verdict,
                   endVars, effects>>

\* The client closed, or the operation was interrupted, before the request left.
NotDispatched(o) ==
    /\ phase[o] = "admitted" /\ (shut \/ o \in stopping)
    /\ opened' \in {opened, IF CarriesStream(o) THEN [opened EXCEPT ![o] = @ + 1] ELSE opened}
    /\ phase' = [phase EXCEPT ![o] = "closing"]
    /\ verdict' = [verdict EXCEPT ![o] = "failed"]
    /\ UNCHANGED <<gateVars, now, step, attempt, retries, until, deadline, inline, outcome, reply,
                   endVars, wire, effects>>

Answers == {"done", "limited", "refused", "broken", "slotsBusy"}

\* What handling a request may have done.  The server applies nothing of one it answers with a
\* 429 or, reading its files, with busy slots; of one it refuses it may have applied a part
\* before its failure, and a 5xx leaves everything open.
EffectsOf(answer) == CASE answer = "done" -> {1}
                       [] answer \in {"limited", "slotsBusy"} -> {0}
                       [] OTHER -> {0, 1}

\* The server handles a request, whether or not somebody still waits for the answer.
Serve(c) ==
    /\ c \in wire
    /\ wire' = wire \ {c}
    /\ \E answer \in Answers :
        /\ answer = "slotsBusy" => KindOf(c[1], c[2]) = "send" /\ c[1] \in inline
        /\ reply' = IF Current(c[1]) = c /\ phase[c[1]] = "sending"
                    THEN [reply EXCEPT ![c[1]] = answer] ELSE reply
        /\ \E effect \in EffectsOf(answer) :
            effects' = IF KindOf(c[1], c[2]) = "send" THEN [effects EXCEPT ![c[1]] = @ + effect]
                                                      ELSE effects
    /\ UNCHANGED <<gateVars, now, phase, step, attempt, retries, until, deadline, inline, outcome,
                   verdict, endVars, opened>>

\* The connection breaks, or the attempt is aborted: no answer, or not all of it, arrives.
Break(o) ==
    /\ phase[o] \in {"sending", "reading"}
    /\ phase' = [phase EXCEPT ![o] = "closing"]
    /\ verdict' = [verdict EXCEPT ![o] = "lost"]
    /\ UNCHANGED <<gateVars, now, step, attempt, retries, until, deadline, inline, outcome, reply,
                   endVars, netVars>>

\* The request never reaches the server.
Lose(c) ==
    /\ c \in wire
    /\ wire' = wire \ {c}
    /\ UNCHANGED <<gateVars, now, opVars, endVars, effects, opened>>

\* admission.responded: the answer ends a recovery this attempt was testing.
Responded(o) == IF tester = Current(o) THEN Gate!PassLimit(Current(o)) ELSE UNCHANGED gateVars
\* admission.pauseClient: an unidentified limit.
PauseClient(o) ==
    IF limit = "clear" \/ tester = Current(o) THEN Gate!MeetLimit(Current(o)) ELSE UNCHANGED gateVars

\* Headers of a 429 arrive; its body decides what is paused.
ReceiveLimit(o) ==
    /\ phase[o] = "sending" /\ o \notin stopping /\ reply[o] = "limited"
    /\ phase' = [phase EXCEPT ![o] = "reading"]
    /\ UNCHANGED <<gateVars, now, step, attempt, retries, until, deadline, inline, outcome, reply,
                   verdict, endVars, netVars>>

\* Headers of any other answer arrive.
ReceiveAnswer(o) ==
    /\ phase[o] = "sending" /\ o \notin stopping
    /\ reply[o] \in Answers \ {"limited"}
    /\ IF Kind(o) = "discover" THEN UNCHANGED gateVars ELSE Responded(o)
    /\ phase' = [phase EXCEPT ![o] = "reading"]
    /\ outcome' = IF reply[o] = "refused" /\ Sends(o) THEN [outcome EXCEPT ![o] = "rejected"] ELSE outcome
    /\ UNCHANGED <<now, step, attempt, retries, until, deadline, inline, reply,
                   verdict, endVars, netVars>>

Rejected(o) == outcome' = IF Sends(o) THEN [outcome EXCEPT ![o] = "rejected"] ELSE outcome

\* A 429 without a usable wait, or from the storage an upload goes to, fails.
ReadLimitFailure(o) ==
    /\ phase[o] = "reading" /\ reply[o] = "limited"
    /\ Rejected(o)
    /\ phase' = [phase EXCEPT ![o] = "closing"]
    /\ verdict' = [verdict EXCEPT ![o] = "failed"]
    /\ UNCHANGED <<gateVars, now, step, attempt, retries, until, deadline, inline, reply,
                   endVars, netVars>>

ReadLimit(o) ==
    /\ phase[o] = "reading" /\ reply[o] = "limited" /\ Kind(o) \in {"prepare", "send"}
    /\ Rejected(o)
    /\ Responded(o) \/ PauseClient(o)
    /\ phase' = [phase EXCEPT ![o] = "closing"]
    /\ verdict' = [verdict EXCEPT ![o] = "limited"]
    /\ UNCHANGED <<now, step, attempt, retries, until, deadline, inline, reply, endVars, netVars>>

\* What an answer comes to once its body was read: a success may be undecodable, and a
\* planning step may find presigned uploads disabled.
Verdicts(o) ==
    CASE reply[o] = "done" -> {"success", "failed"}
      [] reply[o] = "refused" -> IF Kind(o) = "prepare" THEN {"failed", "disabled"} ELSE {"failed"}
      [] reply[o] = "broken" -> {"transient"}
      [] OTHER -> {"failed"}

ReadAnswer(o) ==
    /\ phase[o] = "reading" /\ reply[o] \in Answers \ {"limited"}
    /\ outcome' = IF reply[o] = "slotsBusy" THEN [outcome EXCEPT ![o] = "rejected"] ELSE outcome
    /\ phase' = [phase EXCEPT ![o] = "closing"]
    /\ \E v \in Verdicts(o) : verdict' = [verdict EXCEPT ![o] = v]
    /\ UNCHANGED <<gateVars, now, step, attempt, retries, until, deadline, inline, reply,
                   endVars, netVars>>

\* Mutant of Attempting: a body that never arrives outlasts the deadline.
AttemptingHeaders(o) == phase[o] \in {"admitted", "sending"}
Attempting(o) == phase[o] \in {"admitted", "sending", "reading", "closing"}

\* The caller or the deadline interrupts an attempt.  What its promises still do, they do
\* before its cleanup ends.
Interrupt(o) ==
    /\ Attempting(o) /\ o \notin stopping
    /\ stopping' = stopping \cup {o}
    /\ UNCHANGED <<gateVars, now, opVars, succeeded, uploadBytes, instance, finished, netVars>>

-----------------------------------------------------------------------------
(* After an attempt: its slot is released, then the exchange goes on *)

Again(o, at) ==
    /\ at < deadline[o] /\ attempt[o] < MaxAttempts
    /\ until' = [until EXCEPT ![o] = at]
    /\ attempt' = [attempt EXCEPT ![o] = @ + 1]
    /\ phase' = [phase EXCEPT ![o] = "ready"]
    /\ UNCHANGED <<step, inline, succeeded, instance>>

GoTo(o, i) ==
    /\ step' = [step EXCEPT ![o] = i]
    /\ attempt' = [attempt EXCEPT ![o] = 1]
    /\ retries' = [retries EXCEPT ![o] = 0]
    /\ until' = [until EXCEPT ![o] = 0]
    /\ phase' = [phase EXCEPT ![o] = "ready"]
    /\ UNCHANGED succeeded

Fail(o) ==
    /\ phase' = [phase EXCEPT ![o] = "cleaning"]
    /\ UNCHANGED <<step, attempt, retries, until, inline, succeeded, instance>>

Transient(o) == verdict[o] \in {"lost", "transient"}

\* Mutant of MayRepeat: a transient failure is repeated whatever the method.
RepeatAny(o) == Transient(o) /\ Sends(o) /\ retries[o] < MaxReadRetries
MayRepeat(o) == Transient(o) /\ Sends(o) /\ o \in Reads /\ retries[o] < MaxReadRetries

\* Mutant of Resendable: a body that was read is sent again.
ResendAny(o) == TRUE
Resendable(o) == ~(Sends(o) /\ o \in inline /\ o \in Streams)

Succeed(o) ==
    /\ verdict[o] = "success" /\ o \notin stopping
    /\ instance' = IF step[o] = Discovery THEN TRUE ELSE instance
    /\ IF step[o] < Len(Plan[o])
       THEN GoTo(o, step[o] + 1) /\ UNCHANGED inline
       ELSE /\ phase' = [phase EXCEPT ![o] = "cleaning"]
            /\ succeeded' = succeeded \cup {o}
            /\ UNCHANGED <<step, attempt, retries, until, inline>>

SendInline(o) ==
    /\ verdict[o] = "disabled" /\ o \notin stopping
    /\ inline' = inline \cup {o}
    /\ GoTo(o, Len(Plan[o]))
    /\ UNCHANGED instance

RepeatRead(o) ==
    /\ MayRepeat(o) /\ o \notin stopping
    /\ retries' = [retries EXCEPT ![o] = @ + 1]
    /\ \E delay \in RetryDelays : Again(o, now + delay)

WaitOut(o) ==
    /\ verdict[o] = "limited" /\ Resendable(o) /\ o \notin stopping
    /\ \E asked \in Asked : Again(o, now + asked)
    /\ UNCHANGED retries

TooLate(o, waits) == attempt[o] = MaxAttempts \/ \E wait \in waits : now + wait >= deadline[o]

\* The failure is permanent, or sending again could not start before the deadline.
GiveUp(o) ==
    /\ \/ o \in stopping \/ verdict[o] = "failed"
       \/ Transient(o) /\ (~MayRepeat(o) \/ TooLate(o, RetryDelays))
       \/ verdict[o] = "limited" /\ (~Resendable(o) \/ TooLate(o, Asked))
    /\ Fail(o)

\* Mutant of Leave: the slot of an interrupted attempt stays taken.
LeaveUnlessStopped(o) == IF o \in stopping THEN UNCHANGED gateVars ELSE Gate!Leave(Current(o))
Leave(o) == Gate!Leave(Current(o))

Release(o) ==
    /\ phase[o] = "closing"
    /\ Leave(o)
    /\ Succeed(o) \/ SendInline(o) \/ RepeatRead(o) \/ WaitOut(o) \/ GiveUp(o)
    /\ reply' = [reply EXCEPT ![o] = "none"] /\ verdict' = [verdict EXCEPT ![o] = "none"]
    /\ UNCHANGED <<now, deadline, outcome, stopping, uploadBytes, finished, netVars>>

ReturnBytes(o) == uploadBytes' = uploadBytes - UploadSize[o]

\* The sources are closed and the operation ends.
Finish(o) ==
    /\ phase[o] = "cleaning"
    /\ phase' = [phase EXCEPT ![o] = "ended"]
    /\ ReturnBytes(o)
    /\ UNCHANGED <<gateVars, now, step, attempt, retries, until, deadline, inline, outcome, reply,
                   verdict, stopping, succeeded, instance, finished, netVars>>

-----------------------------------------------------------------------------
(* Shutdown and time *)

\* Mutant of FailWaiting: closing the gate leaves the fibers in its queue suspended.
KeepWaiting == phase' = phase
FailWaiting == phase' = [o \in Operations |-> IF phase[o] = "waiting" THEN "cleaning" ELSE phase[o]]

Stop ==
    /\ Gate!Shut
    /\ instance' = FALSE
    /\ FailWaiting
    /\ UNCHANGED <<now, step, attempt, retries, until, deadline, inline, outcome, reply, verdict,
                   stopping, succeeded, uploadBytes, finished, netVars>>

\* Mutant of Idle: shutdown waits only for operations that hold a slot.
NobodyAdmitted == \A o \in Operations : phase[o] \notin {"admitted", "sending", "reading", "closing"}
Idle == Running = {}

ShutdownReturns ==
    /\ shut /\ ~finished /\ Idle
    /\ finished' = TRUE
    /\ UNCHANGED <<gateVars, now, opVars, stopping, succeeded, uploadBytes, instance, netVars>>

Tick ==
    /\ now < Horizon
    /\ now' = now + 1
    /\ UNCHANGED <<gateVars, opVars, endVars, netVars>>

Next ==
    \/ \E o \in Operations :
        \/ ExecuteRefused(o) \/ Execute(o) \/ Ask(o) \/ NotAdmitted(o) \/ Admit(o)
        \/ Dispatch(o) \/ NotDispatched(o) \/ Break(o)
        \/ ReceiveLimit(o) \/ ReceiveAnswer(o) \/ ReadLimitFailure(o) \/ ReadLimit(o) \/ ReadAnswer(o)
        \/ Interrupt(o) \/ Release(o) \/ Finish(o)
    \/ \E c \in wire : Serve(c) \/ Lose(c)
    \/ Stop \/ ShutdownReturns \/ Tick

Spec == Init /\ [][Next]_vars

\* The deadline interrupts an operation, in the queue or in an attempt; an interrupted or
\* closed attempt is aborted, and what it holds is released.  Nothing is assumed of the server.
Overdue(o) == now >= deadline[o] /\ (Interrupt(o) \/ (phase[o] = "waiting" /\ NotAdmitted(o)))
Aborted(o) == (o \in stopping \/ shut) /\ Break(o)
Fairness ==
    /\ WF_vars(Tick) /\ WF_vars(ShutdownReturns)
    /\ \A o \in Operations :
        /\ WF_vars(Ask(o) \/ (phase[o] = "ready" /\ NotAdmitted(o)))
        /\ WF_vars(Overdue(o)) /\ WF_vars(Aborted(o))
        /\ WF_vars(Dispatch(o) \/ NotDispatched(o))
        /\ WF_vars(Release(o)) /\ WF_vars(Finish(o))

FairSpec == Spec /\ Fairness

-----------------------------------------------------------------------------
Phases == {"new", "ready", "waiting", "admitted", "sending", "reading", "closing", "cleaning", "ended"}
Outcomes == {"notDispatched", "rejected", "unknown"}
CallStages == {"new", "waiting", "entered", "left", "refused"}

\* Every variable has its type.
TypeOK ==
    /\ call \in [Calls -> CallStages] /\ limit \in {"clear", "held", "testing"}
    /\ tester \in Calls \cup {Nobody} /\ shut \in BOOLEAN
    /\ now \in Nat
    /\ phase \in [Operations -> Phases]
    /\ step \in [Operations -> Nat] /\ \A o \in Operations : step[o] \in Steps(o)
    /\ attempt \in [Operations -> 1..MaxAttempts]
    /\ retries \in [Operations -> 0..MaxReadRetries]
    /\ until \in [Operations -> Nat] /\ deadline \in [Operations -> Nat]
    /\ inline \subseteq Operations
    /\ outcome \in [Operations -> Outcomes]
    /\ reply \in [Operations -> Answers \cup {"none"}]
    /\ verdict \in [Operations -> {"none", "success", "failed", "disabled", "limited", "lost", "transient"}]
    /\ stopping \subseteq Operations /\ succeeded \subseteq Operations
    /\ uploadBytes \in Nat
    /\ instance \in BOOLEAN /\ finished \in BOOLEAN
    /\ wire \subseteq Calls
    /\ effects \in [Operations -> Nat] /\ opened \in [Operations -> Nat]

OnWire(o) == {c \in wire : c[1] = o /\ KindOf(o, c[2]) = "send"}

\* A request that changes something takes effect at most once, however its answers are
\* lost, its attempts repeated or its operation interrupted while the request travels.
AtMostOnce == \A o \in Operations \ Reads : effects[o] + Cardinality(OnWire(o)) <= 1

\* The outcome an operation ends with is true of all its attempts together: success means that
\* the request took effect, "notDispatched" that it did not and cannot, and "rejected" that no
\* copy of it is under way any more, so that what the refusal left is final.  And when the
\* answer allows the request to be sent again (a 429, busy upload slots), no earlier attempt
\* took effect or still can: sending it again does not duplicate the write.
OutcomeTrue ==
    \A o \in Operations \ Reads :
        /\ phase[o] \in {"cleaning", "ended"} =>
            /\ o \in succeeded => effects[o] = 1
            /\ o \notin succeeded /\ outcome[o] = "notDispatched" => effects[o] = 0
            /\ o \notin succeeded /\ outcome[o] # "unknown" => OnWire(o) = {}
        /\ phase[o] = "closing" /\ Sends(o) /\ reply[o] \in {"limited", "slotsBusy"} =>
            effects[o] = 0 /\ OnWire(o) = {}

\* A body that can be read only once is opened at most once, also when the request is rate
\* limited or falls back from a presigned upload to sending its files inline.
StreamReadOnce == \A o \in Streams : opened[o] <= 1

Holding == {o \in Operations : phase[o] \in {"admitted", "sending", "reading", "closing"}}

\* The slots and the queue places of the gate belong to the running attempts, one each: no
\* retry, interruption or closure leaks one.
SlotsOwned ==
    /\ Gate!Entered = {Current(o) : o \in Holding}
    /\ {c \in Calls : call[c] = "waiting"} = {Current(o) : o \in {p \in Operations : phase[p] = "waiting"}}

\* The upload budget is what the running operations reserved, and never exceeded, in a state that
\* keeps its types.
UploadsBounded ==
    /\ TypeOK
    /\ uploadBytes = MapThenSumSet(LAMBDA o : UploadSize[o], Running)
    /\ uploadBytes <= UploadMaxBytes

\* When shutdown returns, no operation runs, nothing is held, and nothing can start again.
ShutdownComplete ==
    finished => Running = {} /\ uploadBytes = 0 /\ shut
                /\ \A c \in Calls : call[c] \notin {"waiting", "entered"}

\* Every operation ends, whatever the server does.
EveryOperationEnds == \A o \in Operations : phase[o] = "ready" ~> phase[o] = "ended"

\* A started shutdown returns.
ShutdownEnds == shut ~> finished

=============================================================================
