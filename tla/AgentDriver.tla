---------------------------- MODULE AgentDriver ----------------------------
(***************************************************************************)
(* The turn driver of one agent: ReactLoopAgent (agent-loop/src/agent.ts)  *)
(* with its durable inbox (agent-loop/src/inbox.ts).                       *)
(*                                                                         *)
(* The driver is one JavaScript activity.  It gives way at every await     *)
(* (hooks, model stream, tool batch), and also inside every append and     *)
(* every emitted event, because observers run synchronously and may call   *)
(* the agent back.  Each action below is one uninterrupted run from one    *)
(* such point to the next.  An observer that runs inside an append may     *)
(* not append itself, so there it can abort but not touch the inbox.       *)
(*                                                                         *)
(* A caller's operation that is itself interrupted by an observer (send    *)
(* between its insertion and its wake, cancel between its two splices,     *)
(* kick between the idle notification and the latched wake) waits on       *)
(* "stack", the JavaScript call stack: only its top frame may go on.       *)
(***************************************************************************)
EXTENDS Integers, Sequences, FiniteSets

CONSTANTS
    Message,      \* identified user messages; an identity is sent once
    MaxCalls,     \* most tool calls of one assistant message
    MaxStep,      \* the model asks for tools only in steps before this one
    MaxAttempt,   \* most attempts at one step's request
    MaxDepth,     \* most nested synchronous calls
    Vetoable      \* boundary events a pre-commit observer may reject

ASSUME MessageAssumption == IsFiniteSet(Message)
ASSUME BoundAssumption ==
    /\ MaxCalls \in Nat /\ MaxStep \in Nat
    /\ MaxAttempt \in Nat /\ MaxDepth \in Nat
ASSUME VetoAssumption ==
    Vetoable \subseteq {"turn/start", "step/start", "step/end", "turn/end"}

None == "none"
Target == {"next-turn", "next-step"}

(* AgentCancelCause.  "parent" and "hook" are treated as "user": the driver
   only tells "disposed" apart. *)
Cause == {"user", "disposed"}

VARIABLES
    inbox,          \* [Target -> sequence of pending messages]
    phase,          \* "idle", "maintenance" or "running"
    abort,          \* first cause the activity was aborted with, or None
    wakeRequested,  \* a wake is latched behind the activity
    turn,           \* phase.turn, or phase.lastTurn when not running
    step,           \* phase.step
    pc,             \* where the driver waits
    batch,          \* claimed messages the log does not show yet
    ending,         \* turnEnds of turn()
    thrown,         \* an exception is on its way out of the step or the turn
    halt,           \* turn() returns false without looking at the inbox
    toolSet,        \* the step's tool admission is held
    attempt,        \* request attempts of this step
    stack,          \* interrupted synchronous calls, innermost first
    logTurn, turnOpen, logStep, stepOpen, asked, called, answered,
                    \* the session log, as TurnLog describes it
    disposing,      \* teardown called cancel(disposed)
    sent,           \* messages any caller ever sent
    prompts,        \* those among them queued for a turn of their own
    waking,         \* those sent with a wake, but for wakes a driver at
                    \* its end (retire) neither takes nor latches
    promoted,       \* those among them promoted to steering, at most once each
    admitted,       \* [Message -> turn that logged it as user/message, or 0]
    discarded,      \* messages removed from the inbox by a caller
    dropped,        \* messages a turn claimed and never admitted
    doomed          \* messages a cancellation was to keep from running

Log == INSTANCE TurnLog

logVars == <<logTurn, turnOpen, logStep, stepOpen, asked, called, answered>>
phaseVars == <<phase, abort, wakeRequested, turn, step>>
localVars == <<pc, batch, ending, thrown, halt, toolSet, attempt>>
histVars == <<disposing, sent, prompts, waking, promoted, admitted, discarded, dropped, doomed>>
vars == <<inbox, phaseVars, localVars, logVars, stack, histVars>>

Elems(q) == {q[i] : i \in DOMAIN q}
Pending == Elems(inbox["next-turn"]) \cup Elems(inbox["next-step"])
HasPending == inbox["next-turn"] # <<>> \/ inbox["next-step"] # <<>>

(* Frames of the call stack. *)
Frame == [op: {"kick"}]                                  \* the driver's first synchronous run
    \cup [op: {"wake"}, late: BOOLEAN]                   \* send, after its splice
    \cup [op: {"steer"}, prompt: Message]                \* a promoted prompt, removed
    \cup [op: {"clear", "abort"}, cause: Cause]          \* cancel, between and after its splices
    \cup [op: {"replay"}, latched: BOOLEAN]              \* kick, after setPhase(idle)
Kick == [op |-> "kick"]
Top(op) == stack # <<>> /\ Head(stack).op = op

PC == {"off", "reserved", "opened", "claimTurn", "intake", "prepare", "admission",
       "replying", "requesting", "admitting", "built", "streaming", "requestError",
       "tools", "recover", "closeStep", "stepClosed", "stopping", "turnClosed", "retire"}

Ending == {None, "completed", "max-tokens", "blocked", "aborted", "error"}

Init ==
    /\ \E parked \in {<<>>} \cup {<<m>> : m \in Message} :
          \* a resumed agent's inbox may hold parked input
          /\ inbox = [t \in Target |-> IF t = "next-turn" THEN parked ELSE <<>>]
          /\ sent = Elems(parked) /\ prompts = Elems(parked)
    /\ phase = "idle" /\ abort = None /\ wakeRequested = FALSE
    /\ turn = 0 /\ step = 0
    /\ pc = "off" /\ batch = <<>>
    /\ ending = None /\ thrown = FALSE /\ halt = FALSE
    /\ toolSet = FALSE /\ attempt = 0
    /\ stack = <<>>
    /\ Log!Init
    /\ disposing = FALSE
    /\ waking = {} /\ promoted = {} /\ admitted = [m \in Message |-> 0]
    /\ discarded = {} /\ dropped = {} /\ doomed = {}

----------------------------------------------------------------------------
(* Callers.  An operation may start whenever the driver gives way, so in   *)
(* every state whose call stack has room.                                  *)

CallerMay == Len(stack) < MaxDepth /\ ~(disposing /\ phase = "idle")

(* The driver is inside one of its own appends: only session observers run,
   and an operation that appends an inbox splice throws before it changes
   anything (Session.publicationEntry). *)
Appending ==
    \/ pc \in {"opened", "claimTurn", "replying", "admitting", "built", "stepClosed", "turnClosed"}
    \/ pc = "closeStep" /\ (thrown \/ ~toolSet)
MaySplice == CallerMay /\ ~Appending
Push(f) == stack' = <<f>> \o stack

(* send: splice into the inbox; the wake follows once the splice's observers
   return.  Waking input cannot join an aborted activity.  rest is the call
   stack below send. *)
Queue(m, target, wakeup, rest) ==
    LET wakingAfterAbort == wakeup /\ phase # "idle" /\ abort # None
        resolved == IF wakingAfterAbort THEN "next-turn" ELSE target
    IN  /\ inbox' = [inbox EXCEPT ![resolved] = Append(@, m)]
        /\ prompts' = IF resolved = "next-turn" THEN prompts \cup {m} ELSE prompts \ {m}
        /\ waking' = IF wakeup /\ pc # "retire" THEN waking \cup {m} ELSE waking
        /\ stack' = IF wakeup THEN <<[op |-> "wake", late |-> wakingAfterAbort]>> \o rest
                              ELSE rest

Send(m, target, wakeup) ==
    /\ MaySplice
    /\ m \notin sent
    /\ Queue(m, target, wakeup, stack)
    /\ sent' = sent \cup {m}
    /\ UNCHANGED <<phaseVars, localVars, logVars, disposing, promoted, admitted, discarded, dropped, doomed>>

(* Withdraw one pending message, located by its identity and spliced out at
   that index. *)
Splice(target, i) ==
    /\ inbox' = [inbox EXCEPT ![target] = SubSeq(@, 1, i - 1) \o SubSeq(@, i + 1, Len(@))]
    /\ discarded' = discarded \cup {inbox[target][i]}
    /\ UNCHANGED <<phaseVars, localVars, logVars, disposing, sent, prompts, waking,
                   admitted, dropped, doomed>>

(* Inbox.remove.  (Inbox.replace keeps the place and the identity.) *)
Remove(target, i) == MaySplice /\ Splice(target, i) /\ UNCHANGED <<stack, promoted>>

(* The session API's "steer" action on a queued prompt: remove it and, after
   the observers of the removal, send it again as steering. *)
Promote(i) ==
    /\ MaySplice /\ phase = "running"
    /\ inbox["next-turn"][i] \notin promoted
    /\ Splice("next-turn", i)
    /\ promoted' = promoted \cup {inbox["next-turn"][i]}
    /\ Push([op |-> "steer", prompt |-> inbox["next-turn"][i]])

Steer ==
    /\ Top("steer")
    /\ LET m == Head(stack).prompt IN
          /\ Queue(m, "next-step", TRUE, Tail(stack))
          /\ discarded' = discarded \ {m}
          /\ doomed' = doomed \ {m}
    /\ UNCHANGED <<phaseVars, localVars, logVars, disposing, sent, promoted, admitted, dropped>>

(* Reserve the running phase; the driver's first synchronous run starts on
   the call stack rest. *)
StartDriver(rest) ==
    /\ phase' = "running" /\ abort' = None /\ wakeRequested' = FALSE
    /\ step' = 0 /\ pc' = "reserved"
    /\ thrown' = FALSE /\ halt' = FALSE
    /\ stack' = <<Kick>> \o rest
    /\ UNCHANGED <<turn, batch, ending, toolSet, attempt>>

(* Mutant: a live driver latches too. *)
LatchAnyWake(wakeAfterAbort) ==
    /\ wakeRequested' = TRUE
    /\ UNCHANGED <<phase, abort, turn, step, localVars>>

(* Latch a wake that maintenance or an aborted driver cannot deliver. *)
LatchWake(wakeAfterAbort) ==
    /\ IF abort # "disposed" /\ (phase = "maintenance" \/ wakeAfterAbort)
       THEN wakeRequested' = TRUE
       ELSE UNCHANGED wakeRequested
    /\ UNCHANGED <<phase, abort, turn, step, localVars>>

(* wakeDriver(wakeAfterAbort); rest is the call stack below the caller. *)
WakeDriver(wakeAfterAbort, rest) ==
    \/ phase = "idle" /\ StartDriver(rest)
    \/ phase # "idle" /\ LatchWake(wakeAfterAbort) /\ stack' = rest

Wake ==
    /\ Top("wake")
    /\ WakeDriver(Head(stack).late, Tail(stack))
    /\ UNCHANGED <<inbox, logVars, histVars>>

(* The last part of cancel: forget the latch unless the inbox is kept, and
   abort the activity; the first cause wins. *)
Abort(cause, keepInbox) ==
    /\ wakeRequested' = (wakeRequested /\ (keepInbox \/ phase = "idle"))
    /\ abort' = IF phase # "idle" /\ abort = None THEN cause ELSE abort
    /\ UNCHANGED <<phase, turn, step, localVars, logVars>>

(* One splice of Inbox.clear. *)
ClearQueue(target) ==
    /\ inbox' = [inbox EXCEPT ![target] = <<>>]
    /\ discarded' = discarded \cup Elems(inbox[target])

(* Where a claimed batch is being logged, message by message.  The signal is
   not read on the way, so a batch that got here is past cancelling: a cancel
   from an observer of these appends ends the turn behind its last message. *)
Admitting == {"replying", "admitting"}

(* What the cancellation is to keep from running: the input it clears and
   the batch that is claimed and whose admission has not begun. *)
Doom(keepInbox) ==
    doomed' = doomed
        \cup (IF keepInbox THEN {} ELSE Pending)
        \cup (IF phase = "running" /\ pc \notin Admitting THEN Elems(batch) ELSE {})

(* cancel(cause, { keepInbox }): next-step is cleared first, then next-turn,
   then the activity is aborted. *)
Cancel(cause, keepInbox) ==
    /\ CallerMay /\ (keepInbox \/ ~HasPending \/ ~Appending)
    /\ Doom(keepInbox)
    /\ CASE keepInbox \/ ~HasPending ->
              Abort(cause, keepInbox) /\ UNCHANGED <<inbox, discarded, stack>>
         [] ~keepInbox /\ inbox["next-step"] # <<>> ->
              /\ ClearQueue("next-step") /\ Push([op |-> "clear", cause |-> cause])
              /\ UNCHANGED <<phaseVars, localVars, logVars>>
         [] ~keepInbox /\ inbox["next-step"] = <<>> /\ inbox["next-turn"] # <<>> ->
              /\ ClearQueue("next-turn") /\ Push([op |-> "abort", cause |-> cause])
              /\ UNCHANGED <<phaseVars, localVars, logVars>>
    /\ UNCHANGED <<sent, prompts, waking, promoted, admitted, dropped>>

UserCancel(keepInbox) == Cancel("user", keepInbox) /\ UNCHANGED disposing

(* Teardown cancels with cause "disposed"; an agent whose initialization has
   not finished (still in maintenance) keeps its inbox. *)
Dispose(keepInbox) ==
    /\ ~disposing
    /\ keepInbox => phase = "maintenance"
    /\ Cancel("disposed", keepInbox)
    /\ disposing' = TRUE

(* cancel goes on after the observers of the next-step splice. *)
ClearTurn ==
    /\ Top("clear")
    /\ LET cause == Head(stack).cause IN
       IF inbox["next-turn"] = <<>>
       THEN /\ Abort(cause, FALSE)
            /\ stack' = Tail(stack)
            /\ UNCHANGED <<inbox, discarded>>
       ELSE /\ ClearQueue("next-turn")
            /\ stack' = <<[op |-> "abort", cause |-> cause]>> \o Tail(stack)
            /\ UNCHANGED <<phaseVars, localVars, logVars>>
    /\ UNCHANGED <<disposing, sent, prompts, waking, promoted, admitted, dropped, doomed>>

(* cancel goes on after the observers of the next-turn splice. *)
FinishCancel ==
    /\ Top("abort")
    /\ Abort(Head(stack).cause, FALSE)
    /\ stack' = Tail(stack)
    /\ UNCHANGED <<inbox, histVars>>

(* runMaintenance: claims the idle phase; input waits until the job settles. *)
StartMaintenance ==
    /\ CallerMay
    /\ phase = "idle"
    /\ phase' = "maintenance"
    /\ UNCHANGED <<inbox, abort, wakeRequested, turn, step, localVars, logVars, stack, histVars>>

(* The job settles: back to idle, then the latched wake is replayed.  The
   status does not change, so no observer runs in between. *)
EndMaintenance ==
    /\ phase = "maintenance" /\ stack = <<>>
    /\ IF abort # "disposed" /\ wakeRequested /\ HasPending
       THEN StartDriver(stack)
       ELSE /\ phase' = "idle" /\ abort' = None /\ wakeRequested' = FALSE
            /\ UNCHANGED <<turn, step, localVars, stack>>
    /\ UNCHANGED <<inbox, logVars, disposing, sent, prompts, waking, promoted, admitted, discarded, dropped, doomed>>

Caller ==
    \/ \E m \in Message, target \in Target, wakeup \in BOOLEAN : Send(m, target, wakeup)
    \/ \E target \in Target : \E i \in DOMAIN inbox[target] : Remove(target, i)
    \/ \E i \in DOMAIN inbox["next-turn"] : Promote(i)
    \/ \E keepInbox \in BOOLEAN : UserCancel(keepInbox) \/ Dispose(keepInbox)
    \/ StartMaintenance

----------------------------------------------------------------------------
(* The driver.  Up to its first await it runs inside the caller that woke  *)
(* it (frame "kick"); afterwards it resumes from an empty call stack.      *)

At(p) == pc = p /\ (stack = <<>> \/ Top("kick"))
Leave == stack' = IF Top("kick") THEN Tail(stack) ELSE stack   \* first await reached
Stay == UNCHANGED stack

UnchangedPhase == UNCHANGED <<phase, abort, wakeRequested, turn>>
NoFate == UNCHANGED <<disposing, sent, prompts, waking, promoted, admitted, discarded, dropped, doomed>>

(* Leave the turn: release what is held and append turn/end, which a
   pre-commit observer may reject. *)
CloseTurn(reason, throws, stops) ==
    /\ ending' = reason /\ halt' = stops /\ pc' = "turnClosed"
    /\ toolSet' = FALSE /\ attempt' = 0
    /\ batch' = <<>> /\ dropped' = dropped \cup Elems(batch)
    /\ \/ /\ thrown' = throws
          /\ turnOpen' = FALSE /\ logStep' = 0
          /\ UNCHANGED <<logTurn, stepOpen, asked, called, answered>>
       \/ /\ "turn/end" \in Vetoable
          /\ thrown' = TRUE
          /\ UNCHANGED logVars
    /\ UNCHANGED <<disposing, sent, prompts, waking, promoted, admitted, discarded, doomed>>

(* Mutant: the turn ends with the bare cancel cause. *)
FailTurnCause == CloseTurn(abort, TRUE, FALSE)

(* An exception reaches turn(): a cause is present exactly while the signal
   is aborted. *)
FailTurn == CloseTurn(IF abort # None THEN "aborted" ELSE "error", TRUE, FALSE)

(* turn(): an aborted reservation opens no turn; turn/start may be rejected. *)
OpenTurn ==
    /\ At("reserved")
    /\ \/ /\ abort = None
          /\ logTurn' = turn + 1 /\ turnOpen' = TRUE /\ logStep' = 0 /\ stepOpen' = FALSE
          /\ asked' = 0 /\ called' = 0 /\ answered' = 0
          /\ turn' = turn + 1 /\ ending' = None
          /\ pc' = "opened" /\ Stay
          /\ UNCHANGED <<thrown, halt>>
       \/ /\ abort # None \/ "turn/start" \in Vetoable
          /\ thrown' = TRUE /\ pc' = "retire" /\ Leave
          /\ UNCHANGED <<logVars, turn, ending, halt>>
    /\ UNCHANGED <<inbox, phase, abort, wakeRequested, step, batch, toolSet, attempt>>
    /\ NoFate

(* claim(next-turn): all next-step input, then one queued prompt.  A
   non-empty next-step splice lets observers run before the second one. *)
ClaimTurn(claimed) ==
    /\ LET queue == inbox["next-turn"] IN
       IF queue = <<>> THEN batch' = claimed /\ UNCHANGED inbox
       ELSE /\ batch' = Append(claimed, Head(queue))
            /\ inbox' = [inbox EXCEPT !["next-turn"] = Tail(queue)]
    /\ pc' = "intake" /\ Leave

ClaimFirst ==
    /\ At("opened")
    /\ IF abort # None
       THEN FailTurn /\ Stay /\ UNCHANGED <<inbox, phaseVars>>
       ELSE /\ IF inbox["next-step"] = <<>>
               THEN ClaimTurn(<<>>)
               ELSE /\ batch' = inbox["next-step"]
                    /\ inbox' = [inbox EXCEPT !["next-step"] = <<>>]
                    /\ pc' = "claimTurn" /\ Stay
            /\ UNCHANGED <<phaseVars, ending, thrown, halt, toolSet, attempt, logVars>>
            /\ NoFate

ClaimPrompt ==
    /\ At("claimTurn")
    /\ ClaimTurn(batch)
    /\ UNCHANGED <<phaseVars, ending, thrown, halt, toolSet, attempt, logVars>>
    /\ NoFate

(* The next step of the same turn claims next-step input only. *)
ContinueTurn ==
    /\ batch' = inbox["next-step"]
    /\ inbox' = [inbox EXCEPT !["next-step"] = <<>>]
    /\ pc' = "intake" /\ Stay
    /\ UNCHANGED <<phaseVars, ending, thrown, halt, toolSet, attempt, logVars>>
    /\ NoFate

(* Any awaited hook may throw; a resolved one is followed by throwIfAborted. *)
HookFails(p) ==
    /\ At(p)
    /\ FailTurn /\ Stay
    /\ UNCHANGED <<inbox, phaseVars>>

(* lyteboat/intake passes the claimed input on. *)
IntakePasses ==
    /\ At("intake") /\ abort = None
    /\ pc' = "prepare"
    /\ UNCHANGED <<inbox, phaseVars, batch, ending, thrown, halt, toolSet, attempt,
                   logVars, stack>>
    /\ NoFate

(* step/start; p is where the driver goes on. *)
OpenStep(p, admission) ==
    /\ step' = step + 1 /\ logStep' = step + 1 /\ stepOpen' = TRUE
    /\ pc' = p
    /\ batch' = admission /\ dropped' = dropped \cup (Elems(batch) \ Elems(admission))
    /\ attempt' = IF p = "requesting" THEN 1 ELSE 0
    /\ UNCHANGED <<logTurn, turnOpen, asked, called, answered, ending, thrown, halt, toolSet,
                   disposing, sent, prompts, waking, promoted, admitted, discarded, doomed>>

(* A pre-commit observer rejects step/start: the turn fails without a step. *)
VetoStep == "step/start" \in Vetoable /\ FailTurn /\ UNCHANGED step

(* Mutant: no abort check after lyteboat/intake. *)
IntakeRepliesAborted ==
    /\ At("intake")
    /\ OpenStep("replying", batch) \/ VetoStep
    /\ UnchangedPhase /\ UNCHANGED <<inbox, stack>>

(* lyteboat/intake answers the claimed input without a model call. *)
IntakeReplies ==
    /\ At("intake") /\ abort = None
    /\ OpenStep("replying", batch) \/ VetoStep
    /\ UnchangedPhase /\ UNCHANGED <<inbox, stack>>

(* user/message: the head of the batch is in the log when the observers of its
   append run; the next message follows when they return. *)
Admit(p) ==
    /\ At(p) /\ batch # <<>>
    /\ admitted' = [admitted EXCEPT ![Head(batch)] = turn]
    /\ batch' = Tail(batch)
    /\ UNCHANGED <<inbox, phaseVars, pc, ending, thrown, halt, toolSet, attempt, logVars, stack,
                   disposing, sent, prompts, waking, promoted, discarded, dropped, doomed>>

(* A step's own result; max-tokens is sticky for the turn. *)
Settle(result) == ending' = IF ending = "max-tokens" THEN ending ELSE result

(* The fixed reply's assistant/message, behind the messages it answers. *)
LogReply ==
    /\ At("replying") /\ batch = <<>>
    /\ Settle("completed")
    /\ pc' = "closeStep"
    /\ UNCHANGED <<inbox, phaseVars, batch, thrown, halt, toolSet, attempt, logVars, stack>>
    /\ NoFate

(* An observer rejects one of the reply's messages: the step is closed over
   those that are logged and the turn fails. *)
ReplyFails ==
    /\ At("replying")
    /\ thrown' = TRUE /\ pc' = "closeStep"
    /\ UNCHANGED <<inbox, phaseVars, batch, ending, halt, toolSet, attempt, logVars, stack>>
    /\ NoFate

(* lyteboat/pre-assemble, the model selection and tools.resolve. *)
ResolveTools ==
    /\ At("prepare") /\ abort = None
    /\ toolSet' = TRUE /\ pc' = "admission"
    /\ UNCHANGED <<inbox, phaseVars, batch, ending, thrown, halt, attempt, logVars, stack>>
    /\ NoFate

(* agent/pre-step rejects the proposed step: the claimed input ends here and
   the turn closes as blocked. *)
RejectStep ==
    /\ At("admission") /\ abort = None
    /\ CloseTurn("blocked", FALSE, TRUE)
    /\ UNCHANGED <<inbox, phaseVars, stack>>

(* agent/pre-step admits messages: the claimed ones or a rewrite without
   them, with or without others (runtime context).  An empty admission opens
   no step, unless the model still owes an answer to its tool results. *)
EnterStep(keep, extra) ==
    /\ At("admission") /\ abort = None
    /\ LET admission == IF keep THEN batch ELSE <<>>
           empty == admission = <<>> /\ ~extra
       IN  \/ empty /\ ending # None /\ CloseTurn(ending, FALSE, FALSE) /\ UNCHANGED step
           \/ empty /\ ending = None /\ step = 0 /\ CloseTurn("completed", FALSE, TRUE) /\ UNCHANGED step
           \/ /\ ~empty \/ (ending = None /\ step > 0)
              /\ OpenStep("requesting", admission) \/ VetoStep
    /\ UnchangedPhase /\ UNCHANGED <<inbox, stack>>

(* An exception leaves step(). *)
Throw ==
    /\ thrown' = TRUE /\ pc' = "recover"
    /\ UNCHANGED <<batch, ending, halt, toolSet, attempt>>

(* agent/request, prepareCall, one of the appends up to the request, stream
   creation or agent/request-error throws, or the signal turned out aborted; so
   does a stream that breaks off.  A broken stream leaves an interrupted
   assistant/message without tool calls, or an assistant/attempt. *)
StepFails(p) ==
    /\ At(p) /\ Throw
    /\ UNCHANGED <<inbox, phaseVars, logVars, stack>>
    /\ NoFate

Advance(p, q) ==
    /\ At(p) /\ abort = None
    /\ pc' = q
    /\ UNCHANGED <<inbox, phaseVars, batch, thrown, halt, toolSet, stack>>
    /\ NoFate

(* prepareRequest resolved and the signal is read for the last time before the
   input is admitted: the rendered prompt is reconciled, as system/message
   events whose observers run before the first message is logged. *)
PrepareRequest == Advance("requesting", "admitting") /\ UNCHANGED <<ending, attempt, logVars>>

(* The batch is logged (a retry has none): request/header and request/context
   are, and only then the signal is read again. *)
BuildRequest ==
    /\ At("admitting") /\ batch = <<>>
    /\ pc' = "built"
    /\ UNCHANGED <<inbox, phaseVars, batch, ending, thrown, halt, toolSet, attempt, logVars, stack>>
    /\ NoFate

StartStream == Advance("built", "streaming") /\ UNCHANGED <<ending, attempt, logVars>>

(* The stream finished with an assistant/message without tool calls, or with
   the output ceiling, which drops them. *)
StreamAnswers(result) ==
    /\ Advance("streaming", "closeStep")
    /\ Settle(result)
    /\ UNCHANGED <<attempt, logVars>>

(* The stream finished with an assistant/message that asks for n tools. *)
StreamAsks(n) ==
    /\ step < MaxStep
    /\ Advance("streaming", "tools")
    /\ asked' = n
    /\ UNCHANGED <<ending, attempt, logTurn, turnOpen, logStep, stepOpen, called, answered>>

(* The stream finished with an error: assistant/attempt, then
   agent/request-error decides. *)
StreamErrs == Advance("streaming", "requestError") /\ UNCHANGED <<ending, attempt, logVars>>

Retry ==
    /\ attempt < MaxAttempt
    /\ Advance("requestError", "requesting")
    /\ attempt' = attempt + 1
    /\ UNCHANGED <<ending, logVars>>

(* The tool batch logs tool/call and tool/result in model order; an aborted
   batch logs both for the calls it skips. *)
StartCall ==
    /\ At("tools") /\ called < asked
    /\ called' = called + 1
    /\ UNCHANGED <<inbox, phaseVars, localVars, stack, logTurn, turnOpen, logStep, stepOpen,
                   asked, answered>>
    /\ NoFate

SettleCall ==
    /\ At("tools") /\ answered < called
    /\ answered' = answered + 1
    /\ UNCHANGED <<inbox, phaseVars, localVars, stack, logTurn, turnOpen, logStep, stepOpen,
                   asked, called>>
    /\ NoFate

(* Context a tool deferred joins next-step after the batch's results. *)
DeferContext ==
    /\ \/ UNCHANGED <<inbox, sent>>
       \/ \E m \in Message \ sent :
             /\ inbox' = [inbox EXCEPT !["next-step"] = Append(@, m)]
             /\ sent' = sent \cup {m}
    /\ UNCHANGED <<disposing, prompts, waking, promoted, admitted, discarded, dropped, doomed>>

(* Every call is answered: a concluding result ends the turn, otherwise the
   model is to see the results in a next step. *)
FinishBatch(concluded) ==
    /\ At("tools") /\ answered = asked
    /\ DeferContext
    /\ Settle(IF concluded THEN "completed" ELSE None)
    /\ pc' = "closeStep"
    /\ UNCHANGED <<phaseVars, batch, thrown, halt, toolSet, attempt, logVars, stack>>

(* ToolBatchExecutionError: the scheduler failed with calls unanswered; the
   contexts of the committed results are kept. *)
FailBatch ==
    /\ At("tools")
    /\ DeferContext
    /\ Throw
    /\ UNCHANGED <<phaseVars, logVars, stack>>

(* Mutant: a failed step leaves its calls open. *)
RecoverNothing ==
    /\ At("recover")
    /\ pc' = "closeStep"
    /\ UNCHANGED <<inbox, phaseVars, batch, ending, thrown, halt, toolSet, attempt, stack, logVars>>
    /\ NoFate

(* A failed step answers every call the log left open. *)
Recover ==
    /\ At("recover")
    /\ answered' = asked
    /\ pc' = "closeStep"
    /\ UNCHANGED <<inbox, phaseVars, batch, ending, thrown, halt, toolSet, attempt, stack,
                   logTurn, turnOpen, logStep, stepOpen, asked, called>>
    /\ NoFate

(* step/end, which a pre-commit observer may reject; then the tool admission
   is released. *)
CloseStep ==
    /\ At("closeStep")
    /\ \/ /\ stepOpen' = FALSE /\ asked' = 0 /\ called' = 0 /\ answered' = 0
          /\ UNCHANGED <<logTurn, turnOpen, logStep, thrown>>
       \/ "step/end" \in Vetoable /\ thrown' = TRUE /\ UNCHANGED logVars
    /\ toolSet' = FALSE /\ attempt' = 0
    /\ dropped' = dropped \cup Elems(batch) /\ batch' = <<>>
    /\ pc' = "stepClosed"
    /\ UNCHANGED <<inbox, phaseVars, ending, halt, stack,
                   disposing, sent, prompts, waking, promoted, admitted, discarded, doomed>>

(* After step/end: fail, go on with the next step, or let agent/turn-stopping
   listeners keep the turn open. *)
AfterStep ==
    /\ At("stepClosed")
    /\ \/ /\ thrown \/ abort # None
          /\ FailTurn /\ UNCHANGED <<inbox, phaseVars, stack>>
       \/ /\ ~thrown /\ abort = None
          /\ ending = None \/ inbox["next-step"] # <<>>
          /\ ContinueTurn
       \/ /\ ~thrown /\ ending # None /\ inbox["next-step"] = <<>>
          /\ Advance("stepClosed", "stopping")
          /\ UNCHANGED <<ending, attempt, logVars>>

(* agent/turn-stopping resolved. *)
Stopping ==
    /\ At("stopping") /\ abort = None
    /\ IF inbox["next-step"] = <<>>
       THEN CloseTurn(ending, FALSE, FALSE) /\ UNCHANGED <<inbox, phaseVars, stack>>
       ELSE ContinueTurn

(* turn() after turn/end: reserve the next turn under a fresh controller, or
   return to kick. *)
AfterTurn ==
    /\ At("turnClosed")
    /\ IF ~thrown /\ ~halt /\ HasPending
       THEN /\ abort' = None /\ wakeRequested' = FALSE /\ step' = 0
            /\ pc' = "reserved" /\ Stay
       ELSE pc' = "retire" /\ Leave /\ UNCHANGED <<abort, wakeRequested, step>>
    /\ UNCHANGED <<inbox, phase, turn, batch, ending, thrown, halt, toolSet, attempt, logVars,
                   disposing, sent, prompts, waking, promoted, admitted, discarded, dropped, doomed>>

(* Mutant: the latch is lost at convergence. *)
RetireForgets ==
    /\ pc = "retire" /\ stack = <<>>
    /\ phase' = "idle" /\ abort' = None /\ wakeRequested' = FALSE /\ step' = 0
    /\ pc' = "off" /\ thrown' = FALSE /\ halt' = FALSE /\ ending' = None
    /\ Push([op |-> "replay", latched |-> FALSE])
    /\ UNCHANGED <<inbox, turn, batch, toolSet, attempt, logVars,
                   disposing, sent, prompts, waking, promoted, admitted, discarded, dropped, doomed>>

(* kick's finally, one microtask after turn() settled: back to idle, which
   notifies status listeners before the latched wake is looked at. *)
Retire ==
    /\ pc = "retire" /\ stack = <<>>
    /\ phase' = "idle" /\ abort' = None /\ wakeRequested' = FALSE /\ step' = 0
    /\ pc' = "off" /\ thrown' = FALSE /\ halt' = FALSE /\ ending' = None
    /\ Push([op |-> "replay", latched |-> wakeRequested])
    /\ UNCHANGED <<inbox, turn, batch, toolSet, attempt, logVars,
                   disposing, sent, prompts, waking, promoted, admitted, discarded, dropped, doomed>>

Replay ==
    /\ Top("replay")
    /\ IF Head(stack).latched /\ HasPending
       THEN WakeDriver(FALSE, Tail(stack))
       ELSE stack' = Tail(stack) /\ UNCHANGED <<phaseVars, localVars>>
    /\ UNCHANGED <<inbox, logVars, histVars>>

Hook == {"intake", "prepare", "admission", "stopping"}
StepHook == {"requesting", "admitting", "built", "streaming", "requestError"}

Turn ==
    \/ OpenTurn \/ ClaimFirst \/ ClaimPrompt
    \/ IntakePasses \/ IntakeReplies \/ LogReply \/ ReplyFails \/ ResolveTools \/ RejectStep
    \/ \E keep, extra \in BOOLEAN : EnterStep(keep, extra)
    \/ \E p \in Hook : HookFails(p)
    \/ AfterStep \/ Stopping \/ AfterTurn \/ Retire

Step ==
    \/ \E p \in Admitting : Admit(p)
    \/ PrepareRequest \/ BuildRequest \/ StartStream \/ StreamErrs \/ Retry
    \/ \E result \in {"completed", "max-tokens"} : StreamAnswers(result)
    \/ \E n \in 1..MaxCalls : StreamAsks(n)
    \/ \E p \in StepHook : StepFails(p)
    \/ StartCall \/ SettleCall \/ FailBatch \/ Recover \/ CloseStep
    \/ \E concluded \in BOOLEAN : FinishBatch(concluded)

(* The rest of an interrupted synchronous call. *)
Return == Wake \/ Steer \/ ClearTurn \/ FinishCancel \/ Replay

Next == Caller \/ Turn \/ Step \/ Return \/ EndMaintenance

Spec == Init /\ [][Next]_vars

(* Hooks, model streams, tools and maintenance jobs settle eventually, and a
   synchronous call always returns; callers owe nothing. *)
Fairness ==
    /\ WF_vars(Turn \/ Step)
    /\ WF_vars(Return)
    /\ WF_vars(EndMaintenance)

FairSpec == Spec /\ Fairness

----------------------------------------------------------------------------
(* What the driver is checked for.                                         *)

PhaseType ==
    /\ phase \in {"idle", "maintenance", "running"}
    /\ abort \in Cause \cup {None} /\ wakeRequested \in BOOLEAN
    /\ turn \in Nat /\ step \in Nat

LocalType ==
    /\ pc \in PC /\ batch \in Seq(Message) /\ ending \in Ending
    /\ thrown \in BOOLEAN /\ halt \in BOOLEAN /\ toolSet \in BOOLEAN /\ attempt \in Nat

LogType ==
    /\ logTurn \in Nat /\ logStep \in Nat
    /\ turnOpen \in BOOLEAN /\ stepOpen \in BOOLEAN
    /\ asked \in Nat /\ called \in Nat /\ answered \in Nat

HistType ==
    /\ disposing \in BOOLEAN
    /\ sent \subseteq Message /\ prompts \subseteq Message /\ waking \subseteq Message
    /\ promoted \subseteq Message
    /\ admitted \in [Message -> Nat]
    /\ discarded \subseteq Message /\ dropped \subseteq Message
    /\ doomed \subseteq Message

TypeOK ==
    /\ inbox \in [Target -> Seq(Message)]
    /\ stack \in Seq(Frame)
    /\ PhaseType /\ LocalType /\ LogType /\ HistType

(* Every message a caller sent is in exactly one place: pending, claimed by
   the running turn, logged as a user/message, discarded by a caller, or
   dropped by a turn that never admitted it.  No path of turn() loses input,
   keeps it twice or shows it to the model twice. *)
Fate(m) == <<m \in Elems(inbox["next-turn"]), m \in Elems(inbox["next-step"]),
             m \in Elems(batch), admitted[m] # 0, m \in discarded, m \in dropped>>
Conservation ==
    /\ \A m \in Message :
          Cardinality({i \in 1..6 : Fate(m)[i]}) = IF m \in sent THEN 1 ELSE 0
    /\ \A q \in {inbox["next-turn"], inbox["next-step"], batch} :
          \A i, j \in DOMAIN q : q[i] = q[j] => i = j

(* followup: an item becomes the sole ordinary message of its own turn. *)
OnePromptPerTurn ==
    \A m, n \in prompts : admitted[m] = admitted[n] /\ admitted[m] # 0 => m = n

(* cancel: neither the input it cleared nor the batch that the aborted turn had
   claimed is ever logged, whatever observers do while it runs: cancelling an
   async phase commits none of the accepted messages (a cancel from inside the
   admission itself comes too late for the batch, see Admitting). *)
CancelledInputNeverRuns == \A m \in doomed : admitted[m] = 0

(* An agent that is not running left nothing behind: the log is balanced, no
   tool admission is held and no claimed message is in flight. *)
IdleIsQuiescent ==
    phase # "running" => /\ ~turnOpen /\ ~stepOpen /\ ~toolSet
                         /\ batch = <<>> /\ pc = "off" /\ ending = None

(* Where the driver waits while a turn, and while a step, is open, and where
   it may hold a step's tools or claimed messages. *)
InStep == {"replying", "requesting", "admitting", "built", "streaming", "requestError",
           "tools", "recover", "closeStep"}
InTurn == {"opened", "claimTurn", "intake", "prepare", "admission", "stepClosed", "stopping"}
          \cup InStep
HoldsTools == {"admission"} \cup InStep
HoldsBatch == {"claimTurn", "intake", "prepare", "admission", "replying", "requesting",
               "admitting", "recover", "closeStep"}

(* The inductive invariant behind IdleIsQuiescent and LogSpec, for logs whose
   closing events nobody rejects: the log's brackets and the driver's locals
   follow the place where the driver waits. *)
DriverInv ==
    /\ pc = "off" <=> phase # "running"
    /\ turnOpen <=> pc \in InTurn
    /\ stepOpen <=> pc \in InStep
    /\ toolSet => pc \in HoldsTools
    /\ batch # <<>> => pc \in HoldsBatch
    /\ pc = "off" => ending = None
    /\ pc = "reserved" => step = 0
LogInv ==
    /\ logTurn = turn
    /\ turnOpen => logStep = step
    /\ called <= asked /\ answered <= asked
    /\ pc \notin {"tools", "recover", "closeStep"} => asked = 0 /\ called = 0 /\ answered = 0
    /\ pc = "tools" => answered <= called
    /\ pc = "closeStep" => answered = asked

(* wakeDriver latches only behind maintenance or an aborted activity, and no
   latch outlives its activity: a stale one would start a turn nobody asked
   for at the next convergence. *)
LatchBehindActivity ==
    wakeRequested => phase = "maintenance" \/ (phase = "running" /\ abort # None)

(* Input goes where its caller meant it to: none is lost, kept twice or shown
   twice, a prompt has its turn for itself, and what was cancelled stays away
   from the model, whatever callers and observers do between any two awaits. *)
InputKept == Conservation /\ OnePromptPerTurn /\ CancelledInputNeverRuns

(* Whatever ended an activity - its end, a failure, an abort at any await -
   nothing of it is left: neither brackets, tools or input, nor a wake. *)
NothingLeft == IdleIsQuiescent /\ LatchBehindActivity

(* What keeps a latch behind its activity: a send waits on the call stack as
   "late" only while the aborted activity it met is still there, and an idle
   agent's driver is never started above one. *)
LateFrame(f) == f.op = "wake" /\ f.late
NoLate(q) == \A i \in DOMAIN q : ~LateFrame(q[i])
NoLateBelowKick(q) ==
    \A i, j \in DOMAIN q : q[i].op = "kick" /\ i < j => ~LateFrame(q[j])
LatchInv ==
    /\ LatchBehindActivity
    /\ phase = "idle" => abort = None
    /\ NoLate(stack) \/ (abort # None /\ phase # "idle")
    /\ NoLateBelowKick(stack)

(* turn(): once a step hit the output ceiling, no later step of the turn
   reports it as completed. *)
MaxTokensSticky ==
    [][ending = "max-tokens" /\ ending' # ending
         => ending' \in {"aborted", "error", "blocked"} \/ ~turnOpen]_vars

(* The session log the driver writes is bracketed (TurnLog), whatever callers,
   hooks, the model and the tools do. *)
LogSpec == Log!Spec

(* The log tells what happened: its events keep the grammar, and the end of a
   turn still knows of an output ceiling that an early step hit. *)
LogHonest == LogSpec /\ MaxTokensSticky

(* cancel: an aborted activity always converges. *)
CancelConverges == abort # None ~> abort = None

(* A cancel that clears the inbox has not returned yet. *)
Cancelling == \E i \in DOMAIN stack : stack[i].op \in {"clear", "abort"}

(* send: waking input submitted after an active cancellation runs when the
   aborted activity converges: a live turn opens, unless the input is
   withdrawn, another cancel clears the queue, or the agent is disposed. *)
LatchedWakeRuns ==
    wakeRequested ~>
        (phase = "running" /\ abort = None) \/ ~HasPending \/ Cancelling \/ disposing

(* whenIdle: a driver is done once callers stop. *)
DriverRetires == phase = "running" ~> phase = "idle"

(* wakeDriver: live drivers claim queued work themselves: a driver that ended
   its last turn normally leaves no waking message behind, but for one sent
   between its last look at the inbox and its return to idle (see waking). *)
LiveDriverClaims ==
    [][phase = "running" /\ phase' = "idle" /\ abort = None /\ ~thrown /\ ~halt
         => Pending \cap waking = {}]_vars

(* Nobody waits for good: an abort is followed by convergence, a latched wake
   by its turn, a wake of a live driver by a claim, and callers that stop by an
   idle driver, though observers reject closing events and call back. *)
Converges == CancelConverges /\ LatchedWakeRuns /\ DriverRetires /\ LiveDriverClaims
----------------------------------------------------------------------------
(* What makes InputKept inductive.                                         *)

(* A message is in at most one place, and in one exactly when it was sent. *)
Kept(m) ==
    /\ \A i, j \in 1..6 : Fate(m)[i] /\ Fate(m)[j] => i = j
    /\ (\E i \in 1..6 : Fate(m)[i]) <=> m \in sent
Distinct(q) == \A i, j \in DOMAIN q : q[i] = q[j] => i = j

(* Claimed messages are held where the driver may still admit or drop them, and
   none is admitted to a turn before its claim is complete. *)
Claimed ==
    /\ pc = "off" <=> phase # "running"
    /\ batch # <<>> => pc \in HoldsBatch
    /\ pc \notin {"off", "reserved", "retire", "turnClosed"} => turn > 0
    /\ \A m \in Message : admitted[m] <= turn
    /\ pc \in {"opened", "claimTurn"} => \A m \in Message : admitted[m] < turn

(* The driver's first run is over at its first await, and a promoted prompt is
   nowhere else while it waits to be sent again. *)
KickPC == {"reserved", "opened", "claimTurn", "turnClosed"}
Once(q) == \A i, j \in DOMAIN q : q[i] = q[j] /\ q[i].op \in {"kick", "steer"} => i = j
Stacked ==
    /\ \A f \in Elems(stack) :
          /\ f.op = "kick" => pc \in KickPC
          /\ f.op = "steer" => f.prompt \in discarded \cap promoted
    /\ Once(stack)

(* A prompt is claimed alone, by a turn that has admitted no other. *)
Prompted ==
    /\ prompts \subseteq sent
    /\ \A m \in prompts : m \notin Elems(inbox["next-step"])
    /\ \A m, n \in prompts : m \in Elems(batch) /\ n \in Elems(batch) => m = n
    /\ \A m \in prompts :
          m \in Elems(batch) => pc # "claimTurn" /\ \A n \in prompts : admitted[n] # turn
    /\ OnePromptPerTurn

(* Cancelled input that is not discarded yet belongs to a cancel that is still
   to clear it, or to an activity that is aborted before it awaits anything. *)
Waiting(ops) == \E f \in Elems(stack) : f.op \in ops
Spared ==
    /\ doomed \subseteq sent
    /\ CancelledInputNeverRuns
    /\ \A m \in doomed :
          /\ m \notin Elems(inbox["next-step"])
          /\ m \in Elems(inbox["next-turn"]) => Waiting({"clear"})
          /\ m \in Elems(batch) =>
                pc \notin Admitting /\ (abort # None \/ Waiting({"clear", "abort"}))

Settled ==
    /\ \A m \in Message : Kept(m)
    /\ Distinct(inbox["next-turn"]) /\ Distinct(inbox["next-step"]) /\ Distinct(batch)

InputInv == Settled /\ Claimed /\ Stacked /\ Prompted /\ Spared
============================================================================
