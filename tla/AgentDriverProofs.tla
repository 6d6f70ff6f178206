------------------------- MODULE AgentDriverProofs -------------------------
(***************************************************************************)
(* Theorems about the turn driver, for every set of messages and every     *)
(* bound: its state keeps its type; its log refines TurnLog, and its       *)
(* latches only close; and input is kept: every message a caller sent is   *)
(* in exactly one place, a prompt has its turn for itself, and cancelled   *)
(* input never runs.                                                       *)
(***************************************************************************)
EXTENDS AgentDriver, SequenceTheorems, FiniteSetTheorems, TLAPS

----------------------------------------------------------------------------
(* Sequences: what a splice of the inbox and a push on the call stack keep. *)

(* A splice of an inbox list (inbox.ts splice) leaves a list of messages. *)
LEMMA SpliceType ==
    ASSUME NEW S, NEW q \in Seq(S), NEW i \in DOMAIN q
    PROVE  SubSeq(q, 1, i - 1) \o SubSeq(q, i + 1, Len(q)) \in Seq(S)
<1>1. i \in 1..Len(q) /\ Len(q) \in Nat
  BY LenProperties
<1>2. SubSeq(q, 1, i - 1) \in Seq(S) /\ SubSeq(q, i + 1, Len(q)) \in Seq(S)
  BY <1>1
<1>3. QED
  BY <1>2, ConcatProperties

(* A non-empty sequence has a head of its kind and a tail of its kind. *)
LEMMA FrontType ==
    ASSUME NEW S, NEW q \in Seq(S), q # <<>>
    PROVE  Head(q) \in S /\ Tail(q) \in Seq(S)
  OBVIOUS

(* A frame pushed on the call stack leaves a call stack. *)
LEMMA PushType ==
    ASSUME NEW S, NEW f \in S, NEW q \in Seq(S)
    PROVE  <<f>> \o q \in Seq(S)
  OBVIOUS

(* The messages of a list are messages. *)
LEMMA ElemsType ==
    ASSUME NEW S, NEW q \in Seq(S)
    PROVE  Elems(q) \subseteq S
  BY ElementOfSeq DEF Elems

----------------------------------------------------------------------------
(* Type correctness.                                                       *)

(* A part of the state that does not move keeps its type. *)
LEMMA Unchanged ==
    /\ UNCHANGED phaseVars => (PhaseType' <=> PhaseType)
    /\ UNCHANGED localVars => (LocalType' <=> LocalType)
    /\ UNCHANGED logVars => (LogType' <=> LogType)
    /\ UNCHANGED histVars => (HistType' <=> HistType)
  BY DEF phaseVars, localVars, logVars, histVars, PhaseType, LocalType, LogType, HistType

(* A new or resumed agent is well typed. *)
LEMMA InitType == Init => TypeOK
<1> SUFFICES ASSUME Init PROVE TypeOK
  OBVIOUS
<1>1. PICK parked \in {<<>>} \cup {<<m>> : m \in Message} :
         /\ inbox = [t \in Target |-> IF t = "next-turn" THEN parked ELSE <<>>]
         /\ sent = Elems(parked) /\ prompts = Elems(parked)
  BY DEF Init
<1>2. parked \in Seq(Message)
  <2>1. CASE parked = <<>>
    BY <2>1
  <2>2. ASSUME NEW m \in Message, parked = <<m>> PROVE parked \in Seq(Message)
    BY <2>2
  <2>3. QED
    BY <1>1, <2>1, <2>2
<1>3. inbox \in [Target -> Seq(Message)] /\ sent \subseteq Message /\ prompts \subseteq Message
  BY <1>1, <1>2, ElemsType DEF Target
<1>4. stack \in Seq(Frame) /\ batch \in Seq(Message)
  BY DEF Init
<1>5. abort \in Cause \cup {None} /\ ending \in Ending /\ pc \in PC
  BY DEF Init, Ending, PC
<1>6. QED
  BY <1>3, <1>4, <1>5 DEF Init, TypeOK, PhaseType, LocalType, LogType, HistType, Log!Init

(* Starting a driver keeps the phase and the driver's locals typed. *)
LEMMA StartDriverType ==
    ASSUME TypeOK, NEW rest \in Seq(Frame), StartDriver(rest)
    PROVE  stack' \in Seq(Frame) /\ PhaseType' /\ LocalType'
<1>1. Kick \in Frame
  BY DEF Kick, Frame
<1>2. stack' \in Seq(Frame)
  BY <1>1, PushType DEF StartDriver
<1>3. PhaseType'
  BY DEF StartDriver, TypeOK, PhaseType
<1>4. LocalType'
  BY DEF StartDriver, TypeOK, LocalType, PC
<1>5. QED
  BY <1>2, <1>3, <1>4

(* wakeDriver keeps the state typed, whether it starts, latches or returns. *)
LEMMA WakeDriverType ==
    ASSUME TypeOK, NEW wakeAfterAbort \in BOOLEAN, NEW rest \in Seq(Frame),
           WakeDriver(wakeAfterAbort, rest),
           UNCHANGED <<inbox, logVars, histVars>>
    PROVE  TypeOK'
<1>1. LogType' /\ HistType' /\ inbox' \in [Target -> Seq(Message)]
  BY Unchanged DEF TypeOK
<1>2. CASE phase = "idle" /\ StartDriver(rest)
  BY <1>1, <1>2, StartDriverType DEF TypeOK
<1>3. CASE phase # "idle" /\ LatchWake(wakeAfterAbort) /\ stack' = rest
  <2>1. PhaseType'
    BY <1>3 DEF LatchWake, TypeOK, PhaseType
  <2>2. LocalType'
    BY <1>3, Unchanged DEF LatchWake, TypeOK
  <2>3. QED
    BY <1>1, <1>3, <2>1, <2>2 DEF TypeOK
<1>4. QED
  BY <1>2, <1>3 DEF WakeDriver

(* The last part of cancel keeps the phase typed. *)
LEMMA AbortType ==
    ASSUME TypeOK, NEW cause \in Cause, NEW keepInbox \in BOOLEAN, Abort(cause, keepInbox)
    PROVE  PhaseType' /\ LocalType' /\ LogType'
<1>1. abort' \in Cause \cup {None} /\ wakeRequested' \in BOOLEAN
  BY DEF Abort, TypeOK, PhaseType
<1>2. phase' = phase /\ turn' = turn /\ step' = step
  BY DEF Abort
<1>3. LocalType' /\ LogType'
  BY Unchanged DEF Abort, TypeOK
<1>4. QED
  BY <1>1, <1>2, <1>3 DEF TypeOK, PhaseType

(* One splice of Inbox.clear keeps the inbox typed. *)
LEMMA ClearQueueType ==
    ASSUME TypeOK, NEW target \in Target, ClearQueue(target)
    PROVE  inbox' \in [Target -> Seq(Message)] /\ discarded' \subseteq Message
<1>1. Elems(inbox[target]) \subseteq Message
  BY ElemsType DEF TypeOK
<1>2. inbox' \in [Target -> Seq(Message)]
  BY DEF ClearQueue, TypeOK
<1>3. QED
  BY <1>1, <1>2 DEF ClearQueue, TypeOK, HistType

(* Pending and claimed items are messages. *)
LEMMA PendingType == TypeOK => Pending \subseteq Message /\ Elems(batch) \subseteq Message
  BY ElemsType DEF TypeOK, LocalType, Pending, Target

(* The splice of send keeps the inbox, the stack and the histories typed. *)
LEMMA QueueType ==
    ASSUME TypeOK, NEW m \in Message, NEW target \in Target, NEW wakeup \in BOOLEAN,
           NEW rest \in Seq(Frame), Queue(m, target, wakeup, rest)
    PROVE  /\ inbox' \in [Target -> Seq(Message)] /\ stack' \in Seq(Frame)
           /\ prompts' \subseteq Message /\ waking' \subseteq Message
<1> DEFINE l == wakeup /\ phase # "idle" /\ abort # None
           r == IF l THEN "next-turn" ELSE target
<1>1. l \in BOOLEAN /\ r \in Target
  BY DEF Target
<1>2. Append(inbox[r], m) \in Seq(Message)
  BY <1>1, AppendProperties DEF TypeOK
<1>3. inbox' = [inbox EXCEPT ![r] = Append(@, m)]
  BY DEF Queue
<1>4. inbox' \in [Target -> Seq(Message)]
  BY <1>1, <1>2, <1>3 DEF TypeOK
<1>5. <<[op |-> "wake", late |-> l]>> \o rest \in Seq(Frame)
  <2>1. [op |-> "wake", late |-> l] \in Frame
    BY <1>1 DEF Frame
  <2>2. QED
    BY <2>1, PushType
<1>6. stack' \in Seq(Frame)
  BY <1>5 DEF Queue
<1>7. prompts' \subseteq Message /\ waking' \subseteq Message
  BY DEF Queue, TypeOK, HistType
<1>8. QED
  BY <1>4, <1>6, <1>7

(* send up to its splice's observers keeps the state typed. *)
LEMMA SendType ==
    ASSUME TypeOK, NEW m \in Message, NEW target \in Target, NEW wakeup \in BOOLEAN,
           Send(m, target, wakeup)
    PROVE  TypeOK'
<1>1. /\ inbox' \in [Target -> Seq(Message)] /\ stack' \in Seq(Frame)
      /\ prompts' \subseteq Message /\ waking' \subseteq Message
  BY QueueType DEF Send, TypeOK
<1>2. HistType'
  BY <1>1 DEF Send, TypeOK, HistType
<1>3. QED
  BY <1>1, <1>2, Unchanged DEF Send, TypeOK

(* A withdrawal keeps everything but the stack and the promotions typed. *)
LEMMA SpliceKeeps ==
    ASSUME TypeOK, NEW target \in Target, NEW i \in DOMAIN inbox[target], Splice(target, i),
           promoted' \subseteq Message
    PROVE  /\ inbox' \in [Target -> Seq(Message)] /\ inbox[target][i] \in Message
           /\ PhaseType' /\ LocalType' /\ LogType' /\ HistType'
<1>1. inbox[target] \in Seq(Message)
  BY DEF TypeOK
<1>2. SubSeq(inbox[target], 1, i - 1) \o SubSeq(inbox[target], i + 1, Len(inbox[target]))
        \in Seq(Message)
  BY <1>1, SpliceType
<1>3. inbox' \in [Target -> Seq(Message)]
  BY <1>2 DEF Splice, TypeOK
<1>4. inbox[target][i] \in Message
  BY <1>1, ElementOfSeq
<1>5. HistType'
  BY <1>4 DEF Splice, TypeOK, HistType
<1>6. PhaseType' /\ LocalType' /\ LogType'
  BY Unchanged DEF Splice, TypeOK
<1>7. QED
  BY <1>3, <1>4, <1>5, <1>6

(* Inbox.remove keeps the state typed. *)
LEMMA RemoveType ==
    ASSUME TypeOK, NEW target \in Target, NEW i \in DOMAIN inbox[target], Remove(target, i)
    PROVE  TypeOK'
<1>1. promoted' \subseteq Message /\ stack' \in Seq(Frame)
  BY DEF Remove, TypeOK, HistType
<1>2. QED
  BY <1>1, SpliceKeeps DEF Remove, TypeOK

(* Promoting a queued prompt to steering keeps the state typed. *)
LEMMA PromoteType ==
    ASSUME TypeOK, NEW i \in DOMAIN inbox["next-turn"], Promote(i)
    PROVE  TypeOK'
<1> DEFINE m == inbox["next-turn"][i]
<1>1. "next-turn" \in Target
  BY DEF Target
<1>2. m \in Message
  BY <1>1, ElementOfSeq DEF TypeOK
<1>3. promoted' \subseteq Message
  BY <1>2 DEF Promote, TypeOK, HistType
<1>4. [op |-> "steer", prompt |-> m] \in Frame
  BY <1>2 DEF Frame
<1>5. stack' \in Seq(Frame)
  BY <1>4, PushType DEF Promote, Push, TypeOK
<1>6. QED
  BY <1>1, <1>3, <1>5, SpliceKeeps DEF Promote, TypeOK

(* cancel up to its first splice's observers keeps the state typed. *)
LEMMA CancelType ==
    ASSUME TypeOK, NEW cause \in Cause, NEW keepInbox \in BOOLEAN, Cancel(cause, keepInbox),
           disposing' \in BOOLEAN
    PROVE  TypeOK'
<1>1. doomed' \subseteq Message
  BY PendingType DEF Cancel, Doom, TypeOK, HistType
<1>2. ASSUME NEW op \in {"clear", "abort"}
      PROVE  <<[op |-> op, cause |-> cause]>> \o stack \in Seq(Frame)
  <2>1. [op |-> op, cause |-> cause] \in Frame
    BY DEF Frame
  <2>2. QED
    BY <2>1, PushType DEF TypeOK
<1>3. ASSUME NEW target \in Target, NEW op \in {"clear", "abort"},
             ClearQueue(target), Push([op |-> op, cause |-> cause]),
             UNCHANGED <<phaseVars, localVars, logVars>>
      PROVE  /\ inbox' \in [Target -> Seq(Message)] /\ discarded' \subseteq Message
             /\ stack' \in Seq(Frame) /\ PhaseType' /\ LocalType' /\ LogType'
  BY <1>2, <1>3, ClearQueueType, Unchanged DEF Push, TypeOK
<1>4. /\ inbox' \in [Target -> Seq(Message)] /\ discarded' \subseteq Message
      /\ stack' \in Seq(Frame) /\ PhaseType' /\ LocalType' /\ LogType'
  <2>1. CASE Abort(cause, keepInbox) /\ UNCHANGED <<inbox, discarded, stack>>
    BY <2>1, AbortType DEF TypeOK, HistType
  <2>2. CASE /\ ClearQueue("next-step") /\ Push([op |-> "clear", cause |-> cause])
             /\ UNCHANGED <<phaseVars, localVars, logVars>>
    BY <2>2, <1>3 DEF Target
  <2>3. CASE /\ ClearQueue("next-turn") /\ Push([op |-> "abort", cause |-> cause])
             /\ UNCHANGED <<phaseVars, localVars, logVars>>
    BY <2>3, <1>3 DEF Target
  <2>4. QED
    BY <2>1, <2>2, <2>3 DEF Cancel, HasPending
<1>5. UNCHANGED <<sent, prompts, waking, promoted, admitted, dropped>>
  BY DEF Cancel
<1>6. HistType'
  BY <1>1, <1>4, <1>5 DEF TypeOK, HistType
<1>7. QED
  BY <1>4, <1>6 DEF TypeOK

(* Every caller's operation keeps the state typed. *)
LEMMA CallerType == ASSUME TypeOK, Caller PROVE TypeOK'
<1>1. ASSUME NEW keepInbox \in BOOLEAN, UserCancel(keepInbox)
      PROVE  TypeOK'
  BY <1>1, CancelType DEF UserCancel, Cause, TypeOK, HistType
<1>2. ASSUME NEW keepInbox \in BOOLEAN, Dispose(keepInbox)
      PROVE  TypeOK'
  BY <1>2, CancelType DEF Dispose, Cause
<1>3. CASE StartMaintenance
  <2>1. PhaseType'
    BY <1>3 DEF StartMaintenance, TypeOK, PhaseType
  <2>2. QED
    BY <1>3, <2>1, Unchanged DEF StartMaintenance, TypeOK
<1>4. QED
  BY <1>1, <1>2, <1>3, SendType, RemoveType, PromoteType DEF Caller

(* So does the rest of an interrupted one. *)
LEMMA ReturnType == ASSUME TypeOK, Return PROVE TypeOK'
<1>1. ASSUME stack # <<>> PROVE Head(stack) \in Frame /\ Tail(stack) \in Seq(Frame)
  BY <1>1, FrontType DEF TypeOK
<1>2. CASE Wake
  <2>1. Head(stack).late \in BOOLEAN
    BY <1>1, <1>2 DEF Wake, Top, Frame
  <2>2. QED
    BY <1>1, <1>2, <2>1, WakeDriverType DEF Wake, Top
<1>3. ASSUME Top("clear") \/ Top("abort")
      PROVE  Head(stack).cause \in Cause
  BY <1>1, <1>3 DEF Top, Frame
<1>4. CASE ClearTurn
  <2> DEFINE cause == Head(stack).cause
  <2>1. cause \in Cause /\ Tail(stack) \in Seq(Frame)
    BY <1>1, <1>3, <1>4 DEF ClearTurn, Top
  <2>2. UNCHANGED <<disposing, sent, prompts, waking, promoted, admitted, dropped, doomed>>
    BY <1>4 DEF ClearTurn
  <2>3. CASE Abort(cause, FALSE) /\ stack' = Tail(stack) /\ UNCHANGED <<inbox, discarded>>
    <3>1. PhaseType' /\ LocalType' /\ LogType'
      BY <2>1, <2>3, AbortType
    <3>2. HistType'
      BY <2>2, <2>3 DEF TypeOK, HistType
    <3>3. QED
      BY <2>1, <2>3, <3>1, <3>2 DEF TypeOK
  <2>4. CASE /\ ClearQueue("next-turn")
             /\ stack' = <<[op |-> "abort", cause |-> cause]>> \o Tail(stack)
             /\ UNCHANGED <<phaseVars, localVars, logVars>>
    <3>1. inbox' \in [Target -> Seq(Message)] /\ discarded' \subseteq Message
      BY <2>4, ClearQueueType DEF Target
    <3>2. [op |-> "abort", cause |-> cause] \in Frame
      BY <2>1 DEF Frame
    <3>3. stack' \in Seq(Frame)
      BY <2>1, <2>4, <3>2, PushType
    <3>4. HistType'
      BY <2>2, <3>1 DEF TypeOK, HistType
    <3>5. QED
      BY <2>4, <3>1, <3>3, <3>4, Unchanged DEF TypeOK
  <2>5. QED
    BY <1>4, <2>3, <2>4 DEF ClearTurn
<1>5. CASE FinishCancel
  <2>1. Head(stack).cause \in Cause /\ Tail(stack) \in Seq(Frame)
    BY <1>1, <1>3, <1>5 DEF FinishCancel, Top
  <2>2. PhaseType' /\ LocalType' /\ LogType'
    BY <1>5, <2>1, AbortType DEF FinishCancel
  <2>3. QED
    BY <1>5, <2>1, <2>2, Unchanged DEF FinishCancel, TypeOK
<1>6. CASE Replay
  <2>1. Tail(stack) \in Seq(Frame)
    BY <1>1, <1>6 DEF Replay, Top
  <2>2. CASE WakeDriver(FALSE, Tail(stack))
    BY <1>6, <2>1, <2>2, WakeDriverType DEF Replay
  <2>3. CASE stack' = Tail(stack) /\ UNCHANGED <<phaseVars, localVars>>
    BY <1>6, <2>1, <2>3, Unchanged DEF Replay, TypeOK
  <2>4. QED
    BY <1>6, <2>2, <2>3 DEF Replay
<1>7. CASE Steer
  <2> DEFINE m == Head(stack).prompt
  <2>1. m \in Message /\ Tail(stack) \in Seq(Frame) /\ "next-step" \in Target
    BY <1>1, <1>7 DEF Steer, Top, Frame, Target
  <2>2. /\ inbox' \in [Target -> Seq(Message)] /\ stack' \in Seq(Frame)
        /\ prompts' \subseteq Message /\ waking' \subseteq Message
    BY <1>7, <2>1, QueueType DEF Steer
  <2>3. HistType'
    BY <1>7, <2>2 DEF Steer, TypeOK, HistType
  <2>4. QED
    BY <1>7, <2>2, <2>3, Unchanged DEF Steer, TypeOK
<1>8. QED
  BY <1>2, <1>4, <1>5, <1>6, <1>7 DEF Return

(* The driver's first await pops at most its own kick from the stack. *)
LEMMA LeaveType == TypeOK /\ (Leave \/ Stay) => stack' \in Seq(Frame)
  BY FrontType DEF Leave, Stay, Top, TypeOK

(* Leaving a turn keeps the state typed. *)
LEMMA CloseTurnType ==
    ASSUME TypeOK, NEW reason \in Ending, NEW throws \in BOOLEAN, NEW stops \in BOOLEAN,
           CloseTurn(reason, throws, stops)
    PROVE  LocalType' /\ LogType' /\ HistType'
<1>1. batch' \in Seq(Message) /\ dropped' \subseteq Message
  BY PendingType DEF CloseTurn, TypeOK, HistType
<1>2. LocalType'
  BY <1>1 DEF CloseTurn, LocalType, PC
<1>3. LogType'
  <2>1. CASE turnOpen' = FALSE /\ logStep' = 0 /\ UNCHANGED <<logTurn, stepOpen, asked, called, answered>>
    BY <2>1 DEF TypeOK, LogType
  <2>2. CASE UNCHANGED logVars
    BY <2>2, Unchanged DEF TypeOK
  <2>3. QED
    BY <2>1, <2>2 DEF CloseTurn
<1>4. HistType'
  BY <1>1 DEF CloseTurn, TypeOK, HistType
<1>5. QED
  BY <1>2, <1>3, <1>4

(* So does leaving it by an exception or an abort. *)
LEMMA FailTurnType ==
    TypeOK /\ FailTurn => LocalType' /\ LogType' /\ HistType'
<1> DEFINE reason == IF abort # None THEN "aborted" ELSE "error"
<1>1. reason \in Ending
  BY DEF Ending
<1>2. QED
  BY <1>1, CloseTurnType DEF FailTurn

(* A driver step that moves no message keeps the histories typed. *)
LEMMA NoFateType == TypeOK /\ NoFate => HistType'
  BY DEF NoFate, TypeOK, HistType

(* step/start keeps the state typed. *)
LEMMA OpenStepType ==
    ASSUME TypeOK, NEW p \in PC, NEW admission \in Seq(Message), OpenStep(p, admission)
    PROVE  step' \in Nat /\ LocalType' /\ LogType' /\ HistType'
<1>1. dropped' \subseteq Message
  BY PendingType DEF OpenStep, TypeOK, HistType
<1>2. step' \in Nat /\ attempt' \in Nat /\ logStep' \in Nat
  BY DEF OpenStep, TypeOK, PhaseType
<1>3. LocalType'
  BY <1>2 DEF OpenStep, TypeOK, LocalType
<1>4. LogType'
  BY <1>2 DEF OpenStep, TypeOK, LogType
<1>5. HistType'
  BY <1>1 DEF OpenStep, TypeOK, HistType
<1>6. QED
  BY <1>2, <1>3, <1>4, <1>5

(* A step/start an observer rejects keeps it typed. *)
LEMMA VetoStepType ==
    TypeOK /\ VetoStep => step' \in Nat /\ LocalType' /\ LogType' /\ HistType'
  BY FailTurnType DEF VetoStep, TypeOK, PhaseType

(* Logging the head of the batch as a user message keeps the state typed. *)
LEMMA AdmitType == ASSUME TypeOK, NEW p, Admit(p) PROVE TypeOK'
<1>1. batch' \in Seq(Message)
  BY FrontType DEF Admit, TypeOK, LocalType
<1>2. admitted' \in [Message -> Nat]
  BY DEF Admit, TypeOK, HistType, PhaseType
<1>3. LocalType' /\ HistType'
  BY <1>1, <1>2 DEF Admit, TypeOK, LocalType, HistType
<1>4. QED
  BY <1>3, Unchanged DEF Admit, TypeOK

(* An action that only moves the driver inside the turn. *)
LEMMA UnchangedPhaseType ==
    TypeOK /\ UnchangedPhase /\ step' \in Nat => PhaseType'
  BY DEF UnchangedPhase, TypeOK, PhaseType

(* Claiming the front of the turn list keeps the state typed. *)
LEMMA ClaimTurnType ==
    ASSUME TypeOK, NEW claimed \in Seq(Message), ClaimTurn(claimed)
    PROVE  /\ inbox' \in [Target -> Seq(Message)] /\ stack' \in Seq(Frame)
           /\ batch' \in Seq(Message) /\ pc' \in PC
<1> DEFINE queue == inbox["next-turn"]
<1>1. queue \in Seq(Message)
  BY DEF TypeOK, Target
<1>2. CASE queue = <<>>
  BY <1>2, LeaveType DEF ClaimTurn, PC, TypeOK
<1>3. CASE queue # <<>>
  <2>1. Head(queue) \in Message /\ Tail(queue) \in Seq(Message)
    BY <1>1, <1>3, FrontType
  <2>2. Append(claimed, Head(queue)) \in Seq(Message)
    BY <2>1, AppendProperties
  <2>3. inbox' \in [Target -> Seq(Message)]
    BY <1>3, <2>1 DEF ClaimTurn, TypeOK, Target
  <2>4. QED
    BY <1>3, <2>2, <2>3, LeaveType DEF ClaimTurn, PC
<1>4. QED
  BY <1>2, <1>3

(* Claiming the next step's context keeps the state typed. *)
LEMMA ContinueTurnType ==
    ASSUME TypeOK, ContinueTurn
    PROVE  TypeOK'
<1>1. inbox["next-step"] \in Seq(Message)
  BY DEF TypeOK, Target
<1>2. inbox' \in [Target -> Seq(Message)]
  BY DEF ContinueTurn, TypeOK, Target
<1>3. LocalType'
  BY <1>1 DEF ContinueTurn, TypeOK, LocalType, PC
<1>4. QED
  BY <1>2, <1>3, Unchanged, NoFateType DEF ContinueTurn, Stay, TypeOK

(* Moving on inside a step keeps the stack and the phase typed. *)
LEMMA AdvanceType ==
    ASSUME TypeOK, NEW p, NEW q \in PC, Advance(p, q),
           ending' \in Ending, attempt' \in Nat, LogType'
    PROVE  TypeOK'
<1>1. LocalType'
  BY DEF Advance, TypeOK, LocalType
<1>2. QED
  BY <1>1, Unchanged, NoFateType DEF Advance, TypeOK

(* Every step of turn(), preStep() and kick() keeps the state typed. *)
LEMMA TurnType == ASSUME TypeOK, Turn PROVE TypeOK'
<1>1. CASE OpenTurn
  <2>1. stack' \in Seq(Frame)
    BY <1>1, LeaveType DEF OpenTurn
  <2>2. PhaseType'
    BY <1>1 DEF OpenTurn, TypeOK, PhaseType
  <2>3. LocalType'
    BY <1>1 DEF OpenTurn, TypeOK, LocalType, PC, Ending
  <2>4. LogType'
    <3>1. CASE /\ logTurn' = turn + 1 /\ turnOpen' = TRUE /\ logStep' = 0 /\ stepOpen' = FALSE
               /\ asked' = 0 /\ called' = 0 /\ answered' = 0
      <4>1. turn + 1 \in Nat
        BY DEF TypeOK, PhaseType
      <4>2. QED
        BY <3>1, <4>1 DEF LogType
    <3>2. CASE UNCHANGED logVars
      BY <3>2, Unchanged DEF TypeOK
    <3>3. QED
      BY <1>1, <3>1, <3>2 DEF OpenTurn
  <2>5. inbox' = inbox /\ HistType'
    BY <1>1, Unchanged, NoFateType DEF OpenTurn, TypeOK
  <2>6. QED
    BY <2>1, <2>2, <2>3, <2>4, <2>5 DEF TypeOK
<1>2. CASE ClaimFirst
  <2>1. CASE FailTurn /\ Stay /\ UNCHANGED <<inbox, phaseVars>>
    BY <2>1, FailTurnType, LeaveType, Unchanged DEF TypeOK
  <2>2. ASSUME UNCHANGED <<phaseVars, ending, thrown, halt, toolSet, attempt, logVars>>, NoFate,
               batch' \in Seq(Message), pc' \in PC,
               inbox' \in [Target -> Seq(Message)], stack' \in Seq(Frame)
        PROVE  TypeOK'
    <3>1. LocalType'
      BY <2>2 DEF TypeOK, LocalType
    <3>2. QED
      BY <2>2, <3>1, Unchanged, NoFateType DEF TypeOK
  <2>3. <<>> \in Seq(Message) /\ inbox["next-step"] \in Seq(Message)
    BY DEF TypeOK, Target
  <2>4. CASE /\ ClaimTurn(<<>>) /\ NoFate
             /\ UNCHANGED <<phaseVars, ending, thrown, halt, toolSet, attempt, logVars>>
    BY <2>2, <2>3, <2>4, ClaimTurnType
  <2>5. CASE /\ batch' = inbox["next-step"] /\ inbox' = [inbox EXCEPT !["next-step"] = <<>>]
             /\ pc' = "claimTurn" /\ Stay /\ NoFate
             /\ UNCHANGED <<phaseVars, ending, thrown, halt, toolSet, attempt, logVars>>
    <3>1. inbox' \in [Target -> Seq(Message)]
      BY <2>5 DEF TypeOK, Target
    <3>2. QED
      BY <2>2, <2>3, <2>5, <3>1, LeaveType DEF PC
  <2>6. QED
    BY <1>2, <2>1, <2>4, <2>5 DEF ClaimFirst
<1>3. CASE ClaimPrompt
  <2>1. batch \in Seq(Message)
    BY DEF TypeOK, LocalType
  <2>2. LocalType'
    BY <1>3, <2>1, ClaimTurnType DEF ClaimPrompt, TypeOK, LocalType
  <2>3. QED
    BY <1>3, <2>1, <2>2, ClaimTurnType, Unchanged, NoFateType DEF ClaimPrompt, TypeOK
<1>4. CASE IntakePasses
  <2>1. LocalType'
    BY <1>4 DEF IntakePasses, TypeOK, LocalType, PC
  <2>2. QED
    BY <1>4, <2>1, Unchanged, NoFateType DEF IntakePasses, TypeOK
<1>5. CASE IntakeReplies
  <2>1. "replying" \in PC /\ batch \in Seq(Message)
    BY DEF PC, TypeOK, LocalType
  <2>2. step' \in Nat /\ LocalType' /\ LogType' /\ HistType'
    BY <1>5, <2>1, OpenStepType, VetoStepType DEF IntakeReplies
  <2>3. QED
    BY <1>5, <2>2, UnchangedPhaseType DEF IntakeReplies, TypeOK
<1>6. CASE LogReply
  <2>1. ending' \in Ending
    BY <1>6 DEF LogReply, Settle, Ending
  <2>2. LocalType'
    BY <1>6, <2>1 DEF LogReply, TypeOK, LocalType, PC
  <2>3. QED
    BY <1>6, <2>2, Unchanged, NoFateType DEF LogReply, TypeOK
<1>7. CASE ResolveTools
  <2>1. LocalType'
    BY <1>7 DEF ResolveTools, TypeOK, LocalType, PC
  <2>2. QED
    BY <1>7, <2>1, Unchanged, NoFateType DEF ResolveTools, TypeOK
<1>8. CASE RejectStep
  <2>1. "blocked" \in Ending
    BY DEF Ending
  <2>2. QED
    BY <1>8, <2>1, CloseTurnType, Unchanged DEF RejectStep, TypeOK
<1>9. ASSUME NEW keep \in BOOLEAN, NEW extra \in BOOLEAN, EnterStep(keep, extra)
      PROVE  TypeOK'
  <2> DEFINE admission == IF keep THEN batch ELSE <<>>
  <2>1. admission \in Seq(Message) /\ "requesting" \in PC
    BY DEF PC, TypeOK, LocalType
  <2>2. ending \in Ending /\ "completed" \in Ending
    BY DEF Ending, TypeOK, LocalType
  <2>3. step' \in Nat /\ LocalType' /\ LogType' /\ HistType'
    <3>1. CASE \E reason \in Ending, stops \in BOOLEAN : CloseTurn(reason, FALSE, stops) /\ UNCHANGED step
      BY <3>1, CloseTurnType DEF TypeOK, PhaseType
    <3>2. CASE OpenStep("requesting", admission) \/ VetoStep
      BY <2>1, <3>2, OpenStepType, VetoStepType
    <3>3. QED
      BY <1>9, <2>2, <3>1, <3>2 DEF EnterStep
  <2>4. QED
    BY <1>9, <2>3, UnchangedPhaseType DEF EnterStep, TypeOK
<1>10. ASSUME NEW p \in Hook, HookFails(p)
       PROVE  TypeOK'
  BY <1>10, FailTurnType, LeaveType, Unchanged DEF HookFails, TypeOK
<1>11. CASE AfterStep
  <2>1. CASE FailTurn /\ UNCHANGED <<inbox, phaseVars, stack>>
    BY <2>1, FailTurnType, Unchanged DEF TypeOK
  <2>2. CASE Advance("stepClosed", "stopping") /\ UNCHANGED <<ending, attempt, logVars>>
    BY <2>2, AdvanceType, Unchanged DEF TypeOK, LocalType, PC
  <2>3. QED
    BY <1>11, <2>1, <2>2, ContinueTurnType DEF AfterStep
<1>12. CASE Stopping
  <2>1. CASE CloseTurn(ending, FALSE, FALSE) /\ UNCHANGED <<inbox, phaseVars, stack>>
    BY <2>1, CloseTurnType, Unchanged DEF TypeOK, LocalType
  <2>2. QED
    BY <1>12, <2>1, ContinueTurnType DEF Stopping
<1>13. CASE AfterTurn
  <2>1. stack' \in Seq(Frame)
    BY <1>13, LeaveType DEF AfterTurn
  <2>2. PhaseType'
    <3>1. CASE abort' = None /\ wakeRequested' = FALSE /\ step' = 0
      BY <1>13, <3>1 DEF AfterTurn, TypeOK, PhaseType
    <3>2. CASE UNCHANGED <<abort, wakeRequested, step>>
      BY <1>13, <3>2 DEF AfterTurn, TypeOK, PhaseType
    <3>3. QED
      BY <1>13, <3>1, <3>2 DEF AfterTurn
  <2>3. LocalType'
    BY <1>13 DEF AfterTurn, TypeOK, LocalType, PC
  <2>4. HistType'
    BY <1>13 DEF AfterTurn, TypeOK, HistType
  <2>5. QED
    BY <1>13, <2>1, <2>2, <2>3, <2>4, Unchanged DEF AfterTurn, TypeOK
<1>14. CASE Retire
  <2>1. [op |-> "replay", latched |-> wakeRequested] \in Frame
    BY DEF Frame, TypeOK, PhaseType
  <2>2. stack' \in Seq(Frame)
    BY <1>14, <2>1, PushType DEF Retire, Push, TypeOK
  <2>3. PhaseType'
    BY <1>14 DEF Retire, TypeOK, PhaseType
  <2>4. LocalType'
    BY <1>14 DEF Retire, TypeOK, LocalType, PC, Ending
  <2>5. HistType'
    BY <1>14 DEF Retire, TypeOK, HistType
  <2>6. QED
    BY <1>14, <2>2, <2>3, <2>4, <2>5, Unchanged DEF Retire, TypeOK
<1>15. CASE ReplyFails
  <2>1. LocalType'
    BY <1>15 DEF ReplyFails, TypeOK, LocalType, PC
  <2>2. QED
    BY <1>15, <2>1, Unchanged, NoFateType DEF ReplyFails, TypeOK
<1>16. QED
  BY <1>1, <1>2, <1>3, <1>4, <1>5, <1>6, <1>7, <1>8, <1>9, <1>10, <1>11, <1>12, <1>13, <1>14,
     <1>15
  DEF Turn

(* Every step of step() keeps the state typed. *)
LEMMA StepType == ASSUME TypeOK, Step PROVE TypeOK'
<1>1. CASE BuildRequest
  <2>1. LocalType'
    BY <1>1 DEF BuildRequest, TypeOK, LocalType, PC
  <2>2. QED
    BY <1>1, <2>1, Unchanged, NoFateType DEF BuildRequest, TypeOK
<1>2. CASE StartStream
  BY <1>2, AdvanceType, Unchanged DEF StartStream, TypeOK, LocalType, PC
<1>3. CASE StreamErrs
  BY <1>3, AdvanceType, Unchanged DEF StreamErrs, TypeOK, LocalType, PC
<1>4. CASE Retry
  <2>1. attempt' \in Nat /\ ending' \in Ending /\ LogType' /\ "requesting" \in PC
    BY <1>4, Unchanged DEF Retry, TypeOK, LocalType, PC
  <2>2. QED
    BY <1>4, <2>1, AdvanceType DEF Retry
<1>5. ASSUME NEW result \in {"completed", "max-tokens"}, StreamAnswers(result)
      PROVE  TypeOK'
  <2>1. ending' \in Ending /\ attempt' \in Nat /\ LogType' /\ "closeStep" \in PC
    BY <1>5, Unchanged DEF StreamAnswers, Settle, TypeOK, LocalType, PC, Ending
  <2>2. QED
    BY <1>5, <2>1, AdvanceType DEF StreamAnswers, Settle
<1>6. ASSUME NEW n \in 1..MaxCalls, StreamAsks(n)
      PROVE  TypeOK'
  <2>1. n \in Nat
    BY BoundAssumption
  <2>2. LogType'
    BY <1>6, <2>1 DEF StreamAsks, TypeOK, LogType
  <2>3. ending' \in Ending /\ attempt' \in Nat /\ "tools" \in PC
    BY <1>6 DEF StreamAsks, TypeOK, LocalType, PC
  <2>4. QED
    BY <1>6, <2>2, <2>3, AdvanceType DEF StreamAsks
<1>7. ASSUME Throw PROVE LocalType'
  BY <1>7 DEF Throw, TypeOK, LocalType, PC
<1>8. ASSUME NEW p \in StepHook, StepFails(p)
      PROVE  TypeOK'
  BY <1>7, <1>8, Unchanged, NoFateType DEF StepFails, TypeOK
<1>9. CASE StartCall
  <2>1. LogType'
    BY <1>9 DEF StartCall, TypeOK, LogType
  <2>2. QED
    BY <1>9, <2>1, Unchanged, NoFateType DEF StartCall, TypeOK
<1>10. CASE SettleCall
  <2>1. LogType'
    BY <1>10 DEF SettleCall, TypeOK, LogType
  <2>2. QED
    BY <1>10, <2>1, Unchanged, NoFateType DEF SettleCall, TypeOK
<1>11. ASSUME DeferContext
       PROVE  inbox' \in [Target -> Seq(Message)] /\ HistType'
  <2>1. CASE UNCHANGED <<inbox, sent>>
    BY <1>11, <2>1 DEF DeferContext, TypeOK, HistType
  <2>2. ASSUME NEW m \in Message, inbox' = [inbox EXCEPT !["next-step"] = Append(@, m)],
               sent' = sent \cup {m}
        PROVE  inbox' \in [Target -> Seq(Message)] /\ HistType'
    <3>1. Append(inbox["next-step"], m) \in Seq(Message)
      BY AppendProperties DEF TypeOK, Target
    <3>2. HistType'
      BY <1>11, <2>2 DEF DeferContext, TypeOK, HistType
    <3>3. QED
      BY <2>2, <3>1, <3>2 DEF TypeOK
  <2>3. QED
    BY <1>11, <2>1, <2>2 DEF DeferContext
<1>12. CASE FailBatch
  BY <1>7, <1>11, <1>12, Unchanged DEF FailBatch, TypeOK
<1>13. CASE Recover
  <2>1. LocalType' /\ LogType'
    BY <1>13 DEF Recover, TypeOK, LocalType, LogType, PC
  <2>2. QED
    BY <1>13, <2>1, Unchanged, NoFateType DEF Recover, TypeOK
<1>14. CASE CloseStep
  <2>1. batch' \in Seq(Message) /\ dropped' \subseteq Message
    BY <1>14, PendingType DEF CloseStep, TypeOK, HistType
  <2>2. LocalType'
    BY <1>14, <2>1 DEF CloseStep, TypeOK, LocalType, PC
  <2>3. LogType'
    <3>1. CASE /\ stepOpen' = FALSE /\ asked' = 0 /\ called' = 0 /\ answered' = 0
               /\ UNCHANGED <<logTurn, turnOpen, logStep>>
      BY <3>1 DEF TypeOK, LogType
    <3>2. CASE UNCHANGED logVars
      BY <3>2, Unchanged DEF TypeOK
    <3>3. QED
      BY <1>14, <3>1, <3>2 DEF CloseStep
  <2>4. HistType'
    BY <1>14, <2>1 DEF CloseStep, TypeOK, HistType
  <2>5. QED
    BY <1>14, <2>2, <2>3, <2>4, Unchanged DEF CloseStep, TypeOK
<1>15. ASSUME NEW concluded \in BOOLEAN, FinishBatch(concluded)
       PROVE  TypeOK'
  <2>1. LocalType'
    BY <1>15 DEF FinishBatch, Settle, TypeOK, LocalType, PC, Ending
  <2>2. QED
    BY <1>11, <1>15, <2>1, Unchanged DEF FinishBatch, TypeOK
<1>16. CASE PrepareRequest
  <2>1. attempt' \in Nat /\ ending' \in Ending /\ LogType' /\ "admitting" \in PC
    BY <1>16, Unchanged DEF PrepareRequest, TypeOK, LocalType, PC
  <2>2. QED
    BY <1>16, <2>1, AdvanceType DEF PrepareRequest
<1>17. ASSUME NEW p \in Admitting, Admit(p)
       PROVE  TypeOK'
  BY <1>17, AdmitType
<1>18. QED
  BY <1>1, <1>2, <1>3, <1>4, <1>5, <1>6, <1>8, <1>9, <1>10, <1>12, <1>13, <1>14, <1>15, <1>16,
     <1>17 DEF Step

(* A maintenance job that settles keeps the state typed. *)
LEMMA EndMaintenanceType == ASSUME TypeOK, EndMaintenance PROVE TypeOK'
<1>1. HistType'
  BY DEF EndMaintenance, TypeOK, HistType
<1>2. stack' \in Seq(Frame) /\ PhaseType' /\ LocalType'
  <2>1. CASE StartDriver(stack)
    BY <2>1, StartDriverType DEF TypeOK
  <2>2. CASE /\ phase' = "idle" /\ abort' = None /\ wakeRequested' = FALSE
             /\ UNCHANGED <<turn, step, localVars, stack>>
    BY <2>2, Unchanged DEF TypeOK, PhaseType
  <2>3. QED
    BY <2>1, <2>2 DEF EndMaintenance
<1>3. QED
  BY <1>1, <1>2, Unchanged DEF EndMaintenance, TypeOK

(* Every state of the driver is well formed, for any set of messages and any
   bounds: the inbox and the claimed batch stay sequences of messages and the
   call stack holds only calls the code can be interrupted in. *)
THEOREM TypeCorrect == Spec => []TypeOK
<1>1. Init => TypeOK
  BY InitType
<1>2. TypeOK /\ [Next]_vars => TypeOK'
  <2> SUFFICES ASSUME TypeOK, [Next]_vars PROVE TypeOK'
    OBVIOUS
  <2>1. CASE UNCHANGED vars
    BY <2>1, Unchanged DEF vars, TypeOK
  <2>2. QED
    BY <2>1, CallerType, TurnType, StepType, ReturnType, EndMaintenanceType DEF Next
<1>3. QED
  BY <1>1, <1>2, PTL DEF Spec

----------------------------------------------------------------------------
(* The session log the driver writes is bracketed, an agent that is not      *)
(* running left nothing behind, no latched wake outlives the activity it     *)
(* waits for, and no turn passes the output ceiling.  All of it follows from *)
(* one invariant that ties the log, the latch and the driver's locals to the *)
(* place where it waits.                                                     *)
(*                                                                           *)
(* The theorems assume that no pre-commit observer rejects step/end or       *)
(* turn/end: the driver has no second way to close them.                     *)

ClosersCommit == {"step/end", "turn/end"} \cap Vetoable = {}

(* What one step of the driver owes. *)
Good == DriverInv' /\ LogInv' /\ [Log!Next]_logVars

(* A new or resumed agent starts at rest over a balanced log. *)
LEMMA InitInv == Init => DriverInv /\ LogInv /\ Log!Init
<1> SUFFICES ASSUME Init PROVE DriverInv /\ LogInv /\ Log!Init
  OBVIOUS
<1>1. Log!Init
  BY DEF Init
<1>2. DriverInv
  BY <1>1 DEF Init, Log!Init, DriverInv, InStep, InTurn, HoldsTools, HoldsBatch
<1>3. LogInv
  BY <1>1 DEF Init, Log!Init, LogInv
<1>4. QED
  BY <1>1, <1>2, <1>3

(* A step that moves neither the driver nor the log keeps everything. *)
LEMMA QuietStep ==
    ASSUME DriverInv, LogInv, UNCHANGED <<turn, step, localVars, logVars>>,
           phase' = "running" <=> phase = "running"
    PROVE  Good
<1>1. DriverInv'
  BY DEF DriverInv, localVars, logVars
<1>2. LogInv'
  BY DEF LogInv, localVars, logVars
<1>3. QED
  BY <1>1, <1>2 DEF Good

(* Starting a driver: the log is at rest and stays there. *)
LEMMA StartStep ==
    ASSUME TypeOK, DriverInv, LogInv, phase # "running", NEW rest, StartDriver(rest),
           UNCHANGED logVars
    PROVE  Good
<1>1. pc = "off"
  BY DEF DriverInv
<1>2. DriverInv'
  BY <1>1 DEF DriverInv, StartDriver, logVars, InStep, InTurn, HoldsTools, HoldsBatch
<1>3. LogInv'
  BY <1>1 DEF DriverInv, LogInv, StartDriver, logVars, InStep, InTurn
<1>4. QED
  BY <1>2, <1>3 DEF Good

(* wakeDriver starts a driver on an idle agent only, and otherwise touches
   neither the driver nor the log. *)
LEMMA WakeStep ==
    ASSUME TypeOK, DriverInv, LogInv, NEW w, NEW rest, WakeDriver(w, rest),
           UNCHANGED logVars
    PROVE  Good
<1>1. CASE phase = "idle" /\ StartDriver(rest)
  BY <1>1, StartStep
<1>2. CASE phase # "idle" /\ LatchWake(w)
  BY <1>2, QuietStep DEF LatchWake
<1>3. QED
  BY <1>1, <1>2 DEF WakeDriver

(* No caller's operation moves the log or a running driver. *)
LEMMA CallerStep == ASSUME TypeOK, DriverInv, LogInv, Caller PROVE Good
<1>1. ASSUME NEW m \in Message, NEW target \in Target, NEW wakeup \in BOOLEAN,
             Send(m, target, wakeup)
      PROVE  Good
  BY <1>1, QuietStep DEF Send, phaseVars
<1>2. ASSUME NEW target \in Target, NEW i \in DOMAIN inbox[target], Remove(target, i)
      PROVE  Good
  BY <1>2, QuietStep DEF Remove, Splice, phaseVars
<1>3. ASSUME NEW cause, NEW keepInbox, Cancel(cause, keepInbox)
      PROVE  Good
  <2>1. UNCHANGED <<phase, turn, step, localVars, logVars>>
    BY <1>3 DEF Cancel, Abort, phaseVars, HasPending
  <2>2. QED
    BY <2>1, QuietStep
<1>4. ASSUME NEW keepInbox \in BOOLEAN, UserCancel(keepInbox) \/ Dispose(keepInbox)
      PROVE  Good
  BY <1>3, <1>4 DEF UserCancel, Dispose
<1>5. CASE StartMaintenance
  BY <1>5, QuietStep DEF StartMaintenance
<1>6. ASSUME NEW i \in DOMAIN inbox["next-turn"], Promote(i)
      PROVE  Good
  BY <1>6, QuietStep DEF Promote, Splice, phaseVars
<1>7. QED
  BY <1>1, <1>2, <1>4, <1>5, <1>6 DEF Caller

(* Nor does the rest of an interrupted one, which at most starts a driver. *)
LEMMA ReturnStep == ASSUME TypeOK, DriverInv, LogInv, Return PROVE Good
<1>1. CASE Wake
  BY <1>1, WakeStep DEF Wake
<1>2. CASE ClearTurn
  <2>1. UNCHANGED <<phase, turn, step, localVars, logVars>>
    BY <1>2 DEF ClearTurn, Abort, phaseVars
  <2>2. QED
    BY <2>1, QuietStep
<1>3. CASE FinishCancel
  BY <1>3, QuietStep DEF FinishCancel, Abort
<1>4. CASE Replay
  <2>1. CASE WakeDriver(FALSE, Tail(stack))
    BY <1>4, <2>1, WakeStep DEF Replay
  <2>2. CASE UNCHANGED <<phaseVars, localVars>>
    BY <1>4, <2>2, QuietStep DEF Replay, phaseVars
  <2>3. QED
    BY <1>4, <2>1, <2>2 DEF Replay
<1>5. CASE Steer
  BY <1>5, QuietStep DEF Steer, phaseVars
<1>6. QED
  BY <1>1, <1>2, <1>3, <1>4, <1>5 DEF Return

(* Nor does a maintenance job that settles. *)
LEMMA EndMaintenanceStep ==
    ASSUME TypeOK, DriverInv, LogInv, EndMaintenance PROVE Good
<1>1. CASE StartDriver(stack)
  BY <1>1, StartStep DEF EndMaintenance
<1>2. CASE phase' = "idle" /\ UNCHANGED <<turn, step, localVars, stack>>
  BY <1>2, QuietStep DEF EndMaintenance
<1>3. QED
  BY <1>1, <1>2 DEF EndMaintenance

----------------------------------------------------------------------------
(* The driver.                                                             *)

(* A step of the driver between two places of an open turn without an open
   step: what the log shows stays. *)
LEMMA MoveInTurn ==
    ASSUME DriverInv, LogInv, UNCHANGED <<phase, turn, step, ending, toolSet, logVars>>,
           pc \in InTurn \ InStep, pc' \in InTurn \ InStep,
           toolSet => pc' = "admission", batch' # <<>> => pc' \in HoldsBatch
    PROVE  Good
<1>1. DriverInv'
  BY DEF DriverInv, logVars, InTurn, InStep, HoldsTools
<1>2. LogInv'
  BY DEF LogInv, logVars, InTurn, InStep
<1>3. QED
  BY <1>1, <1>2 DEF Good

(* The same inside an open step that has not asked for tools yet. *)
LEMMA MoveInStep ==
    ASSUME DriverInv, LogInv, UNCHANGED <<phase, turn, step, toolSet, logVars>>,
           pc \in InStep \ {"tools", "recover", "closeStep"}, pc' \in InStep \ {"tools"},
           batch' # <<>> => pc' \in HoldsBatch
    PROVE  Good
<1>1. asked = 0 /\ called = 0 /\ answered = 0
  BY DEF LogInv
<1>2. DriverInv'
  BY DEF DriverInv, logVars, InTurn, InStep, HoldsTools
<1>3. LogInv'
  BY <1>1 DEF LogInv, logVars
<1>4. QED
  BY <1>2, <1>3 DEF Good

(* Leaving a turn with no step open appends turn/end, or nothing when an
   observer rejected it, and releases the tools and the batch. *)
LEMMA CloseTurnStep ==
    ASSUME ClosersCommit, TypeOK, DriverInv, LogInv, UNCHANGED <<phase, turn, step>>,
           pc \in InTurn \ InStep,
           NEW reason, NEW throws, NEW stops, CloseTurn(reason, throws, stops)
    PROVE  Good
<1>1. turnOpen /\ ~stepOpen
  BY DEF DriverInv
<1>2. /\ pc' = "turnClosed" /\ batch' = <<>> /\ toolSet' = FALSE
      /\ turnOpen' = FALSE /\ logStep' = 0
      /\ UNCHANGED <<logTurn, stepOpen, asked, called, answered>>
  BY DEF CloseTurn, ClosersCommit
<1>3. DriverInv'
  BY <1>1, <1>2 DEF DriverInv, InTurn, InStep
<1>4. LogInv'
  BY <1>2 DEF LogInv, InTurn, InStep
<1>5. Log!EndTurn
  BY <1>1, <1>2 DEF Log!EndTurn
<1>6. QED
  BY <1>3, <1>4, <1>5 DEF Good, Log!Next

(* The failing ways out of a turn are such a way out. *)
LEMMA FailTurnStep ==
    ASSUME ClosersCommit, TypeOK, DriverInv, LogInv, UNCHANGED <<phase, turn, step>>,
           pc \in InTurn \ InStep, FailTurn
    PROVE  Good
  BY CloseTurnStep DEF FailTurn

(* Opening a step appends step/start inside an open turn. *)
LEMMA OpenStepStep ==
    ASSUME TypeOK, DriverInv, LogInv, UNCHANGED <<phase, turn>>,
           pc \in {"intake", "admission"}, pc = "intake" => ~toolSet,
           NEW p \in {"replying", "requesting"}, NEW admission, OpenStep(p, admission)
    PROVE  Good
<1>1. turnOpen /\ ~stepOpen /\ asked = 0 /\ called = 0 /\ answered = 0
  BY DEF DriverInv, LogInv, InTurn, InStep
<1>2. /\ step' = step + 1 /\ logStep' = step + 1 /\ stepOpen' = TRUE /\ pc' = p
      /\ UNCHANGED <<logTurn, turnOpen, asked, called, answered, ending, toolSet>>
  BY DEF OpenStep
<1>3. DriverInv'
  BY <1>1, <1>2 DEF DriverInv, InTurn, InStep, HoldsTools, HoldsBatch
<1>4. LogInv'
  BY <1>1, <1>2 DEF LogInv
<1>5. Log!StartStep
  BY <1>1, <1>2 DEF Log!StartStep, LogInv
<1>6. QED
  BY <1>3, <1>4, <1>5 DEF Good, Log!Next

(* Going on to a turn's next step appends nothing and holds nothing. *)
LEMMA ContinueStep ==
    ASSUME DriverInv, LogInv, ContinueTurn, pc \in {"stepClosed", "stopping"}
    PROVE  Good
<1>1. /\ UNCHANGED <<phase, turn, step, ending, toolSet, logVars>> /\ pc' = "intake"
      /\ ~toolSet
  BY DEF ContinueTurn, phaseVars, DriverInv, HoldsTools, InStep
<1>2. QED
  BY <1>1, MoveInTurn DEF InTurn, InStep, HoldsBatch

(* Every step of turn(), preStep() and kick() keeps the invariant and appends
   at most one event the grammar allows. *)
LEMMA TurnStep == ASSUME ClosersCommit, TypeOK, DriverInv, LogInv, Turn PROVE Good
<1>1. CASE OpenTurn
  <2>1. pc = "reserved" /\ step = 0 /\ ~turnOpen /\ ~stepOpen /\ ~toolSet /\ batch = <<>>
    BY <1>1 DEF OpenTurn, At, DriverInv, InTurn, InStep, HoldsTools, HoldsBatch
  <2>2. UNCHANGED <<phase, step, toolSet, batch>>
    BY <1>1 DEF OpenTurn
  <2>3. CASE /\ logTurn' = turn + 1 /\ turnOpen' = TRUE /\ logStep' = 0 /\ stepOpen' = FALSE
             /\ asked' = 0 /\ called' = 0 /\ answered' = 0
             /\ turn' = turn + 1 /\ pc' = "opened"
    <3>1. DriverInv'
      BY <2>1, <2>2, <2>3 DEF DriverInv, InTurn, InStep
    <3>2. LogInv'
      BY <2>1, <2>2, <2>3 DEF LogInv
    <3>3. Log!StartTurn
      BY <2>1, <2>3 DEF Log!StartTurn, LogInv
    <3>4. QED
      BY <3>1, <3>2, <3>3 DEF Good, Log!Next
  <2>4. CASE pc' = "retire" /\ UNCHANGED <<logVars, turn, ending>>
    <3>1. DriverInv'
      BY <2>1, <2>2, <2>4 DEF DriverInv, InTurn, InStep, logVars
    <3>2. LogInv'
      BY <2>1, <2>2, <2>4 DEF LogInv, logVars
    <3>3. QED
      BY <2>4, <3>1, <3>2 DEF Good
  <2>5. QED
    BY <1>1, <2>3, <2>4 DEF OpenTurn
<1>2. CASE ClaimFirst
  <2>1. pc = "opened" /\ ~toolSet
    BY <1>2 DEF ClaimFirst, At, DriverInv, HoldsTools, InStep
  <2>2. CASE FailTurn /\ UNCHANGED <<inbox, phaseVars>>
    BY <2>1, <2>2, FailTurnStep DEF phaseVars, InTurn, InStep
  <2>3. CASE /\ pc' \in {"claimTurn", "intake"}
             /\ UNCHANGED <<phaseVars, ending, toolSet, logVars>>
    BY <2>1, <2>3, MoveInTurn DEF phaseVars, InTurn, InStep, HoldsBatch
  <2>4. QED
    BY <1>2, <2>2, <2>3 DEF ClaimFirst, ClaimTurn
<1>3. CASE ClaimPrompt
  <2>1. pc = "claimTurn" /\ pc' = "intake" /\ ~toolSet
        /\ UNCHANGED <<phaseVars, ending, toolSet, logVars>>
    BY <1>3 DEF ClaimPrompt, ClaimTurn, At, DriverInv, HoldsTools, InStep
  <2>2. QED
    BY <2>1, MoveInTurn DEF phaseVars, InTurn, InStep, HoldsBatch
<1>4. CASE IntakePasses
  <2>1. pc = "intake" /\ pc' = "prepare" /\ ~toolSet
        /\ UNCHANGED <<phaseVars, ending, toolSet, logVars>>
    BY <1>4 DEF IntakePasses, At, DriverInv, HoldsTools, InStep
  <2>2. QED
    BY <2>1, MoveInTurn DEF phaseVars, InTurn, InStep, HoldsBatch
<1>5. CASE IntakeReplies
  <2>1. pc = "intake" /\ ~toolSet /\ UNCHANGED <<phase, turn>>
    BY <1>5 DEF IntakeReplies, UnchangedPhase, At, DriverInv, HoldsTools, InStep
  <2>2. CASE OpenStep("replying", batch)
    BY <2>1, <2>2, OpenStepStep
  <2>3. CASE VetoStep
    BY <2>1, <2>3, FailTurnStep DEF VetoStep, InTurn, InStep
  <2>4. QED
    BY <1>5, <2>2, <2>3 DEF IntakeReplies
<1>6. CASE LogReply
  <2>1. /\ pc = "replying" /\ pc' = "closeStep"
        /\ UNCHANGED <<phase, turn, step, toolSet, logVars>>
    BY <1>6 DEF LogReply, At, phaseVars
  <2>2. QED
    BY <2>1, MoveInStep DEF InStep, HoldsBatch
<1>7. CASE ResolveTools
  <2>1. /\ pc = "prepare" /\ pc' = "admission" /\ toolSet' = TRUE
        /\ UNCHANGED <<phase, turn, step, batch, ending, logVars>>
    BY <1>7 DEF ResolveTools, At, phaseVars
  <2>2. DriverInv'
    BY <2>1 DEF DriverInv, logVars, InTurn, InStep, HoldsTools, HoldsBatch
  <2>3. LogInv'
    BY <2>1 DEF LogInv, logVars
  <2>4. QED
    BY <2>1, <2>2, <2>3 DEF Good
<1>8. CASE RejectStep
  BY <1>8, CloseTurnStep DEF RejectStep, At, phaseVars, InTurn, InStep
<1>9. ASSUME NEW keep \in BOOLEAN, NEW extra \in BOOLEAN, EnterStep(keep, extra)
      PROVE  Good
  <2>1. pc = "admission" /\ UNCHANGED <<phase, turn>>
    BY <1>9 DEF EnterStep, At, UnchangedPhase
  <2>2. ASSUME NEW reason, NEW stops, CloseTurn(reason, FALSE, stops), UNCHANGED step
        PROVE  Good
    BY <2>1, <2>2, CloseTurnStep DEF InTurn, InStep
  <2>3. ASSUME NEW admission, OpenStep("requesting", admission)
        PROVE  Good
    BY <2>1, <2>3, OpenStepStep
  <2>4. CASE VetoStep
    BY <2>1, <2>4, FailTurnStep DEF VetoStep, InTurn, InStep
  <2>5. QED
    BY <1>9, <2>2, <2>3, <2>4 DEF EnterStep
<1>10. ASSUME NEW p \in Hook, HookFails(p)
       PROVE  Good
  BY <1>10, FailTurnStep DEF HookFails, Hook, At, phaseVars, InTurn, InStep
<1>11. CASE AfterStep
  <2>1. pc = "stepClosed" /\ ~toolSet /\ batch = <<>>
    BY <1>11 DEF AfterStep, At, DriverInv, HoldsTools, HoldsBatch, InStep
  <2>2. CASE FailTurn /\ UNCHANGED phaseVars
    BY <2>1, <2>2, FailTurnStep DEF phaseVars, InTurn, InStep
  <2>3. CASE Advance("stepClosed", "stopping") /\ UNCHANGED <<ending, attempt, logVars>>
    BY <2>1, <2>3, MoveInTurn DEF Advance, phaseVars, InTurn, InStep
  <2>4. QED
    BY <1>11, <2>1, <2>2, <2>3, ContinueStep DEF AfterStep
<1>12. CASE Stopping
  <2>1. pc = "stopping"
    BY <1>12 DEF Stopping, At
  <2>2. CASE CloseTurn(ending, FALSE, FALSE) /\ UNCHANGED phaseVars
    BY <2>1, <2>2, CloseTurnStep DEF phaseVars, InTurn, InStep
  <2>3. QED
    BY <1>12, <2>1, <2>2, ContinueStep DEF Stopping
<1>13. CASE AfterTurn
  <2>1. /\ pc = "turnClosed" /\ pc' \in {"reserved", "retire"}
        /\ UNCHANGED <<phase, turn, batch, ending, toolSet, logVars>>
        /\ step' = 0 \/ pc' = "retire"
    BY <1>13 DEF AfterTurn, At
  <2>2. DriverInv'
    BY <2>1 DEF DriverInv, logVars, InTurn, InStep, HoldsTools, HoldsBatch
  <2>3. LogInv'
    BY <2>1, <2>2 DEF LogInv, DriverInv, logVars, InTurn, InStep
  <2>4. QED
    BY <2>1, <2>2, <2>3 DEF Good
<1>14. CASE Retire
  <2>1. /\ pc = "retire" /\ pc' = "off" /\ phase' = "idle" /\ ending' = None
        /\ UNCHANGED <<turn, batch, toolSet, logVars>>
    BY <1>14 DEF Retire
  <2>2. DriverInv'
    BY <2>1 DEF DriverInv, logVars, InTurn, InStep, HoldsTools, HoldsBatch
  <2>3. LogInv'
    BY <2>1, <2>2 DEF LogInv, DriverInv, logVars, InTurn, InStep
  <2>4. QED
    BY <2>1, <2>2, <2>3 DEF Good
<1>15. CASE ReplyFails
  <2>1. /\ pc = "replying" /\ pc' = "closeStep"
        /\ UNCHANGED <<phase, turn, step, toolSet, logVars>>
    BY <1>15 DEF ReplyFails, At, phaseVars
  <2>2. QED
    BY <2>1, MoveInStep DEF InStep, HoldsBatch
<1>16. QED
  BY <1>1, <1>2, <1>3, <1>4, <1>5, <1>6, <1>7, <1>8, <1>9, <1>10, <1>11, <1>12, <1>13, <1>14,
     <1>15
  DEF Turn

(* So does every step of step(): the request, the stream, the tool batch, the
   recovery of its open calls and step/end. *)
LEMMA StepStep == ASSUME ClosersCommit, TypeOK, DriverInv, LogInv, Step PROVE Good
<1>1. CASE BuildRequest
  <2>1. /\ pc = "admitting" /\ pc' = "built" /\ batch' = <<>>
        /\ UNCHANGED <<phase, turn, step, toolSet, logVars>>
    BY <1>1 DEF BuildRequest, At, phaseVars
  <2>2. QED
    BY <2>1, MoveInStep DEF InStep
<1>2. ASSUME NEW p \in InStep \ {"tools", "recover", "closeStep"},
             NEW q \in {"requesting", "admitting", "built", "streaming", "requestError",
                        "closeStep"},
             Advance(p, q), batch = <<>> \/ q \in HoldsBatch, UNCHANGED logVars
      PROVE  Good
  BY <1>2, MoveInStep DEF Advance, At, phaseVars, InStep
<1>3. CASE StartStream \/ StreamErrs
  <2>1. batch = <<>>
    BY <1>3 DEF StartStream, StreamErrs, Advance, At, DriverInv, HoldsBatch
  <2>2. QED
    BY <1>2, <1>3, <2>1 DEF StartStream, StreamErrs, InStep
<1>4. CASE Retry
  BY <1>2, <1>4 DEF Retry, InStep, HoldsBatch
<1>5. ASSUME NEW result \in {"completed", "max-tokens"}, StreamAnswers(result)
      PROVE  Good
  BY <1>2, <1>5 DEF StreamAnswers, Settle, InStep, HoldsBatch
<1>6. ASSUME NEW n \in 1..MaxCalls, StreamAsks(n)
      PROVE  Good
  <2>1. /\ pc = "streaming" /\ pc' = "tools" /\ asked' = n /\ batch' = batch
        /\ UNCHANGED <<phase, turn, step, toolSet, logTurn, turnOpen, logStep, stepOpen,
                       called, answered>>
    BY <1>6 DEF StreamAsks, Advance, At, phaseVars
  <2>2. stepOpen /\ asked = 0 /\ called = 0 /\ answered = 0 /\ batch = <<>>
    BY <2>1 DEF DriverInv, LogInv, InStep, HoldsBatch
  <2>3. n \in Nat /\ n > 0
    BY BoundAssumption
  <2>4. DriverInv'
    BY <2>1, <2>2 DEF DriverInv, InTurn, InStep, HoldsTools
  <2>5. LogInv'
    BY <2>1, <2>2, <2>3 DEF LogInv
  <2>6. Log!Ask
    <3>1. asked + 1 = 1 /\ asked + MaxCalls = MaxCalls
      BY <2>2, BoundAssumption
    <3>2. QED
      BY <2>1, <2>2, <3>1 DEF Log!Ask
  <2>7. QED
    BY <2>4, <2>5, <2>6 DEF Good, Log!Next
<1>7. ASSUME NEW p \in StepHook, StepFails(p)
      PROVE  Good
  <2>1. /\ pc = p /\ pc' = "recover" /\ batch' = batch
        /\ UNCHANGED <<phase, turn, step, toolSet, logVars>>
    BY <1>7 DEF StepFails, Throw, At, phaseVars
  <2>2. QED
    BY <2>1, MoveInStep DEF StepHook, InStep, HoldsBatch
<1>8. CASE StartCall
  <2>1. /\ pc = "tools" /\ called < asked /\ called' = called + 1
        /\ UNCHANGED <<phase, turn, step, localVars, logTurn, turnOpen, logStep, stepOpen,
                       asked, answered>>
    BY <1>8 DEF StartCall, At, phaseVars
  <2>2. DriverInv'
    BY <2>1 DEF DriverInv, localVars
  <2>3. LogInv' /\ stepOpen /\ answered < asked
    BY <2>1 DEF LogInv, DriverInv, InStep, localVars, TypeOK, LogType
  <2>4. Log!Call
    BY <2>1, <2>3 DEF Log!Call
  <2>5. QED
    BY <2>2, <2>3, <2>4 DEF Good, Log!Next
<1>9. CASE SettleCall
  <2>1. /\ pc = "tools" /\ answered < called /\ answered' = answered + 1
        /\ UNCHANGED <<phase, turn, step, localVars, logTurn, turnOpen, logStep, stepOpen,
                       asked, called>>
    BY <1>9 DEF SettleCall, At, phaseVars
  <2>2. DriverInv'
    BY <2>1 DEF DriverInv, localVars
  <2>3. LogInv' /\ stepOpen /\ answered < asked
    BY <2>1 DEF LogInv, DriverInv, InStep, localVars, TypeOK, LogType
  <2>4. Log!Answer
    BY <2>1, <2>3 DEF Log!Answer
  <2>5. QED
    BY <2>2, <2>3, <2>4 DEF Good, Log!Next
<1>10. ASSUME pc = "tools", pc' \in {"recover", "closeStep"}, batch' = batch,
              pc' = "closeStep" => answered = asked,
              UNCHANGED <<phase, turn, step, toolSet, logVars>>
       PROVE  Good
  <2>1. DriverInv'
    BY <1>10 DEF DriverInv, logVars, InTurn, InStep, HoldsTools, HoldsBatch
  <2>2. LogInv'
    BY <1>10 DEF LogInv, logVars
  <2>3. QED
    BY <1>10, <2>1, <2>2 DEF Good
<1>11. CASE FailBatch
  BY <1>10, <1>11 DEF FailBatch, Throw, At, phaseVars
<1>12. ASSUME NEW concluded \in BOOLEAN, FinishBatch(concluded)
       PROVE  Good
  BY <1>10, <1>12 DEF FinishBatch, At, phaseVars
<1>13. CASE Recover
  <2>1. /\ pc = "recover" /\ pc' = "closeStep" /\ answered' = asked
        /\ UNCHANGED <<phase, turn, step, batch, ending, toolSet, logTurn, turnOpen, logStep,
                       stepOpen, asked, called>>
    BY <1>13 DEF Recover, At, phaseVars
  <2>2. DriverInv'
    BY <2>1 DEF DriverInv, InTurn, InStep, HoldsTools, HoldsBatch
  <2>3. LogInv'
    BY <2>1 DEF LogInv, TypeOK, LogType
  <2>4. Log!Answer \/ UNCHANGED logVars
    <3>1. CASE answered = asked
      BY <2>1, <3>1 DEF logVars
    <3>2. CASE answered < asked
      BY <2>1, <3>2 DEF Log!Answer, DriverInv, InStep
    <3>3. QED
      BY <3>1, <3>2 DEF LogInv, TypeOK, LogType
  <2>5. QED
    BY <2>2, <2>3, <2>4 DEF Good, Log!Next
<1>14. CASE CloseStep
  <2>1. /\ pc = "closeStep" /\ pc' = "stepClosed" /\ batch' = <<>> /\ toolSet' = FALSE
        /\ stepOpen' = FALSE /\ asked' = 0 /\ called' = 0 /\ answered' = 0
        /\ UNCHANGED <<phase, turn, step, ending, logTurn, turnOpen, logStep>>
    BY <1>14 DEF CloseStep, At, phaseVars, ClosersCommit
  <2>2. stepOpen /\ answered = asked
    BY <2>1 DEF DriverInv, LogInv, InStep
  <2>3. DriverInv'
    BY <2>1 DEF DriverInv, InTurn, InStep
  <2>4. LogInv'
    BY <2>1 DEF LogInv
  <2>5. Log!EndStep
    BY <2>1, <2>2 DEF Log!EndStep
  <2>6. QED
    BY <2>3, <2>4, <2>5 DEF Good, Log!Next
<1>15. CASE PrepareRequest
  BY <1>2, <1>15 DEF PrepareRequest, InStep, HoldsBatch
<1>16. ASSUME NEW p \in Admitting, Admit(p)
       PROVE  Good
  <2>1. /\ pc = p /\ pc' = p /\ UNCHANGED <<phase, turn, step, toolSet, logVars>>
    BY <1>16 DEF Admit, At, phaseVars
  <2>2. QED
    BY <2>1, MoveInStep DEF Admitting, InStep, HoldsBatch
<1>17. QED
  BY <1>1, <1>3, <1>4, <1>5, <1>6, <1>7, <1>8, <1>9, <1>11, <1>12, <1>13, <1>14, <1>15, <1>16
     DEF Step

(* So does every step of the agent. *)
LEMMA DriverStep ==
    ASSUME ClosersCommit, TypeOK, DriverInv, LogInv, [Next]_vars PROVE Good
<1>1. CASE UNCHANGED vars
  BY <1>1, QuietStep DEF vars, phaseVars
<1>2. QED
  BY <1>1, CallerStep, TurnStep, StepStep, ReturnStep, EndMaintenanceStep DEF Next

----------------------------------------------------------------------------
(* The log's brackets and the driver's locals follow the place where the
   driver waits, in every reachable state of every agent: the invariant the
   results below are read from. *)
THEOREM DriverInvariant ==
    ASSUME ClosersCommit PROVE Spec => [](DriverInv /\ LogInv)
<1>1. TypeOK /\ DriverInv /\ LogInv /\ [Next]_vars => DriverInv' /\ LogInv'
  BY DriverStep DEF Good
<1>2. QED
  BY <1>1, InitInv, TypeCorrect, PTL DEF Spec

(* An agent that is not running left nothing behind: every way out of turn()
   and step(), normal or not, releases the tools and the claimed batch and
   closes what it opened in the log. *)
THEOREM Quiescent ==
    ASSUME ClosersCommit PROVE Spec => []IdleIsQuiescent
<1>1. TypeOK /\ DriverInv => IdleIsQuiescent
  BY DEF TypeOK, LocalType, DriverInv, IdleIsQuiescent, InTurn, InStep, HoldsTools, HoldsBatch
<1>2. QED
  BY <1>1, DriverInvariant, TypeCorrect, PTL

(* The driver implements TurnLog: whatever callers, hooks, the model and the
   tools do, each of its steps appends one event the log's grammar allows, or
   none that concerns it. *)
THEOREM LogRefinement ==
    ASSUME ClosersCommit PROVE Spec => LogSpec
<1>1. Init => Log!Init
  BY InitInv
<1>2. TypeOK /\ DriverInv /\ LogInv /\ [Next]_vars => [Log!Next]_(Log!logVars)
  BY DriverStep DEF Good, logVars, Log!logVars
<1>3. QED
  BY <1>1, <1>2, TypeCorrect, DriverInvariant, PTL DEF Spec, LogSpec, Log!Spec

(* turn(): the output ceiling of any step marks the whole turn, whichever
   later steps, hooks and replies it goes through. *)
THEOREM TokensSticky ==
    ASSUME ClosersCommit PROVE Spec => MaxTokensSticky
<1> DEFINE Sticky == ending = "max-tokens" /\ ending' # ending
                        => ending' \in {"aborted", "error", "blocked"} \/ ~turnOpen
<1>1. ASSUME TypeOK, DriverInv, [Next]_vars PROVE Sticky
  <2>1. CASE UNCHANGED ending
    BY <2>1
  <2>2. CASE Caller \/ Return \/ EndMaintenance
    <3>1. CASE Caller
      BY <2>1, <3>1 DEF Caller, Send, Remove, Promote, Splice, UserCancel, Dispose, Cancel, Abort,
         StartMaintenance, localVars, HasPending
    <3>2. ASSUME NEW w, NEW rest, WakeDriver(w, rest) PROVE Sticky
      BY <2>1, <3>2 DEF WakeDriver, StartDriver, LatchWake, localVars
    <3>3. CASE Return
      BY <2>1, <3>2, <3>3 DEF Return, Wake, Steer, ClearTurn, FinishCancel, Replay, Abort, localVars
    <3>4. CASE EndMaintenance
      BY <2>1, <3>4 DEF EndMaintenance, StartDriver, localVars
    <3>5. QED
      BY <2>2, <3>1, <3>3, <3>4
  <2>3. CASE FailTurn \/ VetoStep
    BY <2>3 DEF FailTurn, VetoStep, CloseTurn
  <2>4. CASE OpenTurn \/ Retire
    BY <1>1, <2>4 DEF OpenTurn, Retire, At, DriverInv, InTurn, InStep
  <2>5. CASE RejectStep
    BY <2>5 DEF RejectStep, CloseTurn
  <2>6. ASSUME NEW keep \in BOOLEAN, NEW extra \in BOOLEAN, EnterStep(keep, extra)
        PROVE  Sticky
    BY <2>3, <2>6 DEF EnterStep, OpenStep, CloseTurn, None
  <2>7. CASE LogReply \/ \E concluded \in BOOLEAN : FinishBatch(concluded)
    BY <2>7 DEF LogReply, FinishBatch, Settle
  <2>8. CASE \E result \in {"completed", "max-tokens"} : StreamAnswers(result)
    BY <2>8 DEF StreamAnswers, Settle
  <2>9. CASE Stopping
    BY <2>9 DEF Stopping, CloseTurn, ContinueTurn
  <2>10. CASE AfterStep
    BY <2>3, <2>10 DEF AfterStep, ContinueTurn
  <2>11. CASE \/ ClaimFirst \/ ClaimPrompt \/ IntakePasses \/ ResolveTools \/ AfterTurn
              \/ ReplyFails
    BY <2>3, <2>11 DEF ClaimFirst, ClaimPrompt, IntakePasses, ResolveTools, AfterTurn, ReplyFails
  <2>12. CASE IntakeReplies
    BY <2>3, <2>12 DEF IntakeReplies, OpenStep
  <2>13. CASE \E p \in Hook : HookFails(p)
    BY <2>3, <2>13 DEF HookFails
  <2>14. ASSUME Step, ~(\E concluded \in BOOLEAN : FinishBatch(concluded)),
                ~(\E result \in {"completed", "max-tokens"} : StreamAnswers(result))
         PROVE  UNCHANGED ending
    BY <2>14 DEF Step, Admit, PrepareRequest, BuildRequest, StartStream, StreamErrs, Retry,
       StreamAsks, StepFails, Throw, StartCall, SettleCall, FailBatch, Recover, CloseStep, localVars
  <2>15. QED
    BY <1>1, <2>1, <2>2, <2>3, <2>4, <2>5, <2>6, <2>7, <2>8, <2>9, <2>10, <2>11, <2>12, <2>13,
       <2>14 DEF Next, Turn, vars, localVars
<1>2. QED
  BY <1>1, TypeCorrect, DriverInvariant, PTL DEF Spec, MaxTokensSticky

----------------------------------------------------------------------------
(* The call stack: pushing and popping a frame.                            *)

(* What a call pushed on the stack owes for the stack to keep LatchInv's facts
   about late sends. *)
LEMMA PushLate ==
    ASSUME NEW f \in Frame, NEW q \in Seq(Frame)
    PROVE  /\ NoLate(<<f>> \o q) <=> ~LateFrame(f) /\ NoLate(q)
           /\ NoLateBelowKick(<<f>> \o q)
                <=> NoLateBelowKick(q) /\ (f.op = "kick" => NoLate(q))
<1> DEFINE s == <<f>> \o q
<1>1. /\ Len(s) = Len(q) + 1 /\ Len(q) \in Nat
      /\ DOMAIN s = 1..(Len(q) + 1) /\ DOMAIN q = 1..Len(q)
  OBVIOUS
<1>2. s[1] = f /\ \A i \in DOMAIN q : s[i + 1] = q[i]
  OBVIOUS
<1>3. \A i \in DOMAIN s : i = 1 \/ (i - 1 \in DOMAIN q /\ s[i] = q[i - 1])
  BY <1>1, <1>2
<1>4. \A i \in DOMAIN q : i + 1 \in DOMAIN s /\ 1 < i + 1
  BY <1>1
<1>5. 1 \in DOMAIN s
  BY <1>1
<1> HIDE DEF s
<1>6. NoLate(s) <=> ~LateFrame(f) /\ NoLate(q)
  BY <1>2, <1>3, <1>4, <1>5 DEF NoLate
<1>7. ASSUME NoLateBelowKick(s)
      PROVE  NoLateBelowKick(q) /\ (f.op = "kick" => NoLate(q))
  <2>1. \A i, j \in DOMAIN q : i < j => i + 1 < j + 1
    BY <1>1
  <2>2. NoLateBelowKick(q)
    BY <1>2, <1>4, <1>7, <2>1 DEF NoLateBelowKick
  <2>3. f.op = "kick" => NoLate(q)
    BY <1>2, <1>4, <1>5, <1>7 DEF NoLateBelowKick, NoLate
  <2>4. QED
    BY <2>2, <2>3
<1>8. ASSUME NoLateBelowKick(q), f.op = "kick" => NoLate(q)
      PROVE  NoLateBelowKick(s)
  <2> SUFFICES ASSUME NEW i \in DOMAIN s, NEW j \in DOMAIN s, s[i].op = "kick", i < j
               PROVE  ~LateFrame(s[j])
    BY DEF NoLateBelowKick
  <2>1. j # 1 /\ j - 1 \in DOMAIN q /\ s[j] = q[j - 1]
    BY <1>1, <1>3 DEF s
  <2>2. CASE i = 1
    BY <1>2, <1>8, <2>1, <2>2 DEF NoLate
  <2>3. CASE i # 1
    <3>1. i - 1 \in DOMAIN q /\ s[i] = q[i - 1] /\ i - 1 < j - 1
      BY <1>1, <1>3, <2>3 DEF s
    <3>2. QED
      BY <1>8, <2>1, <3>1 DEF NoLateBelowKick
  <2>4. QED
    BY <2>2, <2>3
<1>9. QED
  BY <1>6, <1>7, <1>8 DEF s

(* The same, read from a stack whose top call returns. *)
LEMMA PopLate ==
    ASSUME NEW q \in Seq(Frame), q # <<>>
    PROVE  /\ NoLate(q) <=> ~LateFrame(Head(q)) /\ NoLate(Tail(q))
           /\ NoLateBelowKick(q)
                <=> NoLateBelowKick(Tail(q)) /\ (Head(q).op = "kick" => NoLate(Tail(q)))
<1>1. Head(q) \in Frame /\ Tail(q) \in Seq(Frame)
  BY FrontType
<1>2. q = <<Head(q)>> \o Tail(q)
  OBVIOUS
<1>3. QED
  BY <1>1, <1>2, PushLate, ZenonT(60)

----------------------------------------------------------------------------
(* LatchInv is inductive.                                                  *)

(* A fresh agent has no latched wake and no call on its stack. *)
LEMMA LatchInit == Init => LatchInv
  BY DEF Init, LatchInv, LatchBehindActivity, NoLate, NoLateBelowKick

(* A step that starts or ends no activity, adds no latch and leaves the call
   stack as it was, or pops or pushes a frame other than "kick". *)
LEMMA LatchKept ==
    ASSUME TypeOK, LatchInv, phase' = phase, abort' = abort \/ (abort' # None /\ phase # "idle"),
           wakeRequested' => wakeRequested \/ (phase = "maintenance" \/ abort # None),
           phase = "idle" => ~wakeRequested',
           \/ stack' = stack
           \/ stack # <<>> /\ stack' = Tail(stack)
           \/ \E f \in Frame : /\ stack' = <<f>> \o stack
                               /\ f.op # "kick" /\ (LateFrame(f) => abort # None /\ phase # "idle")
           \/ \E f \in Frame : /\ stack # <<>> /\ stack' = <<f>> \o Tail(stack)
                               /\ f.op # "kick" /\ (LateFrame(f) => abort # None /\ phase # "idle")
    PROVE  LatchInv'
<1>1. stack \in Seq(Frame)
  BY DEF TypeOK
<1>2. phase' = "idle" => abort' = None
  BY DEF LatchInv
<1>3. LatchBehindActivity'
  BY DEF LatchInv, LatchBehindActivity, TypeOK, PhaseType
<1>4. NoLateBelowKick(stack') /\ (NoLate(stack) =>
         NoLate(stack') \/ (abort # None /\ phase # "idle"))
  <2>1. NoLateBelowKick(stack)
    BY DEF LatchInv
  <2>2. CASE stack' = stack
    BY <2>1, <2>2
  <2>3. CASE stack # <<>> /\ stack' = Tail(stack)
    BY <1>1, <2>1, <2>3, PopLate
  <2>4. ASSUME NEW f \in Frame, stack' = <<f>> \o stack,
               f.op # "kick" /\ (LateFrame(f) => abort # None /\ phase # "idle")
        PROVE  NoLateBelowKick(stack') /\ (NoLate(stack) =>
                  NoLate(stack') \/ (abort # None /\ phase # "idle"))
    BY <1>1, <2>1, <2>4, PushLate
  <2>5. ASSUME NEW f \in Frame, stack # <<>>, stack' = <<f>> \o Tail(stack),
               f.op # "kick" /\ (LateFrame(f) => abort # None /\ phase # "idle")
        PROVE  NoLateBelowKick(stack') /\ (NoLate(stack) =>
                  NoLate(stack') \/ (abort # None /\ phase # "idle"))
    <3>1. Tail(stack) \in Seq(Frame)
      BY <1>1, <2>5, FrontType
    <3>2. QED
      BY <1>1, <2>1, <2>5, <3>1, PushLate, PopLate
  <2>6. QED
    BY <2>2, <2>3, <2>4, <2>5
<1>5. NoLate(stack') \/ (abort' # None /\ phase' # "idle")
  <2>1. abort # None => abort' # None
    OBVIOUS
  <2>2. CASE NoLate(stack)
    BY <1>4, <2>1, <2>2
  <2>3. CASE abort # None /\ phase # "idle"
    BY <2>1, <2>3
  <2>4. QED
    BY <2>2, <2>3 DEF LatchInv
<1>6. QED
  BY <1>2, <1>3, <1>4, <1>5 DEF LatchInv

(* A driver starts with a fresh controller and above no late send. *)
LEMMA LatchStart ==
    ASSUME TypeOK, NEW rest \in Seq(Frame), StartDriver(rest), NoLate(rest), NoLateBelowKick(rest)
    PROVE  LatchInv'
<1>1. Kick \in Frame /\ Kick.op = "kick" /\ ~LateFrame(Kick)
  BY DEF Kick, Frame, LateFrame
<1>2. NoLate(stack') /\ NoLateBelowKick(stack')
  BY <1>1, PushLate DEF StartDriver
<1>3. QED
  BY <1>2 DEF LatchInv, LatchBehindActivity, StartDriver

(* wakeDriver latches only for a late send, and a late send only reaches it
   while the aborted activity it met is still there. *)
LEMMA LatchWakeStep ==
    ASSUME TypeOK, LatchInv, stack # <<>>, NEW w \in BOOLEAN,
           w => abort # None, WakeDriver(w, Tail(stack))
    PROVE  LatchInv'
<1>1. stack \in Seq(Frame) /\ Tail(stack) \in Seq(Frame)
  BY FrontType DEF TypeOK
<1>2. CASE phase = "idle" /\ StartDriver(Tail(stack))
  <2>1. NoLate(Tail(stack)) /\ NoLateBelowKick(Tail(stack))
    BY <1>1, <1>2, PopLate DEF LatchInv
  <2>2. QED
    BY <1>1, <1>2, <2>1, LatchStart
<1>3. CASE phase # "idle" /\ LatchWake(w) /\ stack' = Tail(stack)
  BY <1>3, LatchKept DEF LatchWake
<1>4. QED
  BY <1>2, <1>3 DEF WakeDriver

(* A caller's operation (send, remove, steer, cancel, runMaintenance) keeps
   LatchInv. *)
LEMMA LatchCaller == ASSUME TypeOK, LatchInv, Caller PROVE LatchInv'
<1>1. ASSUME NEW m \in Message, NEW target \in Target, NEW wakeup \in BOOLEAN,
             Send(m, target, wakeup)
      PROVE  LatchInv'
  <2> DEFINE l == wakeup /\ phase # "idle" /\ abort # None
             f == [op |-> "wake", late |-> l]
  <2>1. f \in Frame /\ f.op # "kick" /\ (LateFrame(f) => abort # None /\ phase # "idle")
    BY DEF Frame, LateFrame
  <2>2. stack' = stack \/ stack' = <<f>> \o stack
    BY <1>1 DEF Send, Queue
  <2> HIDE DEF f
  <2>3. UNCHANGED <<phase, abort, wakeRequested>>
    BY <1>1 DEF Send, phaseVars
  <2>4. phase = "idle" => ~wakeRequested'
    BY <2>3 DEF LatchInv, LatchBehindActivity
  <2>5. QED
    BY <2>1, <2>2, <2>3, <2>4, LatchKept
<1>2. ASSUME NEW target \in Target, NEW i \in DOMAIN inbox[target], Remove(target, i)
      PROVE  LatchInv'
  BY <1>2, LatchKept DEF Remove, Splice, phaseVars, LatchInv, LatchBehindActivity
<1>3. ASSUME NEW cause \in Cause, NEW keepInbox \in BOOLEAN, Cancel(cause, keepInbox)
      PROVE  LatchInv'
  <2>1. ASSUME NEW op \in {"clear", "abort"}
        PROVE  [op |-> op, cause |-> cause] \in Frame /\ [op |-> op, cause |-> cause].op # "kick"
               /\ ~LateFrame([op |-> op, cause |-> cause])
    BY DEF Frame, LateFrame
  <2>2. phase = "idle" => ~wakeRequested
    BY DEF LatchInv, LatchBehindActivity
  <2>3. CASE Abort(cause, keepInbox) /\ UNCHANGED stack
    BY <2>2, <2>3, LatchKept DEF Abort, Cause, None
  <2>4. ASSUME NEW op \in {"clear", "abort"}, Push([op |-> op, cause |-> cause]),
               UNCHANGED phaseVars
        PROVE  LatchInv'
    BY <2>1, <2>2, <2>4, LatchKept DEF Push, phaseVars
  <2>5. QED
    BY <1>3, <2>3, <2>4 DEF Cancel, HasPending
<1>4. ASSUME NEW keepInbox \in BOOLEAN, UserCancel(keepInbox) \/ Dispose(keepInbox)
      PROVE  LatchInv'
  BY <1>3, <1>4 DEF UserCancel, Dispose, Cause
<1>5. CASE StartMaintenance
  BY <1>5 DEF StartMaintenance, LatchInv, LatchBehindActivity
<1>6. ASSUME NEW i \in DOMAIN inbox["next-turn"], Promote(i)
      PROVE  LatchInv'
  <2> DEFINE f == [op |-> "steer", prompt |-> inbox["next-turn"][i]]
  <2>1. inbox["next-turn"][i] \in Message
    BY ElementOfSeq DEF TypeOK, Target
  <2>2. f \in Frame /\ f.op # "kick" /\ ~LateFrame(f)
    BY <2>1 DEF Frame, LateFrame
  <2>3. stack' = <<f>> \o stack /\ UNCHANGED <<phase, abort, wakeRequested>>
    BY <1>6 DEF Promote, Push, Splice, phaseVars
  <2> HIDE DEF f
  <2>4. phase = "idle" => ~wakeRequested'
    BY <2>3 DEF LatchInv, LatchBehindActivity
  <2>5. QED
    BY <2>2, <2>3, <2>4, LatchKept
<1>7. QED
  BY <1>1, <1>2, <1>4, <1>5, <1>6 DEF Caller

(* So does the rest of an interrupted one. *)
LEMMA LatchReturn == ASSUME TypeOK, LatchInv, Return PROVE LatchInv'
<1>1. phase = "idle" => ~wakeRequested
  BY DEF LatchInv, LatchBehindActivity
<1>2. CASE Wake
  <2>1. stack # <<>> /\ Head(stack).op = "wake" /\ Head(stack) \in Frame
    BY <1>2, FrontType DEF Wake, Top, TypeOK
  <2>2. Head(stack).late \in BOOLEAN
    BY <2>1 DEF Frame
  <2>3. Head(stack).late => abort # None
    BY <2>1, PopLate DEF LateFrame, LatchInv, TypeOK
  <2>4. QED
    BY <1>2, <2>1, <2>2, <2>3, LatchWakeStep DEF Wake
<1>3. ASSUME Top("clear") \/ Top("abort")
      PROVE  stack # <<>> /\ Head(stack).cause \in Cause
  BY <1>3, FrontType DEF Top, Frame, TypeOK
<1>4. CASE ClearTurn
  <2> DEFINE cause == Head(stack).cause
             f == [op |-> "abort", cause |-> cause]
  <2>1. stack # <<>> /\ cause \in Cause
    BY <1>3, <1>4 DEF ClearTurn
  <2>2. f \in Frame /\ f.op # "kick" /\ ~LateFrame(f)
    BY <2>1 DEF Frame, LateFrame
  <2>3. CASE Abort(cause, FALSE) /\ stack' = Tail(stack)
    BY <1>1, <2>1, <2>3, LatchKept DEF Abort, Cause, None
  <2>4. CASE stack' = <<f>> \o Tail(stack) /\ UNCHANGED phaseVars
    <3> HIDE DEF f
    <3>1. QED
      BY <1>1, <2>1, <2>2, <2>4, LatchKept DEF phaseVars
  <2>5. QED
    BY <1>4, <2>3, <2>4 DEF ClearTurn
<1>5. CASE FinishCancel
  BY <1>1, <1>3, <1>5, LatchKept DEF FinishCancel, Abort, Cause, None
<1>6. CASE Replay
  <2>1. stack # <<>>
    BY <1>6 DEF Replay, Top
  <2>2. CASE WakeDriver(FALSE, Tail(stack))
    BY <2>1, <2>2, LatchWakeStep
  <2>3. CASE stack' = Tail(stack) /\ UNCHANGED <<phaseVars, localVars>>
    BY <1>1, <2>1, <2>3, LatchKept DEF phaseVars
  <2>4. QED
    BY <1>6, <2>2, <2>3 DEF Replay
<1>7. CASE Steer
  <2> DEFINE l == phase # "idle" /\ abort # None
             f == [op |-> "wake", late |-> l]
  <2>1. f \in Frame /\ f.op # "kick" /\ (LateFrame(f) => abort # None /\ phase # "idle")
    BY DEF Frame, LateFrame
  <2>2. stack # <<>> /\ stack' = <<f>> \o Tail(stack) /\ UNCHANGED <<phase, abort, wakeRequested>>
    BY <1>7 DEF Steer, Top, Queue, phaseVars
  <2> HIDE DEF f
  <2>3. QED
    BY <1>1, <2>1, <2>2, LatchKept
<1>8. QED
  BY <1>2, <1>4, <1>5, <1>6, <1>7 DEF Return

(* The end of a maintenance job consumes the latch. *)
LEMMA LatchEndMaintenance == ASSUME TypeOK, LatchInv, EndMaintenance PROVE LatchInv'
<1>1. stack = <<>> /\ NoLate(stack) /\ NoLateBelowKick(stack) /\ stack \in Seq(Frame)
  BY DEF EndMaintenance, NoLate, NoLateBelowKick
<1>2. CASE StartDriver(stack)
  BY <1>1, <1>2, LatchStart
<1>3. CASE /\ phase' = "idle" /\ abort' = None /\ wakeRequested' = FALSE
           /\ UNCHANGED stack
  BY <1>1, <1>3 DEF LatchInv, LatchBehindActivity
<1>4. QED
  BY <1>2, <1>3 DEF EndMaintenance

(* The driver's own steps: only AfterTurn and Retire touch the latch. *)
LEMMA LatchDriver == ASSUME TypeOK, LatchInv, Turn \/ Step PROVE LatchInv'
<1>1. phase = "idle" => ~wakeRequested
  BY DEF LatchInv, LatchBehindActivity
<1>2. ASSUME UNCHANGED <<phase, abort, wakeRequested>>, Leave \/ Stay
      PROVE  LatchInv'
  BY <1>1, <1>2, LatchKept DEF Leave, Stay, Top
<1>3. CASE AfterTurn
  <2>1. CASE abort' = None /\ wakeRequested' = FALSE /\ Stay
    <3>1. NoLate(stack)
      <4>1. CASE stack = <<>>
        BY <4>1 DEF NoLate
      <4>2. CASE Top("kick")
        BY <4>2, PopLate DEF Top, LatchInv, LateFrame, TypeOK
      <4>3. QED
        BY <1>3, <4>1, <4>2 DEF AfterTurn, At
    <3>2. QED
      BY <1>3, <2>1, <3>1 DEF AfterTurn, Stay, LatchInv, LatchBehindActivity
  <2>2. CASE Leave /\ UNCHANGED <<abort, wakeRequested>>
    BY <1>2, <1>3, <2>2 DEF AfterTurn
  <2>3. QED
    BY <1>3, <2>1, <2>2 DEF AfterTurn
<1>4. CASE Retire
  <2> DEFINE f == [op |-> "replay", latched |-> wakeRequested]
  <2>1. f \in Frame /\ f.op # "kick" /\ ~LateFrame(f)
    BY DEF Frame, LateFrame, TypeOK, PhaseType
  <2>2. NoLate(stack) /\ NoLateBelowKick(stack) /\ stack \in Seq(Frame)
    BY <1>4 DEF Retire, NoLate, NoLateBelowKick
  <2>3. stack' = <<f>> \o stack
    BY <1>4 DEF Retire, Push
  <2> HIDE DEF f
  <2>4. NoLate(stack') /\ NoLateBelowKick(stack')
    BY <2>1, <2>2, <2>3, PushLate
  <2>5. QED
    BY <1>4, <2>4 DEF Retire, LatchInv, LatchBehindActivity
<1>5. ASSUME Turn, ~AfterTurn, ~Retire
      PROVE  UNCHANGED <<phase, abort, wakeRequested>> /\ (Leave \/ Stay)
  BY <1>5 DEF Turn, OpenTurn, ClaimFirst, ClaimTurn, ClaimPrompt, IntakePasses, IntakeReplies,
     LogReply, ReplyFails, ResolveTools, RejectStep, EnterStep, HookFails, AfterStep, Stopping,
     ContinueTurn, Advance, UnchangedPhase, phaseVars, Stay
<1>6. ASSUME Step PROVE UNCHANGED <<phase, abort, wakeRequested>> /\ Stay
  BY <1>6 DEF Step, Admit, PrepareRequest, BuildRequest, StartStream, StreamErrs, Retry,
     StreamAnswers, Settle, StreamAsks, StepFails, StartCall, SettleCall, FailBatch, Recover, CloseStep, FinishBatch, Advance,
     phaseVars, Stay
<1>7. QED
  BY <1>2, <1>3, <1>4, <1>5, <1>6

(* wakeDriver: no latch outlives the activity it waits for, so no stale wake
   can start a turn nobody asked for. *)
THEOREM LatchCorrect == Spec => []LatchBehindActivity
<1>1. TypeOK /\ LatchInv /\ [Next]_vars => LatchInv'
  <2> SUFFICES ASSUME TypeOK, LatchInv, [Next]_vars PROVE LatchInv'
    OBVIOUS
  <2>1. CASE UNCHANGED vars
    BY <2>1 DEF vars, phaseVars, LatchInv, LatchBehindActivity
  <2>2. QED
    BY <2>1, LatchCaller, LatchReturn, LatchEndMaintenance, LatchDriver DEF Next
<1>2. LatchInv => LatchBehindActivity
  BY DEF LatchInv
<1>3. QED
  BY <1>1, <1>2, LatchInit, TypeCorrect, PTL DEF Spec

(* However an activity ended, an agent that is not running holds no bracket,
   tool, message or wake of it. *)
THEOREM NothingStays ==
    ASSUME ClosersCommit PROVE Spec => []NothingLeft
<1>1. IdleIsQuiescent /\ LatchBehindActivity => NothingLeft
  BY DEF NothingLeft
<1>2. QED
  BY <1>1, Quiescent, LatchCorrect, PTL

(* The log keeps TurnLog's grammar and remembers an output ceiling. *)
THEOREM LogIsHonest ==
    ASSUME ClosersCommit PROVE Spec => LogHonest
<1>1. QED
  BY LogRefinement, TokensSticky, PTL DEF LogHonest

----------------------------------------------------------------------------
(* Lists without repetitions.                                              *)

(* A list that a splice or a claim emptied holds nothing. *)
LEMMA EmptyList == Elems(<<>>) = {} /\ Distinct(<<>>)
  BY DEF Elems, Distinct

(* A list that holds something is not empty. *)
LEMMA NonEmpty ==
    ASSUME NEW S, NEW q \in Seq(S), q # <<>>
    PROVE  Elems(q) # {}
<1>1. 1 \in DOMAIN q
  OBVIOUS
<1>2. QED
  BY <1>1 DEF Elems

(* Appending a message the list does not hold adds just that message. *)
LEMMA AppendList ==
    ASSUME NEW S, NEW q \in Seq(S), NEW m \in S
    PROVE  /\ Elems(Append(q, m)) = Elems(q) \cup {m}
           /\ Distinct(q) /\ m \notin Elems(q) => Distinct(Append(q, m))
<1> DEFINE r == Append(q, m)
<1>1. /\ Len(q) \in Nat /\ DOMAIN q = 1..Len(q) /\ DOMAIN r = 1..(Len(q) + 1)
      /\ r[Len(q) + 1] = m /\ \A i \in DOMAIN q : r[i] = q[i]
  OBVIOUS
<1>2. \A i \in DOMAIN r : i = Len(q) + 1 \/ i \in DOMAIN q
  BY <1>1
<1>3. Len(q) + 1 \in DOMAIN r /\ DOMAIN q \subseteq DOMAIN r
  BY <1>1
<1> HIDE DEF r
<1>4. Elems(r) = Elems(q) \cup {m}
  BY <1>1, <1>2, <1>3 DEF Elems
<1>5. ASSUME Distinct(q), m \notin Elems(q) PROVE Distinct(r)
  <2>1. \A i \in DOMAIN q : q[i] # m
    BY <1>5 DEF Elems
  <2>2. QED
    BY <1>1, <1>2, <1>5, <2>1 DEF Distinct
<1>6. QED
  BY <1>4, <1>5 DEF r

(* The head of a list without repetitions is not in its tail. *)
LEMMA HeadTail ==
    ASSUME NEW S, NEW q \in Seq(S), q # <<>>
    PROVE  /\ Elems(q) = {Head(q)} \cup Elems(Tail(q))
           /\ Distinct(q) => Distinct(Tail(q)) /\ Head(q) \notin Elems(Tail(q))
<1> DEFINE r == Tail(q)
<1>1. /\ Len(q) \in Nat /\ Len(q) > 0 /\ DOMAIN q = 1..Len(q) /\ DOMAIN r = 1..(Len(q) - 1)
      /\ Head(q) = q[1] /\ \A i \in DOMAIN r : r[i] = q[i + 1]
  OBVIOUS
<1>2. /\ \A i \in DOMAIN q : i = 1 \/ (i - 1 \in DOMAIN r /\ q[i] = r[i - 1])
      /\ \A i \in DOMAIN r : i + 1 \in DOMAIN q /\ i + 1 # 1
      /\ \A i, j \in DOMAIN r : i + 1 = j + 1 => i = j
      /\ 1 \in DOMAIN q
  BY <1>1
<1> HIDE DEF r
<1>3. Elems(q) = {Head(q)} \cup Elems(r)
  <2>1. ASSUME NEW x \in Elems(q) PROVE x \in {Head(q)} \cup Elems(r)
    <3>1. PICK i \in DOMAIN q : x = q[i]
      BY DEF Elems
    <3>2. QED
      BY <1>1, <1>2, <3>1 DEF Elems
  <2>2. {Head(q)} \cup Elems(r) \subseteq Elems(q)
    BY <1>1, <1>2 DEF Elems
  <2>3. QED
    BY <2>1, <2>2
<1>4. ASSUME Distinct(q) PROVE Distinct(r) /\ Head(q) \notin Elems(r)
  <2>1. Distinct(r)
    BY <1>1, <1>2, <1>4 DEF Distinct
  <2>2. Head(q) \notin Elems(r)
    BY <1>1, <1>2, <1>4 DEF Distinct, Elems
  <2>3. QED
    BY <2>1, <2>2
<1>5. QED
  BY <1>3, <1>4 DEF r

(* Splicing one message out of a list without repetitions removes it. *)
LEMMA SpliceList ==
    ASSUME NEW S, NEW q \in Seq(S), NEW i \in DOMAIN q, Distinct(q)
    PROVE  LET r == SubSeq(q, 1, i - 1) \o SubSeq(q, i + 1, Len(q))
           IN  Elems(r) = Elems(q) \ {q[i]} /\ Distinct(r)
<1> DEFINE front == SubSeq(q, 1, i - 1)
           back == SubSeq(q, i + 1, Len(q))
           r == front \o back
<1>1. Len(q) \in Nat /\ DOMAIN q = 1..Len(q) /\ i \in 1..Len(q)
  OBVIOUS
<1>a. front \in Seq(S) /\ Len(front) = i - 1 /\ \A k \in 1..(i - 1) : front[k] = q[k]
  BY <1>1
<1>b. back \in Seq(S) /\ Len(back) = Len(q) - i /\ \A k \in 1..(Len(q) - i) : back[k] = q[i + k]
  BY <1>1
<1> HIDE DEF front, back
<1>2. r \in Seq(S) /\ Len(r) = Len(q) - 1 /\ DOMAIN r = 1..(Len(q) - 1)
  <2>1. r \in Seq(S) /\ Len(r) = Len(front) + Len(back)
    BY <1>a, <1>b, ConcatProperties
  <2> HIDE DEF r
  <2>2. Len(r) = Len(q) - 1
    BY <1>1, <1>a, <1>b, <2>1
  <2>3. QED
    BY <2>1, <2>2
<1>3. \A k \in 1..(Len(q) - 1) : r[k] = IF k < i THEN q[k] ELSE q[k + 1]
  <2> SUFFICES ASSUME NEW k \in 1..(Len(q) - 1) PROVE r[k] = IF k < i THEN q[k] ELSE q[k + 1]
    OBVIOUS
  <2>1. r[k] = IF k <= Len(front) THEN front[k] ELSE back[k - Len(front)]
    BY <1>1, <1>a, <1>b, ConcatProperties
  <2>2. CASE k < i
    <3>1. k \in 1..(i - 1) /\ k <= Len(front)
      BY <1>1, <1>a, <2>2
    <3> HIDE DEF r
    <3>2. QED
      BY <1>a, <2>1, <2>2, <3>1
  <2>3. CASE ~(k < i)
    <3>1. k - (i - 1) \in 1..(Len(q) - i) /\ i + (k - (i - 1)) = k + 1 /\ ~(k <= Len(front))
      BY <1>1, <1>a, <2>3
    <3> HIDE DEF r
    <3>2. QED
      BY <1>a, <1>b, <2>1, <2>3, <3>1
  <2>4. QED
    BY <2>2, <2>3
<1> HIDE DEF r
<1>4. /\ \A k \in DOMAIN r : (k < i /\ k \in DOMAIN q /\ r[k] = q[k])
                             \/ (~(k < i) /\ k + 1 \in DOMAIN q /\ k + 1 # i /\ r[k] = q[k + 1])
      /\ \A k \in DOMAIN q : \/ k = i
                             \/ k < i /\ k \in DOMAIN r /\ r[k] = q[k]
                             \/ k > i /\ k - 1 \in DOMAIN r /\ r[k - 1] = q[k]
  <2>1. ASSUME NEW k \in DOMAIN r
        PROVE  \/ k < i /\ k \in DOMAIN q /\ r[k] = q[k]
               \/ ~(k < i) /\ k + 1 \in DOMAIN q /\ k + 1 # i /\ r[k] = q[k + 1]
    <3>1. k \in 1..(Len(q) - 1)
      BY <1>2
    <3>2. r[k] = IF k < i THEN q[k] ELSE q[k + 1]
      BY <1>3, <3>1
    <3>3. QED
      BY <1>1, <3>1, <3>2
  <2>2. ASSUME NEW k \in DOMAIN q
        PROVE  \/ k = i
               \/ k < i /\ k \in DOMAIN r /\ r[k] = q[k]
               \/ k > i /\ k - 1 \in DOMAIN r /\ r[k - 1] = q[k]
    <3>1. CASE k < i
      <4>1. k \in 1..(Len(q) - 1)
        BY <1>1, <3>1
      <4>2. QED
        BY <1>2, <1>3, <3>1, <4>1
    <3>2. CASE k > i
      <4>1. k - 1 \in 1..(Len(q) - 1) /\ ~(k - 1 < i) /\ (k - 1) + 1 = k
        BY <1>1, <3>2
      <4>2. r[k - 1] = q[k]
        BY <1>3, <4>1
      <4>3. QED
        BY <1>2, <3>2, <4>1, <4>2
    <3>3. QED
      BY <1>1, <3>1, <3>2
  <2>3. QED
    BY <2>1, <2>2
<1>5. \A k \in DOMAIN r : k < i => k # i
  BY <1>1, <1>2
<1>6. Elems(r) \subseteq Elems(q) \ {q[i]}
  BY <1>1, <1>4, <1>5 DEF Elems, Distinct
<1>7. Elems(q) \ {q[i]} \subseteq Elems(r)
  BY <1>4 DEF Elems
<1>8. Distinct(r)
  <2> SUFFICES ASSUME NEW k \in DOMAIN r, NEW l \in DOMAIN r, r[k] = r[l] PROVE k = l
    BY DEF Distinct
  <2>1. \/ k < i /\ l < i /\ k \in DOMAIN q /\ l \in DOMAIN q /\ q[k] = q[l]
        \/ k < i /\ ~(l < i) /\ k \in DOMAIN q /\ l + 1 \in DOMAIN q /\ q[k] = q[l + 1]
        \/ ~(k < i) /\ l < i /\ k + 1 \in DOMAIN q /\ l \in DOMAIN q /\ q[k + 1] = q[l]
        \/ ~(k < i) /\ ~(l < i) /\ k + 1 \in DOMAIN q /\ l + 1 \in DOMAIN q /\ q[k + 1] = q[l + 1]
    BY <1>4
  <2>2. k \in Int /\ l \in Int /\ i \in Int
    BY <1>1, <1>2
  <2>3. QED
    BY <2>1, <2>2 DEF Distinct
<1>9. QED
  BY <1>6, <1>7, <1>8 DEF r, front, back

----------------------------------------------------------------------------
(* The call stack.                                                         *)

(* A frame pushed on the call stack joins the frames below it. *)
LEMMA PushFrame ==
    ASSUME NEW f \in Frame, NEW q \in Seq(Frame)
    PROVE  /\ Elems(<<f>> \o q) = {f} \cup Elems(q)
           /\ Once(q) /\ (f.op \in {"kick", "steer"} => f \notin Elems(q)) => Once(<<f>> \o q)
           /\ Once(<<f>> \o q) => Once(q) /\ (f.op \in {"kick", "steer"} => f \notin Elems(q))
<1> DEFINE s == <<f>> \o q
<1>1. /\ Len(s) = Len(q) + 1 /\ Len(q) \in Nat
      /\ DOMAIN s = 1..(Len(q) + 1) /\ DOMAIN q = 1..Len(q)
  OBVIOUS
<1>2. s[1] = f /\ \A i \in DOMAIN q : s[i + 1] = q[i]
  OBVIOUS
<1>3. /\ \A i \in DOMAIN s : i = 1 \/ (i - 1 \in DOMAIN q /\ s[i] = q[i - 1])
      /\ \A i \in DOMAIN q : i + 1 \in DOMAIN s /\ i + 1 # 1
      /\ \A i, j \in DOMAIN q : i + 1 = j + 1 => i = j
      /\ \A i, j \in DOMAIN s : i - 1 = j - 1 => i = j
      /\ 1 \in DOMAIN s
  BY <1>1, <1>2
<1> HIDE DEF s
<1>4. Elems(s) = {f} \cup Elems(q)
  <2>1. ASSUME NEW x \in Elems(s) PROVE x \in {f} \cup Elems(q)
    <3>1. PICK i \in DOMAIN s : x = s[i]
      BY DEF Elems
    <3>2. QED
      BY <1>2, <1>3, <3>1 DEF Elems
  <2>2. {f} \cup Elems(q) \subseteq Elems(s)
    BY <1>2, <1>3 DEF Elems
  <2>3. QED
    BY <2>1, <2>2
<1>5. ASSUME Once(q), f.op \in {"kick", "steer"} => f \notin Elems(q) PROVE Once(s)
  <2> SUFFICES ASSUME NEW i \in DOMAIN s, NEW j \in DOMAIN s, s[i] = s[j],
                      s[i].op \in {"kick", "steer"}
               PROVE  i = j
    BY DEF Once
  <2>1. CASE i = 1 \/ j = 1
    BY <1>2, <1>3, <1>5, <2>1 DEF Elems
  <2>2. CASE i # 1 /\ j # 1
    <3>1. i - 1 \in DOMAIN q /\ j - 1 \in DOMAIN q /\ s[i] = q[i - 1] /\ s[j] = q[j - 1]
      BY <1>3, <2>2
    <3>2. i - 1 = j - 1
      BY <1>5, <3>1 DEF Once
    <3>3. QED
      BY <1>3, <3>2
  <2>3. QED
    BY <2>1, <2>2
<1>6. ASSUME Once(s) PROVE Once(q) /\ (f.op \in {"kick", "steer"} => f \notin Elems(q))
  <2>1. Once(q)
    BY <1>2, <1>3, <1>6 DEF Once
  <2>2. ASSUME f.op \in {"kick", "steer"}, f \in Elems(q) PROVE FALSE
    <3>1. PICK i \in DOMAIN q : f = q[i]
      BY <2>2 DEF Elems
    <3>2. QED
      BY <1>2, <1>3, <1>6, <2>2, <3>1 DEF Once
  <2>3. QED
    BY <2>1, <2>2
<1>7. QED
  BY <1>4, <1>5, <1>6 DEF s

(* Its top frame is what a return takes off the call stack. *)
LEMMA PopFrame ==
    ASSUME NEW q \in Seq(Frame), q # <<>>
    PROVE  /\ Head(q) \in Frame /\ Tail(q) \in Seq(Frame)
           /\ Elems(q) = {Head(q)} \cup Elems(Tail(q))
           /\ Once(q) => /\ Once(Tail(q))
                         /\ Head(q).op \in {"kick", "steer"} => Head(q) \notin Elems(Tail(q))
<1> DEFINE top == Head(q)
           below == Tail(q)
<1>1. top \in Frame /\ below \in Seq(Frame) /\ q = <<top>> \o below
  OBVIOUS
<1> HIDE DEF top, below
<1>2. /\ Elems(q) = {top} \cup Elems(below)
      /\ Once(q) => Once(below) /\ (top.op \in {"kick", "steer"} => top \notin Elems(below))
  BY <1>1, PushFrame
<1>3. QED
  BY <1>1, <1>2 DEF top, below

(* A driver's first run has one frame, and so has each promoted prompt. *)
LEMMA FrameIdentity ==
    ASSUME NEW f \in Frame, NEW g \in Frame
    PROVE  /\ f.op = "kick" /\ g.op = "kick" => f = g
           /\ f.op = "steer" /\ g.op = "steer" /\ f.prompt = g.prompt => f = g
           /\ f.op = "steer" => f.prompt \in Message
           /\ f.op \in {"clear", "abort"} => f.cause \in Cause
<1>1. f \in [op: {"kick"}] \/ f \in [op: {"wake"}, late: BOOLEAN]
      \/ f \in [op: {"steer"}, prompt: Message] \/ f \in [op: {"clear", "abort"}, cause: Cause]
      \/ f \in [op: {"replay"}, latched: BOOLEAN]
  BY DEF Frame
<1>2. g \in [op: {"kick"}] \/ g \in [op: {"wake"}, late: BOOLEAN]
      \/ g \in [op: {"steer"}, prompt: Message] \/ g \in [op: {"clear", "abort"}, cause: Cause]
      \/ g \in [op: {"replay"}, latched: BOOLEAN]
  BY DEF Frame
<1>3. f.op = "kick" => f = [op |-> "kick"]
  BY <1>1
<1>4. g.op = "kick" => g = [op |-> "kick"]
  BY <1>2
<1>5. f.op = "steer" => f = [op |-> "steer", prompt |-> f.prompt] /\ f.prompt \in Message
  BY <1>1
<1>6. g.op = "steer" => g = [op |-> "steer", prompt |-> g.prompt]
  BY <1>2
<1>7. f.op \in {"clear", "abort"} => f.cause \in Cause
  BY <1>1
<1>8. QED
  BY <1>3, <1>4, <1>5, <1>6, <1>7

(* The frames the operations push are frames. *)
LEMMA FrameKinds ==
    /\ Kick \in Frame /\ Kick.op = "kick"
    /\ \A late \in BOOLEAN : [op |-> "wake", late |-> late] \in Frame
    /\ \A m \in Message : [op |-> "steer", prompt |-> m] \in Frame
    /\ \A cause \in Cause : /\ [op |-> "clear", cause |-> cause] \in Frame
                            /\ [op |-> "abort", cause |-> cause] \in Frame
    /\ \A latched \in BOOLEAN : [op |-> "replay", latched |-> latched] \in Frame
  BY DEF Frame, Kick

----------------------------------------------------------------------------
(* One place for every message.                                            *)

(* Exactly one of six places holds a message that was sent, and none holds one
   that was not. *)
OneOf(a, b, c, d, e, f, s) ==
    /\ s <=> (a \/ b \/ c \/ d \/ e \/ f)
    /\ a => ~b /\ ~c /\ ~d /\ ~e /\ ~f
    /\ b => ~c /\ ~d /\ ~e /\ ~f
    /\ c => ~d /\ ~e /\ ~f
    /\ d => ~e /\ ~f
    /\ e => ~f

(* Where a message is, place by place. *)
Places(m) ==
    OneOf(m \in Elems(inbox["next-turn"]), m \in Elems(inbox["next-step"]), m \in Elems(batch),
          admitted[m] # 0, m \in discarded, m \in dropped, m \in sent)

(* Kept, said of the six places one by one, before a step and after it. *)
LEMMA KeptPlaces ==
    ASSUME NEW m
    PROVE  (Kept(m) <=> Places(m)) /\ (Kept(m)' <=> Places(m)')
<1>1. Kept(m) <=> Places(m)
  <2> DEFINE t == Fate(m)
  <2>1. /\ t[1] = (m \in Elems(inbox["next-turn"])) /\ t[2] = (m \in Elems(inbox["next-step"]))
        /\ t[3] = (m \in Elems(batch)) /\ t[4] = (admitted[m] # 0)
        /\ t[5] = (m \in discarded) /\ t[6] = (m \in dropped)
    BY DEF Fate
  <2> HIDE DEF t
  <2>2. Kept(m) <=> /\ \A i, j \in 1..6 : t[i] /\ t[j] => i = j
                    /\ (\E i \in 1..6 : t[i]) <=> (m \in sent)
    BY DEF Kept, t
  <2>3. 1..6 = {1, 2, 3, 4, 5, 6}
    OBVIOUS
  <2>4. (\A i, j \in 1..6 : t[i] /\ t[j] => i = j)
          <=> /\ t[1] => ~t[2] /\ ~t[3] /\ ~t[4] /\ ~t[5] /\ ~t[6]
              /\ t[2] => ~t[3] /\ ~t[4] /\ ~t[5] /\ ~t[6]
              /\ t[3] => ~t[4] /\ ~t[5] /\ ~t[6]
              /\ t[4] => ~t[5] /\ ~t[6]
              /\ t[5] => ~t[6]
    BY <2>3
  <2>5. (\E i \in 1..6 : t[i]) <=> (t[1] \/ t[2] \/ t[3] \/ t[4] \/ t[5] \/ t[6])
    BY <2>3
  <2>6. QED
    BY <2>1, <2>2, <2>4, <2>5 DEF Places, OneOf
<1>2. Kept(m)' <=> Places(m)'
  <2> DEFINE t == Fate(m)'
  <2>1. /\ t[1] = (m \in Elems(inbox["next-turn"]))' /\ t[2] = (m \in Elems(inbox["next-step"]))'
        /\ t[3] = (m \in Elems(batch))' /\ t[4] = (admitted[m] # 0)'
        /\ t[5] = (m \in discarded)' /\ t[6] = (m \in dropped)'
    BY DEF Fate
  <2> HIDE DEF t
  <2>2. Kept(m)' <=> /\ \A i, j \in 1..6 : t[i] /\ t[j] => i = j
                     /\ (\E i \in 1..6 : t[i]) <=> (m \in sent)'
    BY DEF Kept, t
  <2>3. 1..6 = {1, 2, 3, 4, 5, 6}
    OBVIOUS
  <2>4. (\A i, j \in 1..6 : t[i] /\ t[j] => i = j)
          <=> /\ t[1] => ~t[2] /\ ~t[3] /\ ~t[4] /\ ~t[5] /\ ~t[6]
              /\ t[2] => ~t[3] /\ ~t[4] /\ ~t[5] /\ ~t[6]
              /\ t[3] => ~t[4] /\ ~t[5] /\ ~t[6]
              /\ t[4] => ~t[5] /\ ~t[6]
              /\ t[5] => ~t[6]
    BY <2>3
  <2>5. (\E i \in 1..6 : t[i]) <=> (t[1] \/ t[2] \/ t[3] \/ t[4] \/ t[5] \/ t[6])
    BY <2>3
  <2>6. QED
    BY <2>1, <2>2, <2>4, <2>5 DEF Places, OneOf
<1>3. QED
  BY <1>1, <1>2

(* Conservation counts what Kept tells apart. *)
LEMMA Counting ==
    ASSUME Settled
    PROVE  Conservation
<1>1. ASSUME NEW m \in Message
      PROVE  Cardinality({i \in 1..6 : Fate(m)[i]}) = IF m \in sent THEN 1 ELSE 0
  <2> DEFINE T == {i \in 1..6 : Fate(m)[i]}
  <2>1. /\ \A i, j \in T : i = j
        /\ T # {} <=> m \in sent
    BY DEF Settled, Kept
  <2>2. CASE m \in sent
    <3>1. PICK i \in T : TRUE
      BY <2>1, <2>2
    <3>2. T = {i}
      BY <2>1, <3>1
    <3>3. QED
      BY <2>2, <3>2, FS_Singleton
  <2>3. CASE m \notin sent
    <3>1. T = {}
      BY <2>1, <2>3
    <3>2. QED
      BY <2>3, <3>1, FS_EmptySet
  <2>4. QED
    BY <2>2, <2>3
<1>2. QED
  BY <1>1 DEF Settled, Distinct, Conservation

----------------------------------------------------------------------------
(* What a step owes each part of the invariant.                            *)

(* The frames of a call stack, said of any stack, place and set of prompts. *)
StackedOn(q, p, S) ==
    /\ \A f \in Elems(q) : /\ f.op = "kick" => p \in KickPC
                           /\ f.op = "steer" => f.prompt \in S
    /\ Once(q)

(* Stacked says it of the agent's stack, before a step and after it. *)
LEMMA StackedPlaces ==
    /\ Stacked <=> StackedOn(stack, pc, discarded \cap promoted)
    /\ Stacked' <=> StackedOn(stack', pc', discarded' \cap promoted')
<1>1. Stacked <=> StackedOn(stack, pc, discarded \cap promoted)
  BY DEF Stacked, StackedOn
<1>2. Elems(stack)' = Elems(stack') /\ (Once(stack)' <=> Once(stack'))
  BY DEF Elems, Once
<1>3. Stacked' <=> StackedOn(stack', pc', discarded' \cap promoted')
  BY <1>2 DEF Stacked, StackedOn
<1>4. QED
  BY <1>1, <1>3

(* A pushed frame that is new of its kind keeps the stack in order. *)
LEMMA StackedPush ==
    ASSUME NEW q \in Seq(Frame), NEW p, NEW S, StackedOn(q, p, S), NEW f \in Frame,
           f.op = "kick" => p \in KickPC /\ \A g \in Elems(q) : g.op # "kick",
           f.op = "steer" => f.prompt \in S /\ \A g \in Elems(q) : g.op = "steer" => g.prompt # f.prompt
    PROVE  StackedOn(<<f>> \o q, p, S)
<1>1. f.op \in {"kick", "steer"} => f \notin Elems(q)
  OBVIOUS
<1>2. Elems(<<f>> \o q) = {f} \cup Elems(q)
  BY PushFrame
<1>3. Once(<<f>> \o q)
  BY <1>1, PushFrame DEF StackedOn
<1>4. QED
  BY <1>2, <1>3 DEF StackedOn

(* A frame taken off leaves a stack in order, without another of its kind. *)
LEMMA StackedPop ==
    ASSUME NEW q \in Seq(Frame), q # <<>>, NEW p, NEW S, StackedOn(q, p, S)
    PROVE  /\ StackedOn(Tail(q), p, S)
           /\ Head(q).op = "kick" => p \in KickPC /\ \A g \in Elems(Tail(q)) : g.op # "kick"
           /\ Head(q).op = "steer" =>
                /\ Head(q).prompt \in S
                /\ \A g \in Elems(Tail(q)) : g.op = "steer" => g.prompt # Head(q).prompt
<1> DEFINE f == Head(q)
           r == Tail(q)
<1>1. /\ f \in Frame /\ r \in Seq(Frame) /\ Elems(q) = {f} \cup Elems(r)
      /\ Once(r) /\ (f.op \in {"kick", "steer"} => f \notin Elems(r))
  BY PopFrame DEF StackedOn
<1>2. Elems(r) \subseteq Frame
  BY <1>1, ElemsType
<1> HIDE DEF f, r
<1>3. StackedOn(r, p, S)
  BY <1>1 DEF StackedOn
<1>4. \A g \in Elems(r) : /\ f.op = "kick" /\ g.op = "kick" => f = g
                          /\ f.op = "steer" /\ g.op = "steer" /\ f.prompt = g.prompt => f = g
  BY <1>1, <1>2, FrameIdentity
<1>5. /\ f.op = "kick" => p \in KickPC
      /\ f.op = "steer" => f.prompt \in S
  BY <1>1 DEF StackedOn
<1>6. QED
  BY <1>1, <1>3, <1>4, <1>5 DEF f, r

(* A stack stays in order while its prompts stay removed, and while a driver's
   first run, if one is on it, has not reached its first await. *)
LEMMA StackedKeeps ==
    ASSUME NEW q, NEW p, NEW S, StackedOn(q, p, S), NEW r, NEW T,
           \A f \in Elems(q) : f.op = "kick" /\ p \in KickPC => r \in KickPC,
           \A f \in Elems(q) : f.op = "steer" /\ f.prompt \in S => f.prompt \in T
    PROVE  StackedOn(q, r, T)
  BY DEF StackedOn

(* A driver that is past its first await resumes from an empty stack. *)
LEMMA PastFirstAwait ==
    ASSUME TypeOK, Stacked, stack = <<>> \/ Top("kick"), pc \notin KickPC
    PROVE  stack = <<>>
<1> SUFFICES ASSUME stack # <<>>, Head(stack).op = "kick" PROVE FALSE
  BY DEF Top
<1>1. StackedOn(stack, pc, discarded \cap promoted)
  BY StackedPlaces
<1>2. Elems(stack) = {Head(stack)} \cup Elems(Tail(stack))
  BY PopFrame DEF TypeOK
<1>3. Head(stack) \in Elems(stack)
  BY <1>2
<1>4. QED
  BY <1>1, <1>3 DEF StackedOn

(* The driver's own step on the stack: its first await takes its frame off, and
   no caller's frame moves. *)
LEMMA DriverStack ==
    ASSUME TypeOK, Stacked, stack = <<>> \/ Top("kick"), Leave \/ Stay,
           Leave \/ pc' \in KickPC \/ pc \notin KickPC,
           UNCHANGED <<discarded, promoted>>
    PROVE  /\ Stacked'
           /\ Waiting({"clear"})' <=> Waiting({"clear"})
           /\ Waiting({"clear", "abort"})' <=> Waiting({"clear", "abort"})
<1> DEFINE S == discarded \cap promoted
<1>1. StackedOn(stack, pc, S) /\ (StackedOn(stack', pc', S) => Stacked')
  BY StackedPlaces
<1> HIDE DEF S
<1>2. CASE stack = <<>>
  <2>1. stack' = <<>>
    BY <1>2 DEF Leave, Stay, Top
  <2>2. StackedOn(<<>>, pc', S)
    BY EmptyList DEF StackedOn, Once
  <2>3. QED
    BY <1>1, <1>2, <2>1, <2>2 DEF Waiting
<1>3. CASE stack # <<>> /\ Head(stack).op = "kick"
  <2>1. /\ Elems(stack) = {Head(stack)} \cup Elems(Tail(stack))
        /\ StackedOn(Tail(stack), pc, S)
        /\ pc \in KickPC
        /\ \A g \in Elems(Tail(stack)) : g.op # "kick"
    BY <1>1, <1>3, PopFrame, StackedPop DEF TypeOK
  <2>2. CASE Leave
    <3>1. stack' = Tail(stack)
      BY <1>3, <2>2 DEF Leave, Top
    <3>2. StackedOn(Tail(stack), pc', S)
      BY <2>1, StackedKeeps
    <3>3. QED
      BY <1>1, <1>3, <2>1, <3>1, <3>2 DEF Waiting
  <2>3. CASE Stay /\ pc' \in KickPC
    <3>1. StackedOn(stack, pc', S) /\ stack' = stack
      BY <1>1, <2>3, StackedKeeps DEF Stay
    <3>2. QED
      BY <1>1, <3>1 DEF Waiting
  <2>4. QED
    BY <2>1, <2>2, <2>3
<1>4. QED
  BY <1>2, <1>3 DEF Top

(* A step that moves no message keeps every message where it is. *)
LEMMA SettledQuiet ==
    ASSUME Settled, UNCHANGED <<inbox, batch, admitted, discarded, dropped, sent>>
    PROVE  Settled'
  BY DEF Settled, Kept, Fate, Distinct, Elems

(* Messages that move from one place to another stay in one place. *)
LEMMA SettledMoves ==
    ASSUME Settled, \A m \in Message : Places(m) => Places(m)',
           Distinct(inbox'["next-turn"]), Distinct(inbox'["next-step"]), Distinct(batch')
    PROVE  Settled'
<1>1. \A m \in Message : Kept(m)'
  BY KeptPlaces DEF Settled
<1>2. QED
  BY <1>1 DEF Settled, Distinct

(* A step that claims, admits, sends and dooms nothing keeps prompts alone and
   cancelled input away, as long as a cancel that waits to clear or to abort
   still waits, or has done so. *)
LEMMA Fewer ==
    ASSUME Prompted, Spared, UNCHANGED <<sent, prompts, admitted, doomed>>,
           Elems(inbox["next-turn"])' \subseteq Elems(inbox["next-turn"]),
           Elems(inbox["next-step"])' \subseteq Elems(inbox["next-step"]),
           Elems(batch)' \subseteq Elems(batch),
           Elems(batch)' # {} => /\ turn' = turn
                                 /\ pc' = "claimTurn" => pc = "claimTurn"
                                 /\ pc' \in Admitting => \/ pc \in Admitting
                                                         \/ abort = None /\ ~Waiting({"clear", "abort"})
                                 /\ abort # None \/ Waiting({"clear", "abort"})
                                      => abort' # None \/ Waiting({"clear", "abort"})',
           Waiting({"clear"}) => Waiting({"clear"})' \/ Elems(inbox["next-turn"])' = {}
    PROVE  Prompted' /\ Spared'
<1> DEFINE nt == Elems(inbox["next-turn"])
           ns == Elems(inbox["next-step"])
           b == Elems(batch)
           ntp == Elems(inbox["next-turn"])'
           nsp == Elems(inbox["next-step"])'
           bp == Elems(batch)'
           clearing == Waiting({"clear"})
           clearingp == Waiting({"clear"})'
           dying == abort # None \/ Waiting({"clear", "abort"})
           dyingp == abort' # None \/ Waiting({"clear", "abort"})'
<1>1. Prompted'
  BY DEF Prompted, OnePromptPerTurn
<1>2. doomed' \subseteq sent' /\ CancelledInputNeverRuns'
  BY DEF Spared, CancelledInputNeverRuns
<1>3. ASSUME NEW m \in doomed
      PROVE  /\ m \notin nsp
             /\ m \in ntp => clearingp
             /\ m \in bp => pc' \notin Admitting /\ dyingp
  <2>1. /\ m \notin ns
        /\ m \in nt => clearing
        /\ m \in b => pc \notin Admitting /\ dying
    BY DEF Spared
  <2> HIDE DEF clearing, clearingp, nt, ns, b, ntp, nsp, bp
  <2>2. QED
    BY <2>1 DEF clearing, clearingp, nt, ns, b, ntp, nsp, bp
<1>4. QED
  BY <1>1, <1>2, <1>3 DEF Spared

(* Where the driver waits follows the claim it holds. *)
LEMMA ClaimedMove ==
    ASSUME Claimed, UNCHANGED <<phase, turn, admitted>>,
           pc' = "off" <=> pc = "off",
           batch' # <<>> => pc' \in HoldsBatch,
           pc \notin {"off", "reserved", "retire", "turnClosed"}
             \/ pc' \in {"off", "reserved", "retire", "turnClosed"},
           pc' \in {"opened", "claimTurn"} => pc \in {"opened", "claimTurn"}
    PROVE  Claimed'
  BY DEF Claimed

----------------------------------------------------------------------------
(* The driver.                                                             *)

(* Where the driver waits once it left a turn. *)
NoTurn == {"off", "reserved", "retire", "turnClosed"}

(* A driver's step that neither claims nor admits: the batch stays or is
   dropped, and no caller's part of the state moves. *)
LEMMA DriverMove ==
    ASSUME TypeOK, InputInv, stack = <<>> \/ Top("kick"), Leave \/ Stay,
           Leave \/ pc' \in KickPC \/ pc \notin KickPC,
           UNCHANGED <<inbox, phase, turn, sent, prompts, promoted, admitted, discarded, doomed>>,
           batch' = batch \/ batch' = <<>>,
           dropped' = dropped \cup (Elems(batch) \ Elems(batch')),
           abort' = abort \/ batch' = <<>>,
           pc # "off", pc' # "off",
           batch' # <<>> => pc' \in HoldsBatch,
           pc \notin NoTurn \/ pc' \in NoTurn,
           pc' \notin {"opened", "claimTurn"},
           pc' \in Admitting => abort = None /\ pc \notin KickPC
    PROVE  InputInv'
<1>1. /\ Stacked'
      /\ Waiting({"clear"})' <=> Waiting({"clear"})
      /\ Waiting({"clear", "abort"})' <=> Waiting({"clear", "abort"})
  BY DriverStack DEF InputInv
<1>2. Elems(batch') = Elems(batch) \/ Elems(batch') = {}
  BY EmptyList
<1>3. Settled'
  <2>1. Distinct(inbox'["next-turn"]) /\ Distinct(inbox'["next-step"]) /\ Distinct(batch')
    BY EmptyList DEF InputInv, Settled
  <2>2. ASSUME NEW m \in Message, Places(m) PROVE Places(m)'
    <3>1. /\ m \in Elems(inbox["next-turn"])' <=> m \in Elems(inbox["next-turn"])
          /\ m \in Elems(inbox["next-step"])' <=> m \in Elems(inbox["next-step"])
          /\ admitted'[m] = admitted[m]
          /\ m \in discarded' <=> m \in discarded
          /\ m \in sent' <=> m \in sent
      BY DEF Elems
    <3>2. /\ m \in Elems(batch)' <=> m \in Elems(batch')
          /\ m \in dropped' <=> m \in dropped \/ (m \in Elems(batch) /\ m \notin Elems(batch'))
      BY DEF Elems
    <3>3. QED
      BY <1>2, <2>2, <3>1, <3>2 DEF Places, OneOf
  <2>3. QED
    BY <2>1, <2>2, SettledMoves DEF InputInv
<1>4. Claimed'
  BY ClaimedMove DEF InputInv, NoTurn
<1>5. Prompted' /\ Spared'
  <2>1. /\ Elems(inbox["next-turn"])' \subseteq Elems(inbox["next-turn"])
        /\ Elems(inbox["next-step"])' \subseteq Elems(inbox["next-step"])
    BY DEF Elems
  <2>2. Elems(batch)' = Elems(batch') /\ Elems(batch)' \subseteq Elems(batch)
    BY <1>2 DEF Elems
  <2>3. Elems(batch)' # {} => batch' # <<>>
    BY <2>2, EmptyList
  <2>4. pc' \in Admitting => abort = None /\ ~Waiting({"clear", "abort"})
    <3>1. pc \notin KickPC => stack = <<>>
      BY PastFirstAwait DEF InputInv
    <3>2. QED
      BY <3>1, EmptyList DEF Waiting
  <2>5. QED
    BY <1>1, <2>1, <2>2, <2>3, <2>4, Fewer DEF InputInv
<1>6. QED
  BY <1>1, <1>3, <1>4, <1>5 DEF InputInv

(* A driver's step that leaves the batch alone. *)
LEMMA QuietMove ==
    ASSUME TypeOK, InputInv, stack = <<>> \/ Top("kick"), Leave \/ Stay,
           Leave \/ pc' \in KickPC \/ pc \notin KickPC,
           UNCHANGED <<inbox, phase, turn, abort, batch>>, NoFate,
           pc # "off", pc' # "off",
           batch # <<>> => pc' \in HoldsBatch,
           pc \notin NoTurn \/ pc' \in NoTurn,
           pc' \notin {"opened", "claimTurn"},
           pc' \in Admitting => abort = None /\ pc \notin KickPC
    PROVE  InputInv'
<1>1. UNCHANGED <<sent, prompts, promoted, admitted, discarded, doomed>>
  BY DEF NoFate
<1>2. dropped' = dropped \cup (Elems(batch) \ Elems(batch'))
  BY DEF NoFate
<1>3. QED
  BY <1>1, <1>2, DriverMove

(* A turn that is left drops what it had claimed and not admitted. *)
LEMMA CloseTurnMove ==
    ASSUME TypeOK, InputInv, stack = <<>> \/ Top("kick"), Stay, pc # "off",
           NEW reason, NEW throws, NEW stops, CloseTurn(reason, throws, stops),
           UNCHANGED <<inbox, phase, abort, turn>>
    PROVE  InputInv'
<1>1. /\ pc' = "turnClosed" /\ batch' = <<>> /\ dropped' = dropped \cup Elems(batch)
      /\ UNCHANGED <<sent, prompts, promoted, admitted, discarded, doomed>>
  BY DEF CloseTurn
<1>2. Elems(batch') = {}
  BY <1>1, EmptyList
<1>3. /\ pc' \in KickPC /\ pc' \in NoTurn
      /\ pc' \notin {"off", "opened", "claimTurn"} /\ pc' \notin Admitting
  BY <1>1 DEF KickPC, NoTurn, Admitting
<1>4. QED
  BY <1>1, <1>2, <1>3, DriverMove

(* So does a turn that fails. *)
LEMMA FailTurnMove ==
    ASSUME TypeOK, InputInv, stack = <<>> \/ Top("kick"), Stay, pc # "off", FailTurn,
           UNCHANGED <<inbox, phase, abort, turn>>
    PROVE  InputInv'
<1>1. CloseTurn(IF abort # None THEN "aborted" ELSE "error", TRUE, FALSE)
  BY DEF FailTurn
<1>2. QED
  BY <1>1, CloseTurnMove

(* A step that opens keeps the batch, or drops it for a rewritten admission. *)
LEMMA OpenStepMove ==
    ASSUME TypeOK, InputInv, pc \in {"intake", "admission"}, abort = None,
           stack = <<>> \/ Top("kick"),
           NEW p \in {"replying", "requesting"}, NEW admission \in {batch, <<>>},
           OpenStep(p, admission) \/ VetoStep,
           UnchangedPhase, UNCHANGED <<inbox, stack>>
    PROVE  InputInv'
<1>1. pc # "off" /\ pc \notin KickPC /\ pc \notin NoTurn /\ UNCHANGED <<phase, abort, turn>>
  BY DEF KickPC, NoTurn, UnchangedPhase
<1>2. CASE VetoStep
  BY <1>1, <1>2, FailTurnMove DEF VetoStep, Stay
<1>3. CASE OpenStep(p, admission)
  <2>1. /\ pc' = p /\ batch' = admission /\ dropped' = dropped \cup (Elems(batch) \ Elems(batch'))
        /\ UNCHANGED <<sent, prompts, promoted, admitted, discarded, doomed>>
    BY <1>3 DEF OpenStep
  <2>2. pc' \in HoldsBatch /\ pc' \notin {"off", "opened", "claimTurn"}
    BY <2>1 DEF HoldsBatch
  <2>3. QED
    BY <1>1, <2>1, <2>2, DriverMove DEF Stay
<1>4. QED
  BY <1>2, <1>3

(* Admission: the head of the batch becomes the turn's.  It was not cancelled
   before, and a prompt is the only one of its batch and of its turn. *)
LEMMA AdmitMove ==
    ASSUME TypeOK, InputInv, NEW p \in Admitting, Admit(p)
    PROVE  InputInv'
<1> DEFINE h == Head(batch)
           rest == Tail(batch)
<1>1. /\ pc \in Admitting /\ batch # <<>> /\ batch' = rest
      /\ admitted' = [admitted EXCEPT ![h] = turn]
      /\ UNCHANGED <<inbox, phase, abort, turn, pc, stack, sent, prompts, promoted, discarded,
                     dropped, doomed>>
  BY DEF Admit, At, phaseVars
<1>2. /\ h \in Message /\ Elems(batch) = {h} \cup Elems(rest)
      /\ Distinct(rest) /\ h \notin Elems(rest)
  <2>1. batch \in Seq(Message)
    BY DEF TypeOK, LocalType
  <2>2. Distinct(batch)
    BY DEF InputInv, Settled
  <2>3. QED
    BY <1>1, <2>1, <2>2, HeadTail, FrontType
<1>3. \A m \in Message : admitted'[m] = IF m = h THEN turn ELSE admitted[m]
  BY <1>1, <1>2 DEF TypeOK, HistType
<1> HIDE DEF h, rest
<1>4. turn > 0 /\ \A m \in Message : admitted[m] \in Nat /\ admitted[m] <= turn
  BY <1>1 DEF InputInv, Claimed, Admitting, TypeOK, HistType
<1>5. /\ Elems(inbox["next-turn"])' = Elems(inbox["next-turn"])
      /\ Elems(inbox["next-step"])' = Elems(inbox["next-step"])
      /\ Elems(batch)' = Elems(rest)
      /\ \A ops : Waiting(ops)' <=> Waiting(ops)
  BY <1>1 DEF Elems, Waiting
<1>6. Settled'
  <2>1. Distinct(inbox'["next-turn"]) /\ Distinct(inbox'["next-step"]) /\ Distinct(batch')
    BY <1>1, <1>2 DEF InputInv, Settled
  <2>2. ASSUME NEW m \in Message, Places(m) PROVE Places(m)'
    <3>1. /\ m \in Elems(batch) <=> m = h \/ m \in Elems(rest)
          /\ m = h => m \notin Elems(rest)
          /\ admitted'[m] # 0 <=> m = h \/ admitted[m] # 0
      BY <1>2, <1>3, <1>4
    <3>2. QED
      BY <1>1, <1>5, <2>2, <3>1 DEF Places, OneOf
  <2>3. QED
    BY <2>1, <2>2, SettledMoves DEF InputInv
<1>7. Claimed'
  <2>1. \A m \in Message : admitted'[m] <= turn
    BY <1>3, <1>4 DEF TypeOK, PhaseType
  <2>2. QED
    BY <1>1, <2>1 DEF InputInv, Claimed, Admitting, HoldsBatch
<1>8. Stacked'
  <2>1. Elems(stack)' = Elems(stack)
    BY <1>1 DEF Elems
  <2>2. QED
    BY <1>1, <2>1 DEF InputInv, Stacked, Once
<1>9. Prompted'
  <2>1. prompts \subseteq Message
    BY DEF TypeOK, HistType
  <2>2. ASSUME NEW m \in prompts, m \in Elems(batch), NEW n \in prompts
        PROVE  admitted[n] # turn /\ (n \in Elems(batch) => m = n)
    BY <2>2 DEF InputInv, Prompted
  <2>3. ASSUME NEW m \in prompts, m \in Elems(rest), NEW n \in prompts
        PROVE  admitted'[n] # turn /\ (n \in Elems(rest) => m = n)
    BY <1>2, <1>3, <2>1, <2>2, <2>3
  <2>4. ASSUME NEW m \in prompts, NEW n \in prompts,
               admitted'[m] = admitted'[n], admitted'[m] # 0
        PROVE  m = n
    <3>1. admitted[m] = admitted[n] /\ admitted[m] # 0 => m = n
      BY DEF InputInv, Prompted, OnePromptPerTurn
    <3>2. QED
      BY <1>2, <1>3, <2>1, <2>2, <2>4, <3>1
  <2>5. prompts \subseteq sent /\ \A m \in prompts : m \notin Elems(inbox["next-step"])
    BY DEF InputInv, Prompted
  <2>6. pc' # "claimTurn"
    BY <1>1 DEF Admitting
  <2>7. QED
    BY <1>1, <1>5, <2>3, <2>4, <2>5, <2>6 DEF Prompted, OnePromptPerTurn
<1>10. Spared'
  <2>1. doomed \subseteq Message /\ doomed \subseteq sent
    BY DEF TypeOK, HistType, InputInv, Spared
  <2>2. ASSUME NEW m \in doomed
        PROVE  /\ admitted[m] = 0 /\ m \notin Elems(batch)
               /\ m \notin Elems(inbox["next-step"])
               /\ m \in Elems(inbox["next-turn"]) => Waiting({"clear"})
    BY <1>1 DEF InputInv, Spared, CancelledInputNeverRuns
  <2>3. \A m \in doomed : admitted'[m] = 0 /\ m \notin Elems(rest)
    BY <1>2, <1>3, <2>1, <2>2
  <2>4. QED
    BY <1>1, <1>5, <2>1, <2>2, <2>3 DEF Spared, CancelledInputNeverRuns
<1>11. QED
  BY <1>6, <1>7, <1>8, <1>9, <1>10 DEF InputInv

(* A claim of all next-step input: none of it is a prompt, and none was
   cancelled. *)
LEMMA ClaimSteering ==
    ASSUME TypeOK, InputInv, stack = <<>> \/ Top("kick"), Stay,
           pc' = "claimTurn" \/ pc \notin KickPC,
           pc \in {"opened", "stepClosed", "stopping"},
           (pc = "opened" /\ pc' = "claimTurn") \/ pc' = "intake",
           batch' = inbox["next-step"], inbox' = [inbox EXCEPT !["next-step"] = <<>>],
           UNCHANGED <<phase, abort, turn>>, NoFate
    PROVE  InputInv'
<1>1. UNCHANGED <<sent, prompts, promoted, admitted, discarded, dropped, doomed>>
  BY DEF NoFate
<1>2. batch = <<>>
  BY DEF InputInv, Claimed, HoldsBatch
<1>3. inbox'["next-turn"] = inbox["next-turn"] /\ inbox'["next-step"] = <<>>
  BY DEF TypeOK, Target
<1>4. /\ Elems(inbox["next-turn"])' = Elems(inbox["next-turn"])
      /\ Elems(inbox["next-step"])' = {}
      /\ Elems(batch)' = Elems(inbox["next-step"])
      /\ Elems(batch) = {}
  BY <1>2, <1>3, EmptyList DEF Elems
<1>5. /\ Stacked'
      /\ Waiting({"clear"})' <=> Waiting({"clear"})
  BY <1>1, DriverStack DEF InputInv, KickPC
<1>6. Settled'
  <2>1. Distinct(inbox'["next-turn"]) /\ Distinct(inbox'["next-step"]) /\ Distinct(batch')
    BY <1>3, EmptyList DEF InputInv, Settled
  <2>2. ASSUME NEW m \in Message, Places(m) PROVE Places(m)'
    BY <1>1, <1>4, <2>2 DEF Places, OneOf
  <2>3. QED
    BY <2>1, <2>2, SettledMoves DEF InputInv
<1>7. Claimed'
  BY <1>1, ClaimedMove DEF InputInv, NoTurn, HoldsBatch
<1>8. Prompted'
  <2>1. \A m \in prompts : m \notin Elems(batch)'
    BY <1>4 DEF InputInv, Prompted
  <2>2. QED
    BY <1>1, <1>4, <2>1 DEF InputInv, Prompted, OnePromptPerTurn
<1>9. Spared'
  <2>1. \A m \in doomed : m \notin Elems(batch)'
    BY <1>4 DEF InputInv, Spared
  <2>2. QED
    BY <1>1, <1>4, <1>5, <2>1 DEF InputInv, Spared, CancelledInputNeverRuns
<1>10. QED
  BY <1>5, <1>6, <1>7, <1>8, <1>9 DEF InputInv

(* A turn's claim of one queued prompt: it is the batch's only prompt, in a turn
   that has admitted no other; if it was cancelled, the cancel is on the stack. *)
LEMMA ClaimPromptMove ==
    ASSUME TypeOK, InputInv, stack = <<>> \/ Top("kick"),
           pc \in {"opened", "claimTurn"}, ClaimTurn(batch),
           UNCHANGED <<phase, abort, turn>>, NoFate
    PROVE  InputInv'
<1>1. UNCHANGED <<sent, prompts, promoted, admitted, discarded, dropped, doomed>>
  BY DEF NoFate
<1>2. pc' = "intake" /\ Leave
  BY DEF ClaimTurn
<1>3. /\ Stacked'
      /\ Waiting({"clear"})' <=> Waiting({"clear"})
      /\ Waiting({"clear", "abort"})' <=> Waiting({"clear", "abort"})
  BY <1>1, <1>2, DriverStack DEF InputInv
<1>4. Claimed'
  BY <1>1, <1>2, ClaimedMove DEF InputInv, NoTurn, HoldsBatch
<1> DEFINE queue == inbox["next-turn"]
<1>5. queue \in Seq(Message) /\ batch \in Seq(Message)
  BY DEF TypeOK, LocalType, Target
<1>6. CASE queue = <<>>
  <2>1. batch' = batch /\ inbox' = inbox
    BY <1>6 DEF ClaimTurn
  <2>2. Settled'
    BY <1>1, <2>1, SettledQuiet DEF InputInv
  <2>3. Prompted' /\ Spared'
    <3>1. /\ Elems(inbox["next-turn"])' = Elems(inbox["next-turn"])
          /\ Elems(inbox["next-step"])' = Elems(inbox["next-step"])
          /\ Elems(batch)' = Elems(batch)
      BY <2>1 DEF Elems
    <3>2. QED
      BY <1>1, <1>2, <1>3, <3>1, Fewer DEF InputInv, Admitting
  <2>4. QED
    BY <1>3, <1>4, <2>2, <2>3 DEF InputInv
<1>7. CASE queue # <<>>
  <2> DEFINE h == Head(queue)
             rest == Tail(queue)
  <2>1. /\ h \in Message /\ rest \in Seq(Message)
        /\ Elems(queue) = {h} \cup Elems(rest)
        /\ Distinct(queue) => Distinct(rest) /\ h \notin Elems(rest)
    BY <1>5, <1>7, HeadTail
  <2>2. /\ batch' = Append(batch, h)
        /\ inbox'["next-turn"] = rest /\ inbox'["next-step"] = inbox["next-step"]
    BY <1>7 DEF ClaimTurn, TypeOK, Target
  <2> HIDE DEF h, rest
  <2>3. /\ Elems(Append(batch, h)) = Elems(batch) \cup {h}
        /\ Distinct(batch) /\ h \notin Elems(batch) => Distinct(Append(batch, h))
    BY <1>5, <2>1, AppendList
  <2>4. Distinct(queue) /\ Distinct(batch) /\ Distinct(inbox["next-step"])
    BY DEF InputInv, Settled
  <2>5. \A m \in Message : Places(m)
    BY KeptPlaces DEF InputInv, Settled
  <2>6. h \in Elems(queue) /\ h \notin Elems(batch)
    BY <2>1, <2>5 DEF Places, OneOf
  <2>7. /\ Elems(inbox["next-turn"])' = Elems(rest)
        /\ Elems(inbox["next-step"])' = Elems(inbox["next-step"])
        /\ Elems(batch)' = Elems(batch) \cup {h}
    BY <2>2, <2>3 DEF Elems
  <2>8. Settled'
    <3>1. Distinct(inbox'["next-turn"]) /\ Distinct(inbox'["next-step"]) /\ Distinct(batch')
      BY <2>1, <2>2, <2>3, <2>4, <2>6
    <3>2. ASSUME NEW m \in Message, Places(m) PROVE Places(m)'
      BY <1>1, <2>1, <2>4, <2>7, <3>2 DEF Places, OneOf
    <3>3. QED
      BY <3>1, <3>2, SettledMoves DEF InputInv
  <2>9. Prompted'
    <3>1. \A m \in prompts : m \notin Elems(batch)
      <4>1. pc = "opened" => Elems(batch) = {}
        BY EmptyList DEF InputInv, Claimed, HoldsBatch
      <4>2. QED
        BY <4>1 DEF InputInv, Prompted
    <3>2. prompts \subseteq Message /\ \A n \in Message : admitted[n] # turn
      BY DEF InputInv, Claimed, TypeOK, HistType, PhaseType
    <3>3. QED
      BY <1>1, <1>2, <2>7, <3>1, <3>2 DEF InputInv, Prompted, OnePromptPerTurn
  <2>10. Spared'
    <3>1. Waiting({"clear"}) => Waiting({"clear", "abort"})
      BY DEF Waiting
    <3>2. doomed \subseteq sent /\ CancelledInputNeverRuns
      BY DEF InputInv, Spared
    <3>3. ASSUME NEW m \in doomed
          PROVE  /\ m \notin Elems(inbox["next-step"])'
                 /\ m \in Elems(inbox["next-turn"])' => Waiting({"clear"})'
                 /\ m \in Elems(batch)' => abort # None \/ Waiting({"clear", "abort"})'
      <4>1. /\ m \notin Elems(inbox["next-step"])
            /\ m \in Elems(queue) => Waiting({"clear"})
            /\ m \in Elems(batch) => abort # None \/ Waiting({"clear", "abort"})
        BY DEF InputInv, Spared
      <4>2. QED
        BY <1>3, <2>1, <2>6, <2>7, <3>1, <4>1
    <3>4. QED
      BY <1>1, <1>2, <3>2, <3>3 DEF Spared, Admitting, CancelledInputNeverRuns
  <2>11. QED
    BY <1>3, <1>4, <2>8, <2>9, <2>10 DEF InputInv
<1>8. QED
  BY <1>6, <1>7

(* A message that was in no place, or waited to be sent again, joins a queue. *)
LEMMA QueueMove ==
    ASSUME TypeOK, InputInv, NEW m \in Message, NEW target \in Target,
           m \notin Elems(inbox["next-turn"]), m \notin Elems(inbox["next-step"]),
           m \notin Elems(batch), admitted[m] = 0, m \notin dropped,
           inbox' = [inbox EXCEPT ![target] = Append(@, m)], sent' = sent \cup {m},
           prompts' = IF target = "next-turn" THEN prompts \cup {m} ELSE prompts \ {m},
           discarded' = discarded \ {m}, doomed' = doomed \ {m},
           UNCHANGED <<batch, admitted, dropped, turn, abort>>,
           pc' = pc \/ batch = <<>>,
           Waiting({"clear"}) => Waiting({"clear"})',
           Waiting({"clear", "abort"}) => Waiting({"clear", "abort"})'
    PROVE  Settled' /\ Prompted' /\ Spared'
<1> DEFINE queue == inbox[target]
<1>1. queue \in Seq(Message)
  BY DEF TypeOK
<1>2. /\ inbox'[target] = Append(queue, m)
      /\ \A other \in Target \ {target} : inbox'[other] = inbox[other]
  BY DEF TypeOK
<1>3. /\ Elems(Append(queue, m)) = Elems(queue) \cup {m}
      /\ Distinct(queue) /\ m \notin Elems(queue) => Distinct(Append(queue, m))
  BY <1>1, AppendList
<1>4. /\ Elems(inbox'[target]) = Elems(inbox[target]) \cup {m}
      /\ \A other \in Target \ {target} : Elems(inbox'[other]) = Elems(inbox[other])
  BY <1>2, <1>3
<1>6. /\ m \notin Elems(inbox["next-turn"]) /\ m \notin Elems(inbox["next-step"])
      /\ m \notin Elems(batch) /\ admitted[m] = 0 /\ m \notin discarded' /\ m \notin dropped
  OBVIOUS
<1>7. /\ Elems(inbox["next-turn"])' = IF target = "next-turn"
                                      THEN Elems(inbox["next-turn"]) \cup {m}
                                      ELSE Elems(inbox["next-turn"])
      /\ Elems(inbox["next-step"])' = IF target = "next-step"
                                      THEN Elems(inbox["next-step"]) \cup {m}
                                      ELSE Elems(inbox["next-step"])
      /\ Elems(batch)' = Elems(batch)
  <2>1. /\ Elems(inbox["next-turn"])' = Elems(inbox'["next-turn"])
        /\ Elems(inbox["next-step"])' = Elems(inbox'["next-step"])
        /\ Elems(batch)' = Elems(batch)
    BY DEF Elems
  <2>2. QED
    BY <1>4, <2>1 DEF Target
<1>8. Settled'
  <2>1. Distinct(inbox'["next-turn"]) /\ Distinct(inbox'["next-step"]) /\ Distinct(batch')
    BY <1>2, <1>3, <1>6 DEF Target, InputInv, Settled
  <2>2. ASSUME NEW n \in Message, Places(n) PROVE Places(n)'
    <3>1. CASE n = m
      BY <1>6, <1>7, <3>1 DEF Places, OneOf, Target
    <3>2. CASE n # m
      BY <1>7, <2>2, <3>2 DEF Places, OneOf
    <3>3. QED
      BY <3>1, <3>2
  <2>3. QED
    BY <2>1, <2>2, SettledMoves DEF InputInv
<1>9. Prompted'
  <2>1. /\ prompts \subseteq sent
        /\ \A n \in prompts : n \notin Elems(inbox["next-step"])
        /\ \A n, o \in prompts : n \in Elems(batch) /\ o \in Elems(batch) => n = o
        /\ \A n \in prompts :
              n \in Elems(batch) => pc # "claimTurn" /\ \A o \in prompts : admitted[o] # turn
        /\ \A n, o \in prompts : admitted[n] = admitted[o] /\ admitted[n] # 0 => n = o
    BY DEF InputInv, Prompted, OnePromptPerTurn
  <2>2. /\ prompts' \subseteq prompts \cup {m}
        /\ target # "next-turn" => m \notin prompts'
    OBVIOUS
  <2>3. \A n \in prompts' : n \notin Elems(inbox["next-step"])'
    BY <1>6, <1>7, <2>1, <2>2 DEF Target
  <2>4. /\ prompts' \subseteq sent'
        /\ \A n \in prompts' : n \in Elems(batch) => n \in prompts
        /\ \A n \in prompts' : admitted[n] # 0 => n \in prompts
    BY <1>6, <2>1, <2>2
  <2>5. /\ batch = <<>> => Elems(batch) = {}
        /\ batch # <<>> => turn # 0
    BY EmptyList DEF InputInv, Claimed, HoldsBatch
  <2>6. QED
    BY <1>6, <1>7, <2>1, <2>2, <2>3, <2>4, <2>5 DEF Prompted, OnePromptPerTurn
<1>10. Spared'
  <2>1. /\ doomed' \subseteq sent' /\ m \notin doomed'
        /\ \A n \in doomed' :
                             /\ admitted[n] = 0
                             /\ n \notin Elems(inbox["next-step"])
                             /\ n \in Elems(inbox["next-turn"]) => Waiting({"clear"})
                             /\ n \in Elems(batch) =>
                                  /\ pc \notin Admitting
                                  /\ abort # None \/ Waiting({"clear", "abort"})
    BY DEF InputInv, Spared, CancelledInputNeverRuns
  <2>2. batch = <<>> => Elems(batch) = {}
    BY EmptyList
  <2>3. QED
    BY <1>7, <2>1, <2>2 DEF Spared, CancelledInputNeverRuns
<1>11. QED
  BY <1>8, <1>9, <1>10

(* A message that is sent for the first time was nowhere before. *)
LEMMA FreshInput ==
    ASSUME TypeOK, InputInv, NEW m \in Message, m \notin sent, NEW target \in Target,
           inbox' = [inbox EXCEPT ![target] = Append(@, m)], sent' = sent \cup {m},
           prompts' = IF target = "next-turn" THEN prompts \cup {m} ELSE prompts \ {m},
           UNCHANGED <<batch, admitted, discarded, dropped, doomed, turn, abort>>,
           pc' = pc \/ batch = <<>>,
           Waiting({"clear"}) => Waiting({"clear"})',
           Waiting({"clear", "abort"}) => Waiting({"clear", "abort"})'
    PROVE  Settled' /\ Prompted' /\ Spared'
<1>1. Places(m)
  BY KeptPlaces DEF InputInv, Settled
<1>2. /\ m \notin Elems(inbox["next-turn"]) /\ m \notin Elems(inbox["next-step"])
      /\ m \notin Elems(batch) /\ admitted[m] = 0 /\ m \notin discarded /\ m \notin dropped
  BY <1>1 DEF Places, OneOf
<1>3. discarded' = discarded \ {m} /\ doomed' = doomed \ {m}
  BY <1>2 DEF InputInv, Spared
<1>4. QED
  BY <1>2, <1>3, QueueMove

(* Tools settle: the context they deferred joins next-step. *)
LEMMA DeferMove ==
    ASSUME TypeOK, InputInv, stack = <<>> \/ Top("kick"), pc = "tools",
           DeferContext, pc' \in {"closeStep", "recover"},
           UNCHANGED <<phase, abort, turn, batch, stack>>
    PROVE  InputInv'
<1>1. batch = <<>>
  BY DEF InputInv, Claimed, HoldsBatch
<1>2. CASE UNCHANGED <<inbox, sent>>
  <2>1. NoFate
    BY <1>2 DEF DeferContext, NoFate
  <2>2. QED
    BY <1>1, <1>2, <2>1, QuietMove DEF NoTurn, Admitting, KickPC, Stay
<1>3. CASE \E m \in Message \ sent : /\ inbox' = [inbox EXCEPT !["next-step"] = Append(@, m)]
                                     /\ sent' = sent \cup {m}
  <2>1. PICK m \in Message \ sent : /\ inbox' = [inbox EXCEPT !["next-step"] = Append(@, m)]
                                    /\ sent' = sent \cup {m}
    BY <1>3
  <2>2. UNCHANGED <<prompts, promoted, admitted, discarded, dropped, doomed>>
    BY DEF DeferContext
  <2>3. prompts' = prompts \ {m}
    BY <2>1, <2>2 DEF InputInv, Prompted
  <2>4. /\ Stacked'
        /\ Waiting({"clear"}) => Waiting({"clear"})'
        /\ Waiting({"clear", "abort"}) => Waiting({"clear", "abort"})'
    BY <2>2, DriverStack DEF InputInv, KickPC, Stay
  <2>5. Settled' /\ Prompted' /\ Spared'
    BY <1>1, <2>1, <2>2, <2>3, <2>4, FreshInput DEF Target
  <2>6. Claimed'
    BY <1>1, <2>2, ClaimedMove DEF InputInv, NoTurn
  <2>7. QED
    BY <2>4, <2>5, <2>6 DEF InputInv
<1>4. QED
  BY <1>2, <1>3 DEF DeferContext

(* A new turn opens with nothing claimed, under a number of its own. *)
LEMMA OpenTurnMove ==
    ASSUME TypeOK, InputInv, stack = <<>> \/ Top("kick"), pc = "reserved", pc' = "opened",
           turn' = turn + 1, Stay, UNCHANGED <<inbox, phase, abort, batch>>, NoFate
    PROVE  InputInv'
<1>1. UNCHANGED <<sent, prompts, promoted, admitted, discarded, dropped, doomed>>
  BY DEF NoFate
<1>2. batch = <<>> /\ Elems(batch)' = {} /\ Elems(batch) = {}
  BY EmptyList DEF InputInv, Claimed, HoldsBatch, Elems
<1>3. /\ Stacked'
      /\ Waiting({"clear"})' <=> Waiting({"clear"})
      /\ Waiting({"clear", "abort"})' <=> Waiting({"clear", "abort"})
  BY <1>1, DriverStack DEF InputInv, KickPC
<1>4. Settled'
  BY <1>1, SettledQuiet DEF InputInv
<1>5. Claimed'
  BY <1>1, <1>2 DEF InputInv, Claimed, TypeOK, PhaseType, HistType
<1>6. /\ Elems(inbox["next-turn"])' = Elems(inbox["next-turn"])
      /\ Elems(inbox["next-step"])' = Elems(inbox["next-step"])
  BY DEF Elems
<1>7. Prompted' /\ Spared'
  BY <1>1, <1>2, <1>3, <1>6, Fewer DEF InputInv
<1>8. QED
  BY <1>3, <1>4, <1>5, <1>7 DEF InputInv

(* A driver that retires leaves no claim behind. *)
LEMMA RetireMove == ASSUME TypeOK, InputInv, Retire PROVE InputInv'
<1>1. /\ pc = "retire" /\ stack = <<>> /\ phase' = "idle" /\ pc' = "off"
      /\ stack' = <<[op |-> "replay", latched |-> wakeRequested]>> \o <<>>
      /\ UNCHANGED <<inbox, turn, batch, sent, prompts, promoted, admitted, discarded, dropped, doomed>>
  BY DEF Retire, Push
<1> DEFINE f == [op |-> "replay", latched |-> wakeRequested]
<1>2. f \in Frame /\ f.op = "replay" /\ <<>> \in Seq(Frame)
  BY FrameKinds DEF TypeOK, PhaseType
<1> HIDE DEF f
<1>3. batch = <<>> /\ Elems(batch)' = {} /\ Elems(batch) = {}
  BY <1>1, EmptyList DEF InputInv, Claimed, HoldsBatch, Elems
<1>4. Stacked'
  <2>1. StackedOn(<<>>, "off", discarded \cap promoted)
    BY EmptyList DEF StackedOn, Once
  <2>2. StackedOn(<<f>> \o <<>>, "off", discarded \cap promoted)
    BY <1>2, <2>1, StackedPush
  <2>3. QED
    BY <1>1, <2>2, StackedPlaces DEF f
<1>5. ~Waiting({"clear"})
  BY <1>1, EmptyList DEF Waiting
<1>6. Settled'
  BY <1>1, SettledQuiet DEF InputInv
<1>7. Claimed'
  BY <1>1, <1>3 DEF InputInv, Claimed, TypeOK, PhaseType, HistType
<1>8. /\ Elems(inbox["next-turn"])' = Elems(inbox["next-turn"])
      /\ Elems(inbox["next-step"])' = Elems(inbox["next-step"])
  BY <1>1 DEF Elems
<1>9. Prompted' /\ Spared'
  BY <1>1, <1>3, <1>5, <1>8, Fewer DEF InputInv
<1>10. QED
  BY <1>4, <1>6, <1>7, <1>9 DEF InputInv

(* Every step of turn() keeps the input. *)
LEMMA TurnInput == ASSUME TypeOK, InputInv, Turn PROVE InputInv'
<1>1. CASE OpenTurn
  <2>1. /\ pc = "reserved" /\ (stack = <<>> \/ Top("kick"))
        /\ UNCHANGED <<inbox, phase, abort, batch>> /\ NoFate
    BY <1>1 DEF OpenTurn, At
  <2>2. CASE pc' = "opened" /\ turn' = turn + 1 /\ Stay
    BY <2>1, <2>2, OpenTurnMove
  <2>3. CASE pc' = "retire" /\ turn' = turn /\ Leave
    <3>1. batch = <<>>
      BY <2>1 DEF InputInv, Claimed, HoldsBatch
    <3>2. QED
      BY <2>1, <2>3, <3>1, QuietMove DEF NoTurn, Admitting
  <2>4. QED
    BY <1>1, <2>2, <2>3 DEF OpenTurn
<1>2. CASE ClaimFirst
  <2>1. pc = "opened" /\ (stack = <<>> \/ Top("kick"))
    BY <1>2 DEF ClaimFirst, At
  <2>2. CASE abort # None
    BY <1>2, <2>1, <2>2, FailTurnMove DEF ClaimFirst, phaseVars
  <2>3. CASE abort = None /\ inbox["next-step"] = <<>>
    <3>1. batch = <<>>
      BY <2>1 DEF InputInv, Claimed, HoldsBatch
    <3>2. QED
      BY <1>2, <2>1, <2>3, <3>1, ClaimPromptMove DEF ClaimFirst, phaseVars
  <2>4. CASE abort = None /\ inbox["next-step"] # <<>>
    BY <1>2, <2>1, <2>4, ClaimSteering DEF ClaimFirst, phaseVars
  <2>5. QED
    BY <2>2, <2>3, <2>4
<1>3. CASE ClaimPrompt
  BY <1>3, ClaimPromptMove DEF ClaimPrompt, At, phaseVars
<1>4. CASE IntakePasses
  BY <1>4, QuietMove DEF IntakePasses, At, phaseVars, HoldsBatch, KickPC, NoTurn, Stay
<1>5. CASE IntakeReplies
  BY <1>5, OpenStepMove DEF IntakeReplies, At
<1>6. CASE LogReply
  BY <1>6, QuietMove DEF LogReply, At, phaseVars, KickPC, NoTurn, Stay, Admitting
<1>7. CASE ResolveTools
  BY <1>7, QuietMove DEF ResolveTools, At, phaseVars, HoldsBatch, KickPC, NoTurn, Stay
<1>8. CASE RejectStep
  BY <1>8, CloseTurnMove DEF RejectStep, At, phaseVars, Stay
<1>9. ASSUME NEW keep \in BOOLEAN, NEW extra \in BOOLEAN, EnterStep(keep, extra) PROVE InputInv'
  <2> DEFINE admission == IF keep THEN batch ELSE <<>>
  <2>1. /\ pc = "admission" /\ abort = None /\ (stack = <<>> \/ Top("kick"))
        /\ UnchangedPhase /\ UNCHANGED <<inbox, stack>>
        /\ UNCHANGED <<phase, abort, turn>> /\ Stay
    BY <1>9 DEF EnterStep, At, UnchangedPhase, Stay
  <2>2. admission \in {batch, <<>>}
    OBVIOUS
  <2>3. CASE \E reason, stops : CloseTurn(reason, FALSE, stops)
    BY <2>1, <2>3, CloseTurnMove
  <2>4. CASE OpenStep("requesting", admission) \/ VetoStep
    <3> HIDE DEF admission
    <3>1. QED
      BY <2>1, <2>2, <2>4, OpenStepMove
  <2>5. QED
    BY <1>9, <2>3, <2>4 DEF EnterStep
<1>10. ASSUME NEW p \in Hook, HookFails(p) PROVE InputInv'
  BY <1>10, FailTurnMove DEF HookFails, At, phaseVars, Hook
<1>11. CASE AfterStep
  <2>1. pc = "stepClosed" /\ (stack = <<>> \/ Top("kick"))
    BY <1>11 DEF AfterStep, At, Advance
  <2>2. CASE FailTurn /\ UNCHANGED <<inbox, phaseVars, stack>>
    BY <2>1, <2>2, FailTurnMove DEF phaseVars, Stay
  <2>3. CASE ContinueTurn
    BY <2>1, <2>3, ClaimSteering DEF ContinueTurn, phaseVars, KickPC
  <2>4. CASE Advance("stepClosed", "stopping")
    <3>1. batch = <<>>
      BY <2>1 DEF InputInv, Claimed, HoldsBatch
    <3>2. QED
      BY <2>1, <2>4, <3>1, QuietMove DEF Advance, phaseVars, KickPC, NoTurn, Stay
  <2>5. QED
    BY <1>11, <2>2, <2>3, <2>4 DEF AfterStep
<1>12. CASE Stopping
  <2>1. pc = "stopping" /\ (stack = <<>> \/ Top("kick"))
    BY <1>12 DEF Stopping, At
  <2>2. CASE inbox["next-step"] = <<>>
    BY <1>12, <2>1, <2>2, CloseTurnMove DEF Stopping, phaseVars, Stay
  <2>3. CASE inbox["next-step"] # <<>>
    BY <1>12, <2>1, <2>3, ClaimSteering DEF Stopping, ContinueTurn, phaseVars, KickPC
  <2>4. QED
    BY <2>2, <2>3
<1>13. CASE AfterTurn
  <2>1. /\ pc = "turnClosed" /\ (stack = <<>> \/ Top("kick"))
        /\ UNCHANGED <<inbox, phase, turn, batch, sent, prompts, promoted, admitted, discarded,
                       dropped, doomed>>
        /\ (pc' = "reserved" /\ Stay) \/ (pc' = "retire" /\ Leave)
    BY <1>13 DEF AfterTurn, At
  <2>2. batch = <<>>
    BY <2>1 DEF InputInv, Claimed, HoldsBatch
  <2>3. dropped' = dropped \cup (Elems(batch) \ Elems(batch')) /\ batch' = <<>>
    BY <2>1, <2>2
  <2>4. /\ pc' # "off" /\ pc' \in NoTurn
        /\ pc' \notin {"opened", "claimTurn"} /\ pc' \notin Admitting
        /\ Leave \/ pc' \in KickPC
    BY <2>1 DEF NoTurn, KickPC, Admitting
  <2>5. QED
    BY <2>1, <2>3, <2>4, DriverMove
<1>14. CASE Retire
  BY <1>14, RetireMove
<1>15. CASE ReplyFails
  BY <1>15, QuietMove DEF ReplyFails, At, phaseVars, HoldsBatch, KickPC, NoTurn, Stay, Admitting
<1>16. QED
  BY <1>1, <1>2, <1>3, <1>4, <1>5, <1>6, <1>7, <1>8, <1>9, <1>10, <1>11, <1>12, <1>13, <1>14,
     <1>15 DEF Turn

(* Every step of step() keeps the input. *)
LEMMA StepInput == ASSUME TypeOK, InputInv, Step PROVE InputInv'
<1> USE DEF KickPC, NoTurn, HoldsBatch, Stay, Admitting
<1>1. pc \notin HoldsBatch => batch = <<>>
  BY DEF InputInv, Claimed
<1>2. CASE BuildRequest
  BY <1>2, QuietMove DEF BuildRequest, At, phaseVars
<1>3. CASE StartStream
  BY <1>1, <1>3, QuietMove DEF StartStream, Advance, At, phaseVars
<1>4. CASE StreamErrs
  BY <1>1, <1>4, QuietMove DEF StreamErrs, Advance, At, phaseVars
<1>5. CASE Retry
  BY <1>1, <1>5, QuietMove DEF Retry, Advance, At, phaseVars
<1>6. ASSUME NEW result, StreamAnswers(result) PROVE InputInv'
  BY <1>1, <1>6, QuietMove DEF StreamAnswers, Advance, At, phaseVars
<1>7. ASSUME NEW n, StreamAsks(n) PROVE InputInv'
  BY <1>1, <1>7, QuietMove DEF StreamAsks, Advance, At, phaseVars
<1>8. ASSUME NEW p \in StepHook, StepFails(p) PROVE InputInv'
  <2>1. /\ pc = p /\ (stack = <<>> \/ Top("kick")) /\ pc' = "recover" /\ batch' = batch
        /\ UNCHANGED <<inbox, phase, abort, turn, stack>> /\ NoFate
    BY <1>8 DEF StepFails, Throw, At, phaseVars
  <2>2. p \notin KickPC /\ p \notin NoTurn
    BY DEF StepHook
  <2>3. QED
    BY <2>1, <2>2, QuietMove
<1>9. CASE StartCall
  BY <1>1, <1>9, QuietMove DEF StartCall, At, phaseVars, localVars
<1>10. CASE SettleCall
  BY <1>1, <1>10, QuietMove DEF SettleCall, At, phaseVars, localVars
<1>11. CASE FailBatch
  BY <1>11, DeferMove DEF FailBatch, At, Throw, phaseVars
<1>12. CASE Recover
  BY <1>12, QuietMove DEF Recover, At, phaseVars
<1>13. CASE CloseStep
  <2>1. /\ pc = "closeStep" /\ (stack = <<>> \/ Top("kick")) /\ pc' = "stepClosed"
        /\ batch' = <<>> /\ dropped' = dropped \cup Elems(batch)
        /\ UNCHANGED <<inbox, phase, abort, turn, stack, sent, prompts, promoted, admitted,
                       discarded, doomed>>
    BY <1>13 DEF CloseStep, At, phaseVars
  <2>2. dropped' = dropped \cup (Elems(batch) \ Elems(batch'))
    BY <2>1, EmptyList
  <2>3. QED
    BY <2>1, <2>2, DriverMove
<1>14. ASSUME NEW concluded, FinishBatch(concluded) PROVE InputInv'
  BY <1>14, DeferMove DEF FinishBatch, At, phaseVars
<1>15. CASE PrepareRequest
  BY <1>15, QuietMove DEF PrepareRequest, Advance, At, phaseVars
<1>16. ASSUME NEW p \in Admitting, Admit(p) PROVE InputInv'
  BY <1>16, AdmitMove
<1>17. QED
  BY <1>2, <1>3, <1>4, <1>5, <1>6, <1>7, <1>8, <1>9, <1>10, <1>11, <1>12, <1>13, <1>14, <1>15,
     <1>16 DEF Step

----------------------------------------------------------------------------
(* Callers, and the rest of their interrupted calls.                       *)

(* A call that moves no message and no claim: the phase, the abort and the call
   stack may change, and an idle agent's driver may be reserved. *)
LEMMA CallMove ==
    ASSUME TypeOK, InputInv,
           UNCHANGED <<inbox, turn, batch, sent, prompts, promoted, admitted, discarded, dropped, doomed>>,
           StackedOn(stack', pc', discarded \cap promoted),
           \/ UNCHANGED <<phase, pc>>
           \/ batch = <<>> /\ (pc' = "off" <=> phase' # "running") /\ pc' \in {"off", "reserved"},
           Waiting({"clear"}) => Waiting({"clear"})' \/ inbox["next-turn"] = <<>>,
           batch # <<>> /\ (abort # None \/ Waiting({"clear", "abort"}))
             => abort' # None \/ Waiting({"clear", "abort"})'
    PROVE  InputInv'
<1>1. Stacked'
  BY StackedPlaces
<1>2. Settled'
  BY SettledQuiet DEF InputInv
<1>3. Claimed'
  BY DEF InputInv, Claimed
<1>4. /\ Elems(inbox["next-turn"])' = Elems(inbox["next-turn"])
      /\ Elems(inbox["next-step"])' = Elems(inbox["next-step"])
      /\ Elems(batch)' = Elems(batch)
      /\ batch = <<>> => Elems(batch) = {}
      /\ inbox["next-turn"] = <<>> => Elems(inbox["next-turn"]) = {}
  BY EmptyList DEF Elems
<1>5. Prompted' /\ Spared'
  BY <1>4, Fewer DEF InputInv
<1>6. QED
  BY <1>1, <1>2, <1>3, <1>5 DEF InputInv

(* An agent that is not running holds no claim and no driver's frame. *)
LEMMA NotRunning ==
    ASSUME TypeOK, InputInv, phase # "running"
    PROVE  pc = "off" /\ batch = <<>> /\ \A f \in Elems(stack) : f.op # "kick"
<1>1. pc = "off" /\ batch = <<>>
  BY DEF InputInv, Claimed, HoldsBatch
<1>2. StackedOn(stack, pc, discarded \cap promoted)
  BY StackedPlaces DEF InputInv
<1>3. QED
  BY <1>1, <1>2 DEF StackedOn, KickPC

(* A driver is started above calls that keep waiting. *)
LEMMA StartMove ==
    ASSUME TypeOK, InputInv, phase # "running", NEW rest \in Seq(Frame),
           StackedOn(rest, pc, discarded \cap promoted),
           \A f \in Elems(rest) : f.op # "kick",
           Waiting({"clear"}) => \E f \in Elems(rest) : f.op = "clear",
           StartDriver(rest),
           UNCHANGED <<inbox, sent, prompts, promoted, admitted, discarded, dropped, doomed>>
    PROVE  InputInv'
<1>1. /\ phase' = "running" /\ pc' = "reserved" /\ stack' = <<Kick>> \o rest
      /\ UNCHANGED <<turn, batch>>
  BY DEF StartDriver
<1>2. batch = <<>>
  BY NotRunning
<1>3. Kick \in Frame /\ Kick.op = "kick"
  BY FrameKinds
<1>4. StackedOn(rest, "reserved", discarded \cap promoted)
  BY StackedKeeps DEF KickPC
<1>5. StackedOn(stack', pc', discarded \cap promoted)
  BY <1>1, <1>3, <1>4, StackedPush DEF KickPC
<1>6. Elems(stack') = {Kick} \cup Elems(rest)
  BY <1>1, <1>3, PushFrame
<1>7. Waiting({"clear"}) => Waiting({"clear"})'
  <2>1. Elems(stack)' = Elems(stack')
    BY DEF Elems
  <2>2. QED
    BY <1>6, <2>1 DEF Waiting
<1>8. QED
  BY <1>1, <1>2, <1>5, <1>7, CallMove

(* wakeDriver, at the end of a call that a frame below it waits for. *)
LEMMA WakeMove ==
    ASSUME TypeOK, InputInv, stack # <<>>, Head(stack).op \in {"wake", "replay"},
           NEW late, WakeDriver(late, Tail(stack)),
           UNCHANGED <<inbox, sent, prompts, promoted, admitted, discarded, dropped, doomed>>
    PROVE  InputInv'
<1> DEFINE rest == Tail(stack)
<1>1. /\ StackedOn(stack, pc, discarded \cap promoted)
      /\ rest \in Seq(Frame) /\ Elems(stack) = {Head(stack)} \cup Elems(rest)
      /\ StackedOn(rest, pc, discarded \cap promoted)
  BY StackedPlaces, StackedPop, PopFrame DEF InputInv, TypeOK
<1>2. /\ Waiting({"clear"}) => \E f \in Elems(rest) : f.op = "clear"
      /\ Waiting({"clear", "abort"}) => \E f \in Elems(rest) : f.op \in {"clear", "abort"}
  BY <1>1 DEF Waiting
<1> HIDE DEF rest
<1>3. CASE phase = "idle" /\ StartDriver(rest)
  <2>1. \A f \in Elems(rest) : f.op # "kick"
    BY <1>1, <1>3, NotRunning
  <2>2. QED
    BY <1>1, <1>2, <1>3, <2>1, StartMove
<1>4. CASE LatchWake(late) /\ stack' = rest
  <2>1. UNCHANGED <<phase, abort, turn, pc, batch>>
    BY <1>4 DEF LatchWake, localVars
  <2>2. Elems(stack)' = Elems(rest)
    BY <1>4 DEF Elems
  <2>3. /\ Waiting({"clear"}) => Waiting({"clear"})'
        /\ Waiting({"clear", "abort"}) => Waiting({"clear", "abort"})'
    BY <1>2, <2>2 DEF Waiting
  <2>4. QED
    BY <1>1, <1>4, <2>1, <2>3, CallMove
<1>5. QED
  BY <1>3, <1>4 DEF WakeDriver, rest

(* A frame that is neither a driver's run nor a promotion joins any stack. *)
LEMMA PushMove ==
    ASSUME NEW f \in Frame, f.op \notin {"kick", "steer"}, NEW rest \in Seq(Frame),
           StackedOn(rest, pc, discarded \cap promoted), stack' = <<f>> \o rest, pc' = pc,
           discarded \cap promoted \subseteq discarded' \cap promoted'
    PROVE  /\ Stacked'
           /\ \A ops : Waiting(ops)' <=> f.op \in ops \/ \E g \in Elems(rest) : g.op \in ops
<1>1. StackedOn(rest, pc', discarded' \cap promoted')
  BY StackedKeeps
<1>2. StackedOn(stack', pc', discarded' \cap promoted')
  BY <1>1, StackedPush
<1>3. Stacked'
  BY <1>2, StackedPlaces
<1>4. Elems(stack)' = {f} \cup Elems(rest)
  <2>1. Elems(<<f>> \o rest) = {f} \cup Elems(rest)
    BY PushFrame
  <2>2. QED
    BY <2>1 DEF Elems
<1>5. \A ops : Waiting(ops)' <=> f.op \in ops \/ \E g \in Elems(rest) : g.op \in ops
  BY <1>4 DEF Waiting
<1>6. QED
  BY <1>3, <1>5

(* send queues a message that was never sent before. *)
LEMMA SendMove ==
    ASSUME TypeOK, InputInv, NEW m \in Message, NEW target \in Target, NEW wakeup \in BOOLEAN,
           Send(m, target, wakeup)
    PROVE  InputInv'
<1> DEFINE late == wakeup /\ phase # "idle" /\ abort # None
           resolved == IF late THEN "next-turn" ELSE target
           f == [op |-> "wake", late |-> late]
<1>1. /\ m \notin sent /\ sent' = sent \cup {m}
      /\ inbox' = [inbox EXCEPT ![resolved] = Append(@, m)]
      /\ prompts' = IF resolved = "next-turn" THEN prompts \cup {m} ELSE prompts \ {m}
      /\ stack' = IF wakeup THEN <<f>> \o stack ELSE stack
      /\ UNCHANGED <<phase, abort, turn, pc, batch, promoted, admitted, discarded, dropped, doomed>>
  BY DEF Send, Queue, phaseVars, localVars
<1>2. resolved \in Target /\ f \in Frame /\ f.op = "wake"
  BY FrameKinds DEF Target
<1> HIDE DEF resolved, f
<1>3. /\ stack \in Seq(Frame) /\ StackedOn(stack, pc, discarded \cap promoted)
  BY StackedPlaces DEF InputInv, TypeOK
<1>4. /\ Stacked'
      /\ Waiting({"clear"}) => Waiting({"clear"})'
      /\ Waiting({"clear", "abort"}) => Waiting({"clear", "abort"})'
  <2>1. CASE wakeup
    <3>1. stack' = <<f>> \o stack
      BY <1>1, <2>1
    <3>2. /\ Stacked'
          /\ \A ops : Waiting(ops)' <=> f.op \in ops \/ \E g \in Elems(stack) : g.op \in ops
      BY <1>1, <1>2, <1>3, <3>1, PushMove
    <3>3. QED
      BY <3>2 DEF Waiting
  <2>2. CASE ~wakeup
    <3>1. stack' = stack
      BY <1>1, <2>2
    <3>2. QED
      BY <1>1, <1>3, <3>1, StackedPlaces DEF Waiting, Elems
  <2>3. QED
    BY <2>1, <2>2
<1>5. Settled' /\ Prompted' /\ Spared'
  BY <1>1, <1>2, <1>4, FreshInput
<1>6. Claimed'
  BY <1>1, ClaimedMove DEF InputInv, Claimed
<1>7. QED
  BY <1>4, <1>5, <1>6 DEF InputInv

(* A withdrawn message is discarded and nowhere else. *)
LEMMA SpliceMove ==
    ASSUME TypeOK, InputInv, NEW target \in Target, NEW i \in DOMAIN inbox[target], Splice(target, i),
           Waiting({"clear"}) => Waiting({"clear"})',
           Waiting({"clear", "abort"}) => Waiting({"clear", "abort"})'
    PROVE  Settled' /\ Claimed' /\ Prompted' /\ Spared'
<1> DEFINE queue == inbox[target]
           rest == SubSeq(queue, 1, i - 1) \o SubSeq(queue, i + 1, Len(queue))
           m == queue[i]
<1>1. /\ discarded' = discarded \cup {m}
      /\ inbox'[target] = rest /\ \A other \in Target \ {target} : inbox'[other] = inbox[other]
      /\ UNCHANGED <<phase, abort, turn, pc, batch, sent, prompts, admitted, dropped, doomed>>
  BY DEF Splice, TypeOK, phaseVars, localVars
<1>2. queue \in Seq(Message) /\ Distinct(queue)
  BY DEF TypeOK, InputInv, Settled, Target
<1>3. m \in Elems(queue) /\ m \in Message
  BY <1>2, ElemsType DEF Elems
<1>4. Elems(rest) = Elems(queue) \ {m} /\ Distinct(rest)
  BY <1>2, SpliceList
<1> HIDE DEF rest, m
<1>5. /\ Elems(inbox'[target]) = Elems(inbox[target]) \ {m}
      /\ \A other \in Target \ {target} : Elems(inbox'[other]) = Elems(inbox[other])
  BY <1>1, <1>4
<1>6. /\ Elems(inbox["next-turn"])' = IF target = "next-turn" THEN Elems(inbox["next-turn"]) \ {m}
                                                              ELSE Elems(inbox["next-turn"])
      /\ Elems(inbox["next-step"])' = IF target = "next-step" THEN Elems(inbox["next-step"]) \ {m}
                                                              ELSE Elems(inbox["next-step"])
      /\ Elems(batch)' = Elems(batch)
  <2>1. /\ Elems(inbox["next-turn"])' = Elems(inbox'["next-turn"])
        /\ Elems(inbox["next-step"])' = Elems(inbox'["next-step"])
        /\ Elems(batch)' = Elems(batch)
    BY <1>1 DEF Elems
  <2>2. QED
    BY <1>5, <2>1 DEF Target
<1>7. Settled'
  <2>1. Distinct(inbox'["next-turn"]) /\ Distinct(inbox'["next-step"]) /\ Distinct(batch')
    BY <1>1, <1>4 DEF Target, InputInv, Settled
  <2>2. ASSUME NEW n \in Message, Places(n) PROVE Places(n)'
    <3>1. CASE n = m
      BY <1>1, <1>3, <1>6, <2>2, <3>1 DEF Places, OneOf, Target
    <3>2. CASE n # m
      BY <1>1, <1>6, <2>2, <3>2 DEF Places, OneOf
    <3>3. QED
      BY <3>1, <3>2
  <2>3. QED
    BY <2>1, <2>2, SettledMoves DEF InputInv
<1>8. Claimed'
  BY <1>1, ClaimedMove DEF InputInv, Claimed
<1>9. Prompted' /\ Spared'
  BY <1>1, <1>6, Fewer DEF InputInv
<1>10. QED
  BY <1>7, <1>8, <1>9

(* Inbox.remove withdraws one message. *)
LEMMA RemoveMove ==
    ASSUME TypeOK, InputInv, NEW target \in Target, NEW i \in DOMAIN inbox[target], Remove(target, i)
    PROVE  InputInv'
<1>1. Splice(target, i) /\ UNCHANGED <<stack, promoted, pc>> /\ discarded \subseteq discarded'
  BY DEF Remove, Splice, localVars
<1>2. Waiting({"clear"})' <=> Waiting({"clear"})
  BY <1>1 DEF Waiting, Elems
<1>3. Waiting({"clear", "abort"})' <=> Waiting({"clear", "abort"})
  BY <1>1 DEF Waiting, Elems
<1>4. Stacked'
  <2>1. StackedOn(stack, pc, discarded \cap promoted)
    BY StackedPlaces DEF InputInv
  <2>2. StackedOn(stack, pc', discarded' \cap promoted')
    BY <1>1, <2>1, StackedKeeps
  <2>3. QED
    BY <1>1, <2>2, StackedPlaces
<1>5. QED
  BY <1>1, <1>2, <1>3, <1>4, SpliceMove DEF InputInv

(* A promoted prompt is withdrawn, and waits on the stack to be sent again. *)
LEMMA PromoteMove ==
    ASSUME TypeOK, InputInv, NEW i \in DOMAIN inbox["next-turn"], Promote(i)
    PROVE  InputInv'
<1> DEFINE m == inbox["next-turn"][i]
           f == [op |-> "steer", prompt |-> m]
           S == discarded' \cap promoted'
<1>1. /\ Splice("next-turn", i) /\ stack' = <<f>> \o stack /\ pc' = pc
      /\ m \notin promoted /\ promoted' = promoted \cup {m} /\ discarded' = discarded \cup {m}
  BY DEF Promote, Push, Splice, localVars
<1>2. m \in Message
  BY ElemsType DEF TypeOK, Target, Elems
<1>3. f \in Frame /\ f.op = "steer" /\ f.prompt = m
  BY <1>2, FrameKinds
<1>4. stack \in Seq(Frame) /\ StackedOn(stack, pc, discarded \cap promoted)
  BY StackedPlaces DEF InputInv, TypeOK
<1>5. m \in S /\ discarded \cap promoted \subseteq S
  BY <1>1
<1> HIDE DEF m, f, S
<1>6. \A g \in Elems(stack) : g.op = "steer" => g.prompt # m
  BY <1>1, <1>4 DEF StackedOn
<1>7. StackedOn(stack, pc, S)
  BY <1>4, <1>5, StackedKeeps
<1>8. StackedOn(<<f>> \o stack, pc, S)
  BY <1>3, <1>4, <1>5, <1>6, <1>7, StackedPush
<1>9. Stacked'
  BY <1>1, <1>8, StackedPlaces DEF S
<1>10. Elems(stack)' = {f} \cup Elems(stack)
  <2>1. Elems(<<f>> \o stack) = {f} \cup Elems(stack)
    BY <1>3, <1>4, PushFrame
  <2>2. QED
    BY <1>1, <2>1 DEF Elems
<1>11. /\ Waiting({"clear"}) => Waiting({"clear"})'
       /\ Waiting({"clear", "abort"}) => Waiting({"clear", "abort"})'
  BY <1>10 DEF Waiting
<1>12. QED
  BY <1>1, <1>9, <1>11, SpliceMove DEF InputInv, Target

(* A promoted prompt is sent again as steering: it leaves the discarded ones,
   and neither its prompt nor the cancel it escaped matters to it any more. *)
LEMMA SteerMove == ASSUME TypeOK, InputInv, Steer PROVE InputInv'
<1> DEFINE m == Head(stack).prompt
           rest == Tail(stack)
           late == phase # "idle" /\ abort # None
           resolved == IF late THEN "next-turn" ELSE "next-step"
           f == [op |-> "wake", late |-> late]
           S == discarded \cap promoted
<1>1. stack # <<>> /\ Head(stack).op = "steer"
  BY DEF Steer, Top
<1>2. /\ inbox' = [inbox EXCEPT ![resolved] = Append(@, m)]
      /\ prompts' = IF resolved = "next-turn" THEN prompts \cup {m} ELSE prompts \ {m}
      /\ stack' = <<f>> \o rest
      /\ discarded' = discarded \ {m} /\ doomed' = doomed \ {m}
      /\ UNCHANGED <<phase, abort, turn, pc, batch, sent, promoted, admitted, dropped>>
  BY DEF Steer, Queue, phaseVars, localVars
<1>3. resolved \in Target /\ f \in Frame /\ f.op = "wake"
  BY FrameKinds DEF Target
<1>4. /\ StackedOn(stack, pc, S) /\ rest \in Seq(Frame) /\ Head(stack) \in Frame
      /\ Elems(stack) = {Head(stack)} \cup Elems(rest)
      /\ StackedOn(rest, pc, S) /\ m \in S
      /\ \A g \in Elems(rest) : g.op = "steer" => g.prompt # m
  BY <1>1, StackedPlaces, StackedPop, PopFrame DEF InputInv, TypeOK
<1>5. m \in Message
  BY <1>1, <1>4, FrameIdentity
<1> HIDE DEF m, rest, late, resolved, f
<1>6. Stacked'
  <2>1. StackedOn(rest, pc', discarded' \cap promoted')
    <3>1. \A g \in Elems(rest) : g.op = "steer" /\ g.prompt \in S => g.prompt \in discarded' \cap promoted'
      BY <1>2, <1>4
    <3>2. QED
      BY <1>2, <1>4, <3>1, StackedKeeps
  <2>2. StackedOn(<<f>> \o rest, pc', discarded' \cap promoted')
    BY <1>3, <1>4, <2>1, StackedPush
  <2>3. QED
    BY <1>2, <2>2, StackedPlaces
<1>7. Elems(stack)' = {f} \cup Elems(rest)
  <2>1. Elems(<<f>> \o rest) = {f} \cup Elems(rest)
    BY <1>3, <1>4, PushFrame
  <2>2. QED
    BY <1>2, <2>1 DEF Elems
<1>8. /\ Waiting({"clear"}) => Waiting({"clear"})'
      /\ Waiting({"clear", "abort"}) => Waiting({"clear", "abort"})'
  BY <1>1, <1>4, <1>7 DEF Waiting
<1>9. Places(m)
  BY <1>5, KeptPlaces DEF InputInv, Settled
<1>10. /\ m \notin Elems(inbox["next-turn"]) /\ m \notin Elems(inbox["next-step"])
       /\ m \notin Elems(batch) /\ admitted[m] = 0 /\ m \notin dropped
       /\ sent' = sent \cup {m}
  BY <1>2, <1>4, <1>9 DEF Places, OneOf
<1>11. Settled' /\ Prompted' /\ Spared'
  BY <1>2, <1>3, <1>5, <1>8, <1>10, QueueMove
<1>12. Claimed'
  BY <1>2, ClaimedMove DEF InputInv, Claimed
<1>13. QED
  BY <1>6, <1>11, <1>12 DEF InputInv

(* A cancel that reaches a claim finds the activity that holds it, and aborts it. *)
LEMMA AbortMove ==
    ASSUME TypeOK, Claimed, NEW cause \in Cause, NEW keepInbox, Abort(cause, keepInbox)
    PROVE  /\ batch # <<>> => abort' # None
           /\ UNCHANGED <<phase, turn, pc, batch>>
<1>1. batch # <<>> => phase # "idle"
  BY DEF Claimed, HoldsBatch
<1>2. None \notin Cause
  BY DEF None, Cause
<1>3. QED
  BY <1>1, <1>2 DEF Abort, localVars

(* A cleared queue is empty, and what it held is discarded. *)
LEMMA ClearMove ==
    ASSUME TypeOK, Settled, NEW target \in Target, ClearQueue(target),
           UNCHANGED <<batch, admitted, dropped, sent>>
    PROVE  /\ Settled'
           /\ \A other \in Target : Elems(inbox[other])' = IF other = target THEN {}
                                                                           ELSE Elems(inbox[other])
           /\ Elems(batch)' = Elems(batch)
<1>1. /\ inbox'[target] = <<>> /\ \A other \in Target \ {target} : inbox'[other] = inbox[other]
      /\ discarded' = discarded \cup Elems(inbox[target])
  BY DEF ClearQueue, TypeOK
<1>2. /\ \A other \in Target : Elems(inbox[other])' = IF other = target THEN {}
                                                                      ELSE Elems(inbox[other])
      /\ Elems(batch)' = Elems(batch)
  BY <1>1, EmptyList DEF Elems
<1>3. Settled'
  <2>1. Distinct(inbox'["next-turn"]) /\ Distinct(inbox'["next-step"]) /\ Distinct(batch')
    BY <1>1, EmptyList DEF Target, Settled
  <2>2. ASSUME NEW n \in Message, Places(n) PROVE Places(n)'
    <3>1. CASE target = "next-turn"
      BY <1>1, <1>2, <2>2, <3>1 DEF Places, OneOf, Target
    <3>2. CASE target = "next-step"
      BY <1>1, <1>2, <2>2, <3>2 DEF Places, OneOf, Target
    <3>3. QED
      BY <3>1, <3>2 DEF Target
  <2>3. QED
    BY <2>1, <2>2, SettledMoves
<1>4. QED
  BY <1>2, <1>3

(* cancel: what it is to keep from running is claimed by the activity it aborts,
   or cleared, or waits for its second splice. *)
LEMMA CancelMove ==
    ASSUME TypeOK, InputInv, NEW cause \in Cause, NEW keepInbox \in BOOLEAN, Cancel(cause, keepInbox)
    PROVE  InputInv'
<1>1. /\ UNCHANGED <<sent, prompts, promoted, admitted, dropped>>
      /\ doomed' = doomed
             \cup (IF keepInbox THEN {} ELSE Pending)
             \cup (IF phase = "running" /\ pc \notin Admitting THEN Elems(batch) ELSE {})
  BY DEF Cancel, Doom
<1>2. /\ stack \in Seq(Frame) /\ StackedOn(stack, pc, discarded \cap promoted)
  BY StackedPlaces DEF InputInv, TypeOK
<1>3. Pending = Elems(inbox["next-turn"]) \cup Elems(inbox["next-step"])
  BY DEF Pending
<1>4. ASSUME NEW m \in doomed' \ doomed
      PROVE  /\ m \in sent /\ admitted[m] = 0
             /\ \/ m \in Pending /\ m \notin Elems(batch) /\ ~keepInbox
                \/ m \in Elems(batch) /\ m \notin Pending /\ pc \notin Admitting
  <2>1. m \in Message
    BY <1>1, PendingType
  <2>2. Places(m)
    BY <2>1, KeptPlaces DEF InputInv, Settled
  <2>3. \/ m \in Pending /\ ~keepInbox
        \/ m \in Elems(batch) /\ pc \notin Admitting
    <3>1. CASE keepInbox
      BY <1>1, <3>1
    <3>2. CASE ~keepInbox
      BY <1>1, <3>2
    <3>3. QED
      BY <3>1, <3>2
  <2>4. QED
    BY <1>3, <2>2, <2>3 DEF Places, OneOf
<1>5. doomed' \subseteq sent' /\ CancelledInputNeverRuns'
  BY <1>1, <1>4 DEF InputInv, Spared, CancelledInputNeverRuns
<1>6. \A m \in doomed : /\ m \notin Elems(inbox["next-step"])
                        /\ m \in Elems(inbox["next-turn"]) => Waiting({"clear"})
                        /\ m \in Elems(batch) => pc \notin Admitting
  BY DEF InputInv, Spared
<1>7. CASE keepInbox \/ ~HasPending
  <2>1. Abort(cause, keepInbox) /\ UNCHANGED <<inbox, discarded, stack>>
    BY <1>7 DEF Cancel, HasPending
  <2>2. (batch # <<>> => abort' # None) /\ UNCHANGED <<phase, turn, pc, batch>>
    BY <2>1, AbortMove DEF InputInv
  <2>3. /\ Elems(inbox["next-turn"])' = Elems(inbox["next-turn"])
        /\ Elems(inbox["next-step"])' = Elems(inbox["next-step"])
        /\ Elems(batch)' = Elems(batch)
        /\ batch = <<>> => Elems(batch) = {}
        /\ Waiting({"clear"})' <=> Waiting({"clear"})
    BY <2>1, <2>2, EmptyList DEF Elems, Waiting
  <2>4. ~keepInbox => Pending = {}
    BY <1>3, <1>7, EmptyList DEF HasPending
  <2>5. Spared'
    BY <1>4, <1>5, <1>6, <2>2, <2>3, <2>4, <1>3 DEF Spared
  <2>6. Settled'
    BY <1>1, <2>1, <2>2, SettledQuiet DEF InputInv
  <2>7. Claimed'
    BY <1>1, <2>2, ClaimedMove DEF InputInv, Claimed
  <2>8. Stacked'
    BY <1>2, <2>1, <2>2, <1>1, StackedPlaces
  <2>9. Prompted'
    BY <1>1, <2>2, <2>3 DEF InputInv, Prompted, OnePromptPerTurn
  <2>10. QED
    BY <2>5, <2>6, <2>7, <2>8, <2>9 DEF InputInv
<1>8. ASSUME NEW target \in Target, NEW f \in Frame, f.op \in {"clear", "abort"},
             target = "next-step" => f.op = "clear",
             target = "next-turn" => inbox["next-step"] = <<>>,
             ClearQueue(target), stack' = <<f>> \o stack, UNCHANGED <<phaseVars, localVars>>
      PROVE  InputInv'
  <2>1. UNCHANGED <<phase, abort, turn, pc, batch>> /\ discarded \subseteq discarded'
    BY <1>8 DEF phaseVars, localVars, ClearQueue
  <2>2. /\ Settled'
        /\ \A other \in Target : Elems(inbox[other])' = IF other = target THEN {}
                                                                        ELSE Elems(inbox[other])
        /\ Elems(batch)' = Elems(batch)
    BY <1>1, <1>8, <2>1, ClearMove DEF InputInv
  <2>3. /\ Elems(inbox["next-step"])' = {}
        /\ Elems(inbox["next-turn"])' \subseteq Elems(inbox["next-turn"])
        /\ f.op = "clear" \/ Elems(inbox["next-turn"])' = {}
    <3>1. inbox["next-step"] = <<>> => Elems(inbox["next-step"]) = {}
      BY EmptyList
    <3>2. QED
      BY <1>8, <2>2, <3>1 DEF Target
  <2>4. /\ Stacked'
        /\ Waiting({"clear"})' <=> f.op \in {"clear"} \/ \E g \in Elems(stack) : g.op \in {"clear"}
        /\ Waiting({"clear", "abort"})'
    <3>1. /\ Stacked'
          /\ \A ops : Waiting(ops)' <=> f.op \in ops \/ \E g \in Elems(stack) : g.op \in ops
      BY <1>1, <1>2, <1>8, <2>1, PushMove
    <3>2. QED
      BY <1>8, <3>1
  <2>5. Spared'
    <3>1. ASSUME NEW m \in doomed'
          PROVE  /\ m \in Elems(inbox["next-turn"])' => Waiting({"clear"})'
                 /\ m \in Elems(batch)' => pc \notin Admitting
      <4>1. m \in Elems(inbox["next-turn"])' => Waiting({"clear"})'
        BY <2>3, <2>4
      <4>2. m \in Elems(batch) => pc \notin Admitting
        BY <1>4, <1>6
      <4>3. QED
        BY <2>2, <4>1, <4>2
    <3>2. QED
      BY <1>5, <2>1, <2>3, <2>4, <3>1 DEF Spared
  <2>6. Claimed'
    BY <1>1, <2>1, ClaimedMove DEF InputInv, Claimed
  <2>7. Prompted'
    BY <1>1, <2>1, <2>2, <2>3 DEF InputInv, Prompted, OnePromptPerTurn
  <2>8. QED
    BY <2>2, <2>4, <2>5, <2>6, <2>7 DEF InputInv
<1>9. CASE ~keepInbox /\ inbox["next-step"] # <<>>
  <2> DEFINE f == [op |-> "clear", cause |-> cause]
  <2>1. /\ ClearQueue("next-step") /\ stack' = <<f>> \o stack
        /\ UNCHANGED <<phaseVars, localVars>>
    BY <1>9 DEF Cancel, HasPending, Push
  <2>2. f \in Frame /\ f.op = "clear"
    BY FrameKinds
  <2> HIDE DEF f
  <2> DEFINE target == "next-step"
  <2>3. /\ target \in Target /\ f.op \in {"clear", "abort"} /\ ClearQueue(target)
        /\ target = "next-step" => f.op = "clear"
        /\ target = "next-turn" => inbox["next-step"] = <<>>
    BY <2>1, <2>2 DEF Target
  <2> HIDE DEF target
  <2>4. QED
    BY <1>8, <2>1, <2>2, <2>3
<1>10. CASE ~keepInbox /\ inbox["next-step"] = <<>> /\ inbox["next-turn"] # <<>>
  <2> DEFINE f == [op |-> "abort", cause |-> cause]
  <2>1. /\ ClearQueue("next-turn") /\ stack' = <<f>> \o stack
        /\ UNCHANGED <<phaseVars, localVars>>
    BY <1>10 DEF Cancel, HasPending, Push
  <2>2. f \in Frame /\ f.op = "abort"
    BY FrameKinds
  <2> HIDE DEF f
  <2>3. QED
    BY <1>8, <1>10, <2>1, <2>2 DEF Target
<1>11. QED
  BY <1>7, <1>9, <1>10 DEF HasPending

(* cancel goes on: it clears the prompts, or aborts the activity. *)
LEMMA ClearTurnMove == ASSUME TypeOK, InputInv, ClearTurn PROVE InputInv'
<1> DEFINE cause == Head(stack).cause
           rest == Tail(stack)
<1>1. /\ stack # <<>> /\ Head(stack).op = "clear"
      /\ UNCHANGED <<sent, prompts, promoted, admitted, dropped, doomed>>
  BY DEF ClearTurn, Top
<1>2. /\ StackedOn(stack, pc, discarded \cap promoted)
      /\ Head(stack) \in Frame /\ rest \in Seq(Frame)
      /\ Elems(stack) = {Head(stack)} \cup Elems(rest)
      /\ StackedOn(rest, pc, discarded \cap promoted)
  BY <1>1, StackedPlaces, StackedPop, PopFrame DEF InputInv, TypeOK
<1>3. cause \in Cause
  BY <1>1, <1>2, FrameIdentity
<1>4. CASE inbox["next-turn"] = <<>>
  <2>1. Abort(cause, FALSE) /\ stack' = rest /\ UNCHANGED <<inbox, discarded>>
    BY <1>4 DEF ClearTurn
  <2> HIDE DEF cause, rest
  <2>2. (batch # <<>> => abort' # None) /\ UNCHANGED <<phase, turn, pc, batch>>
    BY <1>3, <2>1, AbortMove DEF InputInv
  <2>3. QED
    BY <1>1, <1>2, <1>4, <2>1, <2>2, CallMove
<1>5. CASE inbox["next-turn"] # <<>>
  <2> DEFINE f == [op |-> "abort", cause |-> cause]
  <2>1. /\ ClearQueue("next-turn") /\ stack' = <<f>> \o rest
        /\ UNCHANGED <<phaseVars, localVars>>
    BY <1>5 DEF ClearTurn
  <2>2. f \in Frame /\ f.op = "abort"
    BY <1>3, FrameKinds
  <2> HIDE DEF cause, rest, f
  <2>3. UNCHANGED <<phase, abort, turn, pc, batch>> /\ discarded \subseteq discarded'
    BY <2>1 DEF phaseVars, localVars, ClearQueue
  <2>4. /\ Settled'
        /\ \A other \in Target : Elems(inbox[other])' = IF other = "next-turn" THEN {}
                                                                             ELSE Elems(inbox[other])
        /\ Elems(batch)' = Elems(batch)
    BY <1>1, <2>1, <2>3, ClearMove DEF InputInv, Target
  <2>5. /\ Elems(inbox["next-turn"])' = {}
        /\ Elems(inbox["next-step"])' = Elems(inbox["next-step"])
    BY <2>4 DEF Target
  <2>6. Stacked' /\ Waiting({"clear", "abort"})'
    <3>1. /\ Stacked'
          /\ \A ops : Waiting(ops)' <=> f.op \in ops \/ \E g \in Elems(rest) : g.op \in ops
      BY <1>1, <1>2, <2>1, <2>2, <2>3, PushMove
    <3>2. QED
      BY <2>2, <3>1
  <2>7. Prompted' /\ Spared'
    BY <1>1, <2>3, <2>4, <2>5, <2>6, Fewer DEF InputInv
  <2>8. Claimed'
    BY <1>1, <2>3, ClaimedMove DEF InputInv, Claimed
  <2>9. QED
    BY <2>4, <2>6, <2>7, <2>8 DEF InputInv
<1>6. QED
  BY <1>4, <1>5

(* cancel's last part aborts the activity. *)
LEMMA FinishCancelMove == ASSUME TypeOK, InputInv, FinishCancel PROVE InputInv'
<1> DEFINE cause == Head(stack).cause
           rest == Tail(stack)
<1>1. /\ stack # <<>> /\ Head(stack).op = "abort"
      /\ Abort(cause, FALSE) /\ stack' = rest
      /\ UNCHANGED <<inbox, sent, prompts, promoted, admitted, discarded, dropped, doomed>>
  BY DEF FinishCancel, Top, histVars
<1>2. /\ StackedOn(stack, pc, discarded \cap promoted)
      /\ Head(stack) \in Frame /\ rest \in Seq(Frame)
      /\ Elems(stack) = {Head(stack)} \cup Elems(rest)
      /\ StackedOn(rest, pc, discarded \cap promoted)
  BY <1>1, StackedPlaces, StackedPop, PopFrame DEF InputInv, TypeOK
<1>3. cause \in Cause
  BY <1>1, <1>2, FrameIdentity
<1> HIDE DEF cause, rest
<1>4. (batch # <<>> => abort' # None) /\ UNCHANGED <<phase, turn, pc, batch>>
  BY <1>1, <1>3, AbortMove DEF InputInv
<1>5. Waiting({"clear"}) => Waiting({"clear"})'
  <2>1. Elems(stack)' = Elems(rest)
    BY <1>1 DEF Elems
  <2>2. QED
    BY <1>1, <1>2, <2>1 DEF Waiting
<1>6. QED
  BY <1>1, <1>2, <1>4, <1>5, CallMove

(* Maintenance claims an idle agent, and returns it with its input. *)
LEMMA MaintenanceMove ==
    ASSUME TypeOK, InputInv, StartMaintenance \/ EndMaintenance
    PROVE  InputInv'
<1>1. phase # "running" /\ pc = "off" /\ batch = <<>>
  BY NotRunning DEF StartMaintenance, EndMaintenance
<1>2. UNCHANGED <<inbox, sent, prompts, promoted, admitted, discarded, dropped, doomed>>
  BY DEF StartMaintenance, EndMaintenance, histVars
<1>3. StackedOn(stack, pc, discarded \cap promoted)
  BY StackedPlaces DEF InputInv
<1>4. CASE EndMaintenance /\ StartDriver(stack)
  <2>1. stack = <<>> /\ stack \in Seq(Frame) /\ Elems(stack) = {} /\ ~Waiting({"clear"})
    BY <1>4, EmptyList DEF EndMaintenance, Waiting, TypeOK
  <2>2. QED
    BY <1>1, <1>2, <1>3, <1>4, <2>1, StartMove
<1>5. CASE \/ StartMaintenance
           \/ EndMaintenance /\ phase' = "idle" /\ UNCHANGED <<turn, localVars, stack>>
  <2>1. UNCHANGED <<turn, batch, pc, stack>> /\ phase' # "running"
    BY <1>5 DEF StartMaintenance, localVars
  <2>2. Waiting({"clear"})' <=> Waiting({"clear"})
    BY <2>1 DEF Waiting, Elems
  <2>3. QED
    BY <1>1, <1>2, <1>3, <2>1, <2>2, CallMove
<1>6. QED
  BY <1>4, <1>5 DEF EndMaintenance

(* Every caller's operation keeps the input. *)
LEMMA CallerInput == ASSUME TypeOK, InputInv, Caller PROVE InputInv'
<1>1. ASSUME NEW keepInbox \in BOOLEAN, UserCancel(keepInbox) \/ Dispose(keepInbox) PROVE InputInv'
  <2>1. Cancel("user", keepInbox) \/ Cancel("disposed", keepInbox)
    BY <1>1 DEF UserCancel, Dispose
  <2>2. QED
    BY <2>1, CancelMove DEF Cause
<1>2. QED
  BY <1>1, SendMove, RemoveMove, PromoteMove, MaintenanceMove DEF Caller

(* The rest of every interrupted call keeps the input. *)
LEMMA ReturnInput == ASSUME TypeOK, InputInv, Return PROVE InputInv'
<1>1. CASE Wake
  BY <1>1, WakeMove DEF Wake, Top, histVars
<1>2. CASE Replay
  <2>1. /\ stack # <<>> /\ Head(stack).op = "replay"
        /\ UNCHANGED <<inbox, sent, prompts, promoted, admitted, discarded, dropped, doomed>>
    BY <1>2 DEF Replay, Top, histVars
  <2>2. CASE WakeDriver(FALSE, Tail(stack))
    BY <2>1, <2>2, WakeMove
  <2>3. CASE stack' = Tail(stack) /\ UNCHANGED <<phaseVars, localVars>>
    <3>1. /\ StackedOn(Tail(stack), pc, discarded \cap promoted)
          /\ Elems(stack) = {Head(stack)} \cup Elems(Tail(stack))
      BY <2>1, StackedPlaces, StackedPop, PopFrame DEF InputInv, TypeOK
    <3>2. UNCHANGED <<phase, abort, turn, pc, batch>>
      BY <2>3 DEF phaseVars, localVars
    <3>3. /\ Waiting({"clear"}) => Waiting({"clear"})'
          /\ Waiting({"clear", "abort"}) => Waiting({"clear", "abort"})'
      <4>1. Elems(stack)' = Elems(Tail(stack))
        BY <2>3 DEF Elems
      <4>2. QED
        BY <2>1, <3>1, <4>1 DEF Waiting
    <3>4. QED
      BY <2>1, <2>3, <3>1, <3>2, <3>3, CallMove
  <2>4. QED
    BY <1>2, <2>2, <2>3 DEF Replay
<1>3. QED
  BY <1>1, <1>2, SteerMove, ClearTurnMove, FinishCancelMove DEF Return

----------------------------------------------------------------------------
(* Input is kept.                                                          *)

(* A new or resumed agent's parked input is pending and nowhere else. *)
LEMMA InputInit == Init => InputInv
<1> SUFFICES ASSUME Init PROVE InputInv
  OBVIOUS
<1>1. PICK parked \in {<<>>} \cup {<<m>> : m \in Message} :
         /\ inbox = [t \in Target |-> IF t = "next-turn" THEN parked ELSE <<>>]
         /\ sent = Elems(parked) /\ prompts = Elems(parked)
  BY DEF Init
<1>2. /\ phase = "idle" /\ turn = 0 /\ pc = "off" /\ batch = <<>> /\ stack = <<>>
      /\ admitted = [m \in Message |-> 0] /\ discarded = {} /\ dropped = {} /\ doomed = {}
  BY DEF Init
<1>3. inbox["next-turn"] = parked /\ inbox["next-step"] = <<>>
  BY <1>1 DEF Target
<1>4. Elems(parked) \subseteq Message /\ Distinct(parked)
  <2>1. CASE parked = <<>>
    BY <2>1, EmptyList
  <2>2. ASSUME NEW m \in Message, parked = <<m>> PROVE Elems(parked) \subseteq Message /\ Distinct(parked)
    BY <2>2 DEF Elems, Distinct
  <2>3. QED
    BY <1>1, <2>1, <2>2
<1>5. Settled
  <2>1. \A m \in Message : Places(m)
    BY <1>1, <1>2, <1>3, EmptyList DEF Places, OneOf
  <2>2. QED
    BY <1>2, <1>3, <1>4, <2>1, EmptyList, KeptPlaces DEF Settled
<1>6. Claimed
  BY <1>2 DEF Claimed
<1>7. Stacked
  BY <1>2, EmptyList DEF Stacked, Once
<1>8. Prompted /\ Spared
  BY <1>1, <1>2, <1>3, <1>4, EmptyList
     DEF Prompted, OnePromptPerTurn, Spared, CancelledInputNeverRuns
<1>9. QED
  BY <1>5, <1>6, <1>7, <1>8 DEF InputInv

(* A step that changes nothing keeps the input. *)
LEMMA InputStutters == ASSUME InputInv, UNCHANGED vars PROVE InputInv'
<1>1. UNCHANGED <<inbox, phase, abort, turn, pc, batch, stack, sent, prompts, promoted, admitted,
                  discarded, dropped, doomed>>
  BY DEF vars, phaseVars, localVars, histVars
<1>2. Settled'
  BY <1>1, SettledQuiet DEF InputInv
<1>3. Claimed'
  BY <1>1, ClaimedMove DEF InputInv, Claimed
<1>4. Stacked'
  BY <1>1, StackedPlaces DEF InputInv
<1>5. Prompted' /\ Spared'
  <2>1. /\ Elems(inbox["next-turn"])' = Elems(inbox["next-turn"])
        /\ Elems(inbox["next-step"])' = Elems(inbox["next-step"])
        /\ Elems(batch)' = Elems(batch)
        /\ Waiting({"clear"})' <=> Waiting({"clear"})
        /\ Waiting({"clear", "abort"})' <=> Waiting({"clear", "abort"})
    BY <1>1 DEF Elems, Waiting
  <2>2. QED
    BY <1>1, <2>1, Fewer DEF InputInv
<1>6. QED
  BY <1>2, <1>3, <1>4, <1>5 DEF InputInv

(* Every message is in exactly one place, prompts are claimed alone, and what a
   cancel was to keep from running is spared: the invariant of the input. *)
THEOREM InputInvariant == Spec => []InputInv
<1>1. Init => InputInv
  BY InputInit
<1>2. TypeOK /\ InputInv /\ [Next]_vars => InputInv'
  BY TurnInput, StepInput, CallerInput, ReturnInput, MaintenanceMove, InputStutters DEF Next
<1>3. QED
  BY <1>1, <1>2, TypeCorrect, PTL DEF Spec

(* Input goes where its caller meant it to (agent.ts turn(), inbox.ts): none is
   lost, kept twice or shown twice, a prompt has its turn for itself, and what
   was cancelled never reaches the model, whatever callers and observers do
   between any two awaits and whatever boundary events are rejected. *)
THEOREM InputIsKept == Spec => []InputKept
<1>1. InputInv => InputKept
  BY Counting DEF InputInv, Prompted, Spared, InputKept
<1>2. QED
  BY <1>1, InputInvariant, PTL
============================================================================
