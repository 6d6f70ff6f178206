------------------------------ MODULE TurnLog ------------------------------
(***************************************************************************)
(* What a session log promises its readers: turns, steps and tool calls    *)
(* are bracketed.  The state is the fold that openTurnClosers and          *)
(* ToolCallRecovery (session/src/repair.ts) compute over the log, so the   *)
(* same six variables describe a live log, a crashed prefix and a repaired *)
(* log.  An action appends one event of the log; events that do not move   *)
(* the fold (messages, inbox splices, request headers) are stutters.       *)
(*                                                                         *)
(* Tool calls of one assistant message are numbered in model order, which  *)
(* is the order of results: calls 1..asked were requested, 1..called have  *)
(* a tool/call event and 1..answered have a tool/result.                   *)
(***************************************************************************)
EXTENDS Naturals

CONSTANT MaxCalls   \* most tool calls one assistant message makes

ASSUME MaxCallsAssumption == MaxCalls \in Nat

VARIABLES
    logTurn,    \* number of the latest turn/start, 0 before the first
    turnOpen,   \* that turn has no turn/end
    logStep,    \* number of the latest step/start of that turn
    stepOpen,   \* that step has no step/end
    asked,      \* tool calls of the open step's assistant message
    called,     \* how many of them have a tool/call event
    answered    \* how many of them have a tool/result event

logVars == <<logTurn, turnOpen, logStep, stepOpen, asked, called, answered>>

Init ==
    /\ logTurn = 0 /\ turnOpen = FALSE
    /\ logStep = 0 /\ stepOpen = FALSE
    /\ asked = 0 /\ called = 0 /\ answered = 0

(* turn/start: turns never nest and their numbers are consecutive. *)
StartTurn ==
    /\ ~turnOpen
    /\ logTurn' = logTurn + 1 /\ turnOpen' = TRUE
    /\ logStep' = 0 /\ stepOpen' = FALSE
    /\ asked' = 0 /\ called' = 0 /\ answered' = 0

(* step/start: inside a turn, never inside a step, consecutive numbers. *)
StartStep ==
    /\ turnOpen /\ ~stepOpen
    /\ logStep' = logStep + 1 /\ stepOpen' = TRUE
    /\ UNCHANGED <<logTurn, turnOpen, asked, called, answered>>

(* assistant/message with tool-call blocks: at most one such message waits
   for its results in a step. *)
Ask ==
    /\ stepOpen /\ asked = answered
    /\ asked' \in (asked + 1)..(asked + MaxCalls)
    /\ UNCHANGED <<logTurn, turnOpen, logStep, stepOpen, called, answered>>

(* tool/call: execution of a requested call starts. *)
Call ==
    /\ stepOpen /\ called < asked /\ answered < asked
    /\ called' = called + 1
    /\ UNCHANGED <<logTurn, turnOpen, logStep, stepOpen, asked, answered>>

(* tool/result: one started call settles, or recovery answers every call
   that is left, started or not. *)
Answer ==
    /\ stepOpen /\ answered < asked
    /\ \/ answered < called /\ answered' = answered + 1
       \/ answered' = asked
    /\ UNCHANGED <<logTurn, turnOpen, logStep, stepOpen, asked, called>>

(* step/end: a step closes only when every call it asked for is answered,
   because providers reject a dangling assistant call. *)
EndStep ==
    /\ stepOpen /\ answered = asked
    /\ stepOpen' = FALSE
    /\ asked' = 0 /\ called' = 0 /\ answered' = 0
    /\ UNCHANGED <<logTurn, turnOpen, logStep>>

(* turn/end: never while a step is open. *)
EndTurn ==
    /\ turnOpen /\ ~stepOpen
    /\ turnOpen' = FALSE /\ logStep' = 0
    /\ UNCHANGED <<logTurn, stepOpen, asked, called, answered>>

Next == StartTurn \/ StartStep \/ Ask \/ Call \/ Answer \/ EndStep \/ EndTurn

Spec == Init /\ [][Next]_logVars

TypeOK ==
    /\ logTurn \in Nat /\ logStep \in Nat
    /\ turnOpen \in BOOLEAN /\ stepOpen \in BOOLEAN
    /\ asked \in Nat /\ called \in 0..asked /\ answered \in 0..asked
============================================================================
