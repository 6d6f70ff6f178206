----------------------------- MODULE ToolBatch -----------------------------
(***************************************************************************)
(* The scheduler of one assistant message's tool calls: executeToolBatch   *)
(* and runGroup (core/tools/src/batch.ts) over the staged pipeline of      *)
(* core/tools/src/pipeline.ts.                                             *)
(*                                                                         *)
(* The scheduler is one activity that gives way at every await; dispatched *)
(* bodies settle on their own.  Policy (prepare) and results (complete)    *)
(* run one call at a time in model order, only bodies overlap.  Calls are  *)
(* numbered in model order over the whole batch; a group is a run of       *)
(* consecutive calls, first..last.                                         *)
(***************************************************************************)
EXTENDS Integers, Sequences, FiniteSets

CONSTANTS
    Calls,        \* tool calls of the assistant message
    MaxParallel,  \* maxParallelToolCalls
    Failing       \* what may reject: see Failure below

ASSUME CallsAssumption == Calls \in Nat
ASSUME MaxParallelAssumption == MaxParallel \in Nat \ {0}   \* else RangeError

(* tool/call and tool/result are rejected by pre-commit observers of the
   session; the pipeline stages report their own errors as results, and
   reject only when one of their invariants fails. *)
Failure == {"tool/call", "prepare", "dispatch", "complete", "tool/result"}
ASSUME FailingAssumption == Failing \subseteq Failure

VARIABLES
    cancelled,   \* signal.aborted
    pc,          \* where the scheduler waits
    first,       \* first call of the group; before it, calls are consumed
    mode,        \* mode of the group
    started,     \* calls started or skipped (nextToStart, between awaits)
    committed,   \* calls whose result is committed
    stage,       \* [call -> progress of its preparation and dispatch]
    inFlight,    \* dispatches the scheduler has not raced yet
    failed,      \* schedulerFailure is set
    concluded,   \* some group so far concluded the turn
    groupConcluded,
    kind,        \* [call -> mode the call was classified with when it started]
    calls,       \* tool/call events, by call
    results,     \* tool/result events, by call
    concluding   \* calls whose committed result concludes the turn

flowVars == <<pc, first, mode, started, committed, failed, concluded, groupConcluded>>
logVars == <<calls, results, concluding>>
vars == <<cancelled, flowVars, stage, inFlight, kind, logVars>>

Call == 1..Calls
Mode == {"parallel", "exclusive"}
Stage == {"planned",
          "dispatched",  \* in the wrappers around its body
          "running",     \* body invoked
          "ready",       \* slot filled, waits for its turn to commit
          "broken"}      \* dispatch rejected
Live(i) == stage[i] \in {"dispatched", "running"}
LiveCalls == {i \in Call : Live(i)}

(* Mutant: an exclusive head takes the rest of the batch into its group. *)
LastOfBatch == Calls
(* Mutant: the batch is sliced one past its end. *)
LastPlusOne == IF mode = "parallel" THEN Calls + 1 ELSE first
(* The last call of the group. *)
Last == IF mode = "parallel" THEN Calls ELSE first

PC == {"group", "fill", "prepare", "commit", "race", "drain", "skip", "done", "failed"}

Init ==
    /\ cancelled \in BOOLEAN
    /\ pc = "group" /\ first = 1 /\ mode = "exclusive"
    /\ started = 0 /\ committed = 0
    /\ stage = [i \in Call |-> "planned"] /\ inFlight = {}
    /\ failed = FALSE /\ concluded = FALSE /\ groupConcluded = FALSE
    /\ kind = [i \in Call |-> "exclusive"]
    /\ calls = <<>> /\ results = <<>> /\ concluding = {}

(* The turn is cancelled, at any time. *)
Cancel ==
    /\ ~cancelled
    /\ cancelled' = TRUE
    /\ UNCHANGED <<flowVars, stage, inFlight, kind, logVars>>

----------------------------------------------------------------------------
(* Groups.  Modes are read from the tool registry, which may change while  *)
(* the batch runs: every read is a free choice.                            *)

(* The head of the next group decides its mode. *)
OpenGroup ==
    /\ pc = "group" /\ first <= Calls
    /\ mode' \in Mode
    /\ groupConcluded' = FALSE
    /\ pc' = "fill"
    /\ UNCHANGED <<cancelled, first, started, committed, stage, inFlight, failed, concluded, kind, logVars>>

Finish ==
    /\ pc = "group" /\ first > Calls
    /\ pc' = "done"
    /\ UNCHANGED <<cancelled, first, mode, started, committed, stage, inFlight,
                   failed, concluded, groupConcluded, kind, logVars>>

(* The group's conclusion counts whether or not the group was aborted. *)
FoldConclusion == concluded' = (concluded \/ groupConcluded)

(* runGroup returns once nothing is in flight; an abort consumes the rest of
   the batch, which is skipped. *)
EndGroup(aborted) ==
    /\ inFlight = {}
    /\ FoldConclusion
    /\ IF aborted THEN pc' = "skip" /\ UNCHANGED first
                  ELSE pc' = "group" /\ first' = started + 1
    /\ UNCHANGED <<mode, started, committed, stage, inFlight, failed, groupConcluded, kind, logVars>>

(* Leave fillPool: wait for a dispatch, or end the group. *)
LeavePool(aborted) ==
    \/ /\ inFlight # {}
       /\ pc' = "race"
       /\ UNCHANGED <<first, mode, started, committed, stage, inFlight,
                      failed, concluded, groupConcluded, kind, logVars>>
    \/ EndGroup(aborted)

Fail ==
    /\ failed' = TRUE /\ pc' = "drain"
    /\ UNCHANGED <<first, mode, started, committed, concluded, groupConcluded>>

(* startCall, up to its first await: tool/call, then ordered policy. *)
StartCall(i, modeRead) ==
    \/ /\ calls' = Append(calls, i) /\ started' = i
       /\ kind' = [kind EXCEPT ![i] = modeRead]
       /\ pc' = "prepare"
       /\ UNCHANGED <<first, mode, committed, failed, concluded, groupConcluded,
                      stage, inFlight, results, concluding>>
    \/ /\ "tool/call" \in Failing
       /\ Fail
       /\ UNCHANGED <<stage, inFlight, kind, logVars>>

(* The mode a call starts under: the head's was read with the group, and a
   later call of a parallel group is classified again. *)
StartMode(i) == IF i = first THEN mode ELSE "parallel"

RoomInPool == Cardinality(inFlight) < MaxParallel

(* One round of fillPool's loop.  Failure and signal were read just before,
   when the group began or the last commit returned; either stops starts. *)
FillPool ==
    /\ pc = "fill"
    /\ \/ failed /\ Fail /\ UNCHANGED <<stage, inFlight, kind, logVars>>
       \/ /\ ~failed /\ ~cancelled /\ started < Last /\ RoomInPool
          /\ \/ StartCall(started + 1, StartMode(started + 1))
             \/ started + 1 > first /\ LeavePool(FALSE)   \* now exclusive
       \/ /\ ~failed
          /\ cancelled \/ started = Last \/ ~RoomInPool
          /\ LeavePool(cancelled)
    /\ UNCHANGED cancelled

(* Policy let the call through: its dispatch begins. *)
Dispatch(i) ==
    /\ stage' = [stage EXCEPT ![i] = "dispatched"]
    /\ inFlight' = inFlight \cup {i}
    /\ pc' = "commit"
    /\ UNCHANGED <<first, mode, started, committed, failed, concluded, groupConcluded>>

(* Refused, invalid or cancelled before dispatch: its result is known. *)
Refuse(i) ==
    /\ stage' = [stage EXCEPT ![i] = "ready"]
    /\ pc' = "commit"
    /\ UNCHANGED <<first, mode, started, committed, failed, concluded, groupConcluded, inFlight>>

(* Mutant: a failure seen while policy ran does not stop the dispatch. *)
PreparedAnyway ==
    /\ pc = "prepare"
    /\ \/ ~cancelled /\ Dispatch(started)
       \/ Refuse(started)
    /\ UNCHANGED <<cancelled, kind, logVars>>

(* Policy settles.  A cancelled call is never dispatched, and a scheduler
   failure met meanwhile leaves the call without a result. *)
Prepared ==
    /\ pc = "prepare"
    /\ \/ ~failed /\ ~cancelled /\ Dispatch(started)
       \/ ~failed /\ Refuse(started)
       \/ /\ failed \/ "prepare" \in Failing
          /\ Fail /\ UNCHANGED <<stage, inFlight>>
    /\ UNCHANGED <<cancelled, kind, logVars>>

(* The slot commitReady waits for, when it is filled. *)
NextToCommit == {i \in Call : i = committed + 1 /\ stage[i] = "ready"}

(* One round of commitReady: post-execute policy, then tool/result. *)
Commit(i) ==
    /\ pc = "commit" /\ i \in NextToCommit
    /\ \/ /\ results' = Append(results, i) /\ committed' = committed + 1
          /\ \E concludes \in BOOLEAN :
                /\ concluding' = IF concludes THEN concluding \cup {i} ELSE concluding
                /\ groupConcluded' = (groupConcluded \/ concludes)
          /\ UNCHANGED <<pc, first, mode, started, failed, concluded, calls>>
       \/ /\ Failing \cap {"complete", "tool/result"} # {}
          /\ Fail /\ UNCHANGED logVars
    /\ UNCHANGED <<cancelled, stage, inFlight, kind>>

Committed ==
    /\ pc = "commit" /\ NextToCommit = {}
    /\ pc' = "fill"
    /\ UNCHANGED <<cancelled, first, mode, started, committed, stage, inFlight,
                   failed, concluded, groupConcluded, kind, logVars>>

(* Mutant: a raced dispatch stays in the pool. *)
RaceKeeps(i) ==
    /\ pc = "race" /\ i \in inFlight /\ ~Live(i)
    /\ IF failed THEN Fail
       ELSE /\ pc' = "commit"
            /\ UNCHANGED <<first, mode, started, committed, failed, concluded, groupConcluded>>
    /\ UNCHANGED <<cancelled, stage, inFlight, kind, logVars>>

(* A dispatch the scheduler waits for has settled. *)
Race(i) ==
    /\ pc = "race" /\ i \in inFlight /\ ~Live(i)
    /\ inFlight' = inFlight \ {i}
    /\ IF failed THEN Fail
       ELSE /\ pc' = "commit"
            /\ UNCHANGED <<first, mode, started, committed, failed, concluded, groupConcluded>>
    /\ UNCHANGED <<cancelled, stage, kind, logVars>>

(* A failed batch rejects after every dispatch settled. *)
Reject ==
    /\ pc = "drain" /\ \A i \in inFlight : ~Live(i)
    /\ pc' = "failed"
    /\ UNCHANGED <<cancelled, first, mode, started, committed, stage, inFlight,
                   failed, concluded, groupConcluded, kind, logVars>>

(* An aborted batch answers every call it did not start, in model order:
   tool/call and a synthetic tool/result.  Nothing is in flight any more. *)
SkipCall ==
    /\ pc = "skip" /\ committed = started /\ started < Calls
    /\ \/ /\ calls' = Append(calls, started + 1) /\ started' = started + 1
          /\ UNCHANGED <<pc, failed>>
       \/ /\ "tool/call" \in Failing
          /\ pc' = "failed" /\ failed' = TRUE
          /\ UNCHANGED <<calls, started>>
    /\ UNCHANGED <<cancelled, first, mode, committed, stage, inFlight, concluded,
                   groupConcluded, kind, results, concluding>>

SkipResult ==
    /\ pc = "skip" /\ committed < started
    /\ \/ /\ results' = Append(results, started) /\ committed' = committed + 1
          /\ UNCHANGED <<pc, failed>>
       \/ /\ "tool/result" \in Failing
          /\ pc' = "failed" /\ failed' = TRUE
          /\ UNCHANGED <<results, committed>>
    /\ UNCHANGED <<cancelled, first, mode, started, stage, inFlight, concluded,
                   groupConcluded, kind, calls, concluding>>

(* Mutant: only the calls of the aborted group itself are answered. *)
FinishUnskipped ==
    /\ pc = "skip" /\ committed = started /\ started >= first
    /\ pc' = "done"
    /\ UNCHANGED <<cancelled, first, mode, started, committed, stage, inFlight,
                   failed, concluded, groupConcluded, kind, logVars>>

FinishSkipped ==
    /\ pc = "skip" /\ committed = started /\ started = Calls
    /\ pc' = "done"
    /\ UNCHANGED <<cancelled, first, mode, started, committed, stage, inFlight,
                   failed, concluded, groupConcluded, kind, logVars>>

Scheduler ==
    \/ OpenGroup \/ Finish \/ FillPool \/ Prepared \/ Committed \/ Reject
    \/ SkipCall \/ SkipResult \/ FinishSkipped
    \/ \E i \in Call : Commit(i) \/ Race(i)

----------------------------------------------------------------------------
(* Dispatched calls. *)

(* The wrappers reach the tool body; a cancelled call's body never starts. *)
InvokeBody(i) ==
    /\ stage[i] = "dispatched" /\ ~cancelled
    /\ stage' = [stage EXCEPT ![i] = "running"]
    /\ UNCHANGED <<cancelled, flowVars, inFlight, kind, logVars>>

(* The dispatch settles, its body included. *)
SettleDispatch(i) ==
    /\ Live(i)
    /\ \/ stage' = [stage EXCEPT ![i] = "ready"] /\ UNCHANGED failed
       \/ /\ "dispatch" \in Failing
          /\ stage' = [stage EXCEPT ![i] = "broken"] /\ failed' = TRUE
    /\ UNCHANGED <<cancelled, pc, first, mode, started, committed, concluded,
                   groupConcluded, inFlight, kind, logVars>>

Dispatched(i) == InvokeBody(i) \/ SettleDispatch(i)

Ended == pc \in {"done", "failed"} /\ UNCHANGED vars

Next ==
    \/ Cancel /\ pc \notin {"done", "failed"}
    \/ Scheduler
    \/ \E i \in Call : Dispatched(i)
    \/ Ended

Spec == Init /\ [][Next]_vars

(* Policy, results and dispatches eventually settle. *)
FairSpec ==
    /\ Spec
    /\ WF_vars(Scheduler)
    /\ \A i \in Call : WF_vars(SettleDispatch(i))

----------------------------------------------------------------------------
TypeOK ==
    /\ cancelled \in BOOLEAN /\ failed \in BOOLEAN
    /\ concluded \in BOOLEAN /\ groupConcluded \in BOOLEAN
    /\ pc \in PC /\ mode \in Mode
    /\ first \in 1..(Calls + 1) /\ started \in 0..Calls /\ committed \in 0..Calls
    /\ stage \in [Call -> Stage] /\ inFlight \in SUBSET Call
    /\ kind \in [Call -> Mode]
    /\ calls \in Seq(Call) /\ results \in Seq(Call) /\ concluding \in SUBSET Call

(* The concurrency limit bounds the bodies, whatever order the dispatches
   settle, are raced and are replaced in. *)
PoolBound == Cardinality(LiveCalls) <= MaxParallel

(* "Exclusive calls form barriers": a call started as exclusive shares no
   instant of its dispatch with another call of the batch, earlier or later. *)
Barrier == \A i, j \in LiveCalls : i # j => kind[i] = "parallel"

(* "Policy, results, and result context remain model-ordered": tool/call and
   tool/result events come in model order although bodies settle in any. *)
ModelOrder ==
    /\ \A k \in DOMAIN calls : calls[k] = k
    /\ \A k \in DOMAIN results : results[k] = k

(* A group never ends with a started call it neither waits for nor committed
   (the error after runGroup's loop that the code calls unreachable). *)
NothingUncommitted == pc \in {"group", "done"} => committed = started

(* A batch that resolves, cancelled or not, answered every call exactly once,
   skipped calls included, so the step may close. *)
EveryCallAnswered == pc = "done" => Len(calls) = Calls /\ Len(results) = Calls

(* "After every started body has settled": neither a result nor a failure
   leaves the batch while a body may still act on the world. *)
Drained == pc \in {"done", "failed"} => LiveCalls = {}

(* A result that concludes the turn does so in a cancelled batch too. *)
ConclusionKept == pc = "done" => (concluded <=> concluding # {})

(* "An internal scheduler failure stops replenishment": no call is
   dispatched once some dispatch has failed. *)
FailureStopsDispatch ==
    [][failed => \A i \in Call : stage[i] = "planned" => stage'[i] # "dispatched"]_vars

(* The events of the batch are steps of the log TurnLog describes, in a step
   that asked for these calls. *)
Log == INSTANCE TurnLog WITH
    MaxCalls <- Calls, logTurn <- 1, turnOpen <- TRUE, logStep <- 1, stepOpen <- TRUE,
    asked <- Calls, called <- Len(calls), answered <- Len(results)
LogSteps == [][Log!Call \/ Log!Answer]_<<Len(calls), Len(results)>>

(* What the scheduler may run at one time, and the order its events come in,
   while bodies settle in any order and modes are read again as the pool
   fills (runGroup). *)
Scheduled == PoolBound /\ Barrier /\ ModelOrder

(* However a batch ends - settled, cancelled, failed in any stage - it leaves
   nothing behind: no slot it forgot, no call without its result, no body that
   still runs, no conclusion lost (executeToolBatch, runGroup). *)
Accounted == NothingUncommitted /\ EveryCallAnswered /\ Drained /\ ConclusionKept

(* No step of the batch logs an event out of the grammar, and none dispatches a
   call behind a failure. *)
StepsAllowed == FailureStopsDispatch /\ LogSteps

(* Every batch settles, cancelled or not, if its policy and tools do. *)
BatchSettles == <>(pc \in {"done", "failed"})
----------------------------------------------------------------------------
(* What makes them inductive. *)

Grouped == pc \in {"fill", "prepare", "commit", "race", "drain"}

(* Counters and log move together; the group is a run of calls. *)
Counted ==
    /\ Len(calls) = started /\ Len(results) = committed
    /\ committed <= started
    /\ Grouped => first <= Calls /\ started \in (first - 1)..Last
    /\ pc = "group" => first = started + 1 /\ committed = started
    /\ pc = "skip" => started <= committed + 1
    /\ pc = "prepare" => started >= first /\ committed < started
    /\ pc = "done" => started = Calls /\ committed = started

(* A dispatch is the scheduler's to wait for from its start to its race. *)
Pooled ==
    /\ LiveCalls \subseteq inFlight
    /\ \A i \in Call : stage[i] # "planned" => i <= started
    /\ \A i \in inFlight : stage[i] # "planned"
    /\ \A i \in Call : stage[i] = "broken" => failed
    /\ pc = "prepare" => stage[started] = "planned"
    /\ Cardinality(inFlight) <= MaxParallel
    /\ pc = "prepare" => Cardinality(inFlight) < MaxParallel
    /\ pc \in {"group", "skip", "done"} => inFlight = {}
    /\ pc = "failed" => LiveCalls = {}

(* What is in flight belongs to the group, and runs under its mode. *)
Classified ==
    Grouped =>
        /\ \A i \in inFlight : i \in first..started
        /\ mode = "parallel" =>
              /\ \A i \in inFlight : kind[i] = "parallel"
              /\ pc = "prepare" => kind[started] = "parallel"

(* A started call that is not committed is in flight or has its slot; where
   commitReady has just run, the first such call is in flight. *)
Awaited ==
    /\ pc \in {"fill", "prepare", "commit", "race"} =>
          \A i \in (committed + 1)..started :
             \/ i \in inFlight \/ stage[i] = "ready"
             \/ pc = "prepare" /\ i = started
    /\ pc \in {"fill", "race"} /\ committed < started => committed + 1 \in inFlight

Concluding ==
    /\ Grouped => (concluded \/ groupConcluded <=> concluding # {})
    /\ pc \in {"group", "skip", "done"} => (concluded <=> concluding # {})

BatchInv == Counted /\ Pooled /\ Classified /\ Awaited /\ Concluding /\ ModelOrder
============================================================================
