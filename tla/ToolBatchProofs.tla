-------------------------- MODULE ToolBatchProofs --------------------------
(***************************************************************************)
(* Proofs about the tool scheduler for every number of calls, every pool   *)
(* size and every set of failing stages.  BatchInv (ToolBatch.tla) is the  *)
(* inductive strengthening of the safety properties; each of its parts is  *)
(* preserved by a lemma of its own.                                        *)
(***************************************************************************)
EXTENDS ToolBatch, FiniteSetTheorems, TLAPS

(* What a started call does to the state, for the lemmas that follow. *)
Started ==
    /\ calls' = Append(calls, started + 1) /\ started' = started + 1
    /\ kind' = [kind EXCEPT ![started + 1] = StartMode(started + 1)]
    /\ pc' = "prepare"
    /\ UNCHANGED <<first, mode, committed, failed, concluded, groupConcluded,
                   stage, inFlight, results, concluding>>

Refused == Fail /\ UNCHANGED <<stage, inFlight, kind, logVars>>

(* A round of fillPool fails, starts a call, waits, or ends the group. *)
LEMMA FillPoolCases ==
    ASSUME TypeOK, FillPool
    PROVE  /\ pc = "fill" /\ cancelled' = cancelled
           /\ \/ Refused
              \/ /\ ~failed /\ ~cancelled /\ started < Last /\ RoomInPool
                 /\ Started
              \/ \E aborted \in BOOLEAN : ~failed /\ LeavePool(aborted)
BY DEF TypeOK, FillPool, StartCall, Started, Refused

(* A batch starts well typed. *)
LEMMA InitTyped == Init => TypeOK
<1> SUFFICES ASSUME Init PROVE TypeOK
    OBVIOUS
<1>1. 1 \in 1..(Calls + 1) /\ 0 \in 0..Calls
    BY CallsAssumption
<1>2. calls \in Seq(Call) /\ results \in Seq(Call)
    BY DEF Init
<1>3. stage \in [Call -> Stage] /\ kind \in [Call -> Mode]
    BY DEF Init, Stage, Mode
<1> QED BY <1>1, <1>2, <1>3 DEF Init, TypeOK, PC, Mode

(* Every step of the scheduler keeps the state typed. *)
LEMMA StepTyped == TypeOK /\ Counted /\ Next => TypeOK'
<1> SUFFICES ASSUME TypeOK, Counted, Next PROVE TypeOK'
    OBVIOUS
<1> USE CallsAssumption
<1>1. CASE Cancel
    BY <1>1 DEF TypeOK, Cancel, flowVars, logVars
<1>2. CASE OpenGroup
    BY <1>2 DEF TypeOK, OpenGroup, logVars, PC, Mode
<1>3. CASE Finish
    BY <1>3 DEF TypeOK, Finish, logVars, PC
<1>4. CASE FillPool
  <2>1. CASE Refused
      BY <1>4, <2>1, FillPoolCases DEF TypeOK, Refused, Fail, logVars, PC
  <2>2. CASE started < Last /\ Started
    <3>1. started + 1 \in Call /\ StartMode(started + 1) \in Mode
      <4>1. pc = "fill"
          BY <1>4, FillPoolCases
      <4>2. first \in 1..(Calls + 1) /\ Last <= Calls
          BY <4>1 DEF TypeOK, Counted, Grouped, Last
      <4>3. started + 1 \in Call
          BY <2>2, <4>2 DEF TypeOK, Last, Call
      <4> QED BY <4>3 DEF TypeOK, StartMode, Mode
    <3>2. calls' \in Seq(Call)
        BY <2>2, <3>1 DEF TypeOK, Started
    <3>3. started' \in 0..Calls
        BY <2>2, <3>1 DEF Call, Started
    <3>4. kind' \in [Call -> Mode]
        BY <2>2, <3>1 DEF TypeOK, Started
    <3> QED BY <1>4, <2>2, <3>2, <3>3, <3>4, FillPoolCases DEF TypeOK, Started, PC
  <2>3. CASE \E aborted \in BOOLEAN : LeavePool(aborted)
      BY <1>4, <2>3, FillPoolCases
      DEF TypeOK, LeavePool, EndGroup, FoldConclusion, logVars, PC
  <2> QED BY <1>4, <2>1, <2>2, <2>3, FillPoolCases
<1>5. CASE Prepared
  <2>0. started \in Call
      BY <1>5 DEF TypeOK, Counted, Prepared, Call, Grouped
  <2>1. CASE Fail /\ UNCHANGED <<stage, inFlight>>
      BY <1>5, <2>1 DEF TypeOK, Prepared, Fail, logVars, PC
  <2>2. CASE Refuse(started)
      BY <1>5, <2>2 DEF TypeOK, Prepared, Refuse, logVars, PC, Stage
  <2>3. CASE Dispatch(started)
      BY <1>5, <2>0, <2>3 DEF TypeOK, Prepared, Dispatch, logVars, PC, Stage
  <2> QED BY <1>5, <2>1, <2>2, <2>3 DEF Prepared
<1>6. CASE Committed
    BY <1>6 DEF TypeOK, Committed, logVars, PC
<1>7. CASE Reject
    BY <1>7 DEF TypeOK, Reject, logVars, PC
<1>8. CASE SkipCall
  <2>1. started + 1 \in Call
      BY <1>8 DEF TypeOK, SkipCall, Call
  <2>2. calls' \in Seq(Call) /\ started' \in 0..Calls
    <3>1. Append(calls, started + 1) \in Seq(Call)
        BY <2>1 DEF TypeOK
    <3>2. calls' \in Seq(Call)
        BY <1>8, <3>1 DEF TypeOK, SkipCall
    <3>3. started' \in 0..Calls
        BY <1>8, <2>1 DEF TypeOK, SkipCall, Call
    <3> QED BY <3>2, <3>3
  <2> QED BY <1>8, <2>2 DEF TypeOK, SkipCall, PC
<1>9. CASE SkipResult
  <2>1. started \in Call
      BY <1>9 DEF TypeOK, SkipResult, Call
  <2>2. results' \in Seq(Call) /\ committed' \in 0..Calls
    <3>1. Append(results, started) \in Seq(Call)
        BY <2>1 DEF TypeOK
    <3>2. results' \in Seq(Call)
        BY <1>9, <3>1 DEF TypeOK, SkipResult
    <3>3. committed' \in 0..Calls
        BY <1>9 DEF TypeOK, SkipResult
    <3> QED BY <3>2, <3>3
  <2> QED BY <1>9, <2>2 DEF TypeOK, SkipResult, PC
<1>10. CASE FinishSkipped
    BY <1>10 DEF TypeOK, FinishSkipped, logVars, PC
<1>11. ASSUME NEW i \in Call, Commit(i) PROVE TypeOK'
  <2>1. i = committed + 1 /\ committed + 1 \in 0..Calls
      BY <1>11 DEF TypeOK, Commit, NextToCommit, Call
  <2>2. CASE Fail /\ UNCHANGED logVars
      BY <1>11, <2>2 DEF TypeOK, Commit, Fail, logVars, PC
  <2>3. CASE results' = Append(results, i) /\ committed' = committed + 1
    <3>1. results' \in Seq(Call)
        BY <1>11, <2>3 DEF TypeOK
    <3>2. concluding' \in SUBSET Call /\ groupConcluded' \in BOOLEAN
        BY <1>11, <2>3, <2>1 DEF TypeOK, Commit, Fail, logVars
    <3> QED BY <1>11, <2>1, <2>3, <3>1, <3>2, SMTT(30) DEF TypeOK, Commit, Fail, PC
  <2> QED BY <1>11, <2>2, <2>3 DEF Commit
<1>12. ASSUME NEW i \in Call, Race(i) PROVE TypeOK'
    BY <1>12 DEF TypeOK, Race, Fail, logVars, PC
<1>13. ASSUME NEW i \in Call, Dispatched(i) PROVE TypeOK'
    BY <1>13 DEF TypeOK, Dispatched, InvokeBody, SettleDispatch, flowVars, logVars, Stage
<1>14. CASE Ended
    BY <1>14 DEF TypeOK, Ended, vars, flowVars, logVars
<1> QED BY <1>1, <1>2, <1>3, <1>4, <1>5, <1>6, <1>7, <1>8, <1>9, <1>10, <1>11,
           <1>12, <1>13, <1>14 DEF Next, Scheduler

----------------------------------------------------------------------------

(* The counters (group start, started, committed) stay in step with the log
   and with the group the scheduler is in. *)
LEMMA StepCounted == TypeOK /\ Counted /\ Pooled /\ Awaited /\ Next => Counted'
<1> SUFFICES ASSUME TypeOK, Counted, Pooled, Awaited, Next PROVE Counted'
    OBVIOUS
<1> USE CallsAssumption
<1>0. started \in Int /\ committed \in Int /\ first \in Int
    BY DEF TypeOK
<1>1. CASE Cancel
    BY <1>1 DEF Counted, Grouped, Last, Cancel, flowVars, logVars
<1>2. CASE OpenGroup
    BY <1>2, <1>0 DEF TypeOK, Counted, Grouped, Last, OpenGroup, logVars
<1>3. CASE Finish
    BY <1>3, <1>0 DEF TypeOK, Counted, Grouped, Finish, logVars
<1>4. CASE FillPool
  <2>0. pc = "fill"
      BY <1>4, FillPoolCases
  <2>1. CASE Refused
      BY <2>0, <2>1 DEF Counted, Grouped, Last, Refused, Fail, logVars
  <2>2. CASE started < Last /\ Started
    <3>1. Len(calls') = started'
        BY <2>2, <1>0 DEF TypeOK, Counted, Started
    <3>2. first <= Calls /\ started + 1 \in first..Last
        BY <2>0, <2>2, <1>0 DEF Counted, Grouped, Last
    <3> QED BY <2>2, <3>1, <3>2, <1>0 DEF Counted, Grouped, Last, Started
  <2>3. CASE \E aborted \in BOOLEAN : LeavePool(aborted)
    <3>1. CASE pc' = "race" /\ UNCHANGED <<first, mode, started, committed, calls, results>>
        BY <2>0, <3>1 DEF Counted, Grouped, Last
    <3>2. CASE /\ inFlight = {} /\ UNCHANGED <<mode, started, committed, calls, results>>
               /\ \/ pc' = "skip"
                  \/ pc' = "group" /\ first' = started + 1
      <4>1. committed = started
          BY <2>0, <3>2, <1>0 DEF Awaited, Counted
      <4> QED BY <3>2, <4>1, <1>0 DEF Counted, Grouped
    <3> QED BY <2>3, <3>1, <3>2 DEF LeavePool, EndGroup, logVars
  <2> QED BY <1>4, <2>1, <2>2, <2>3, FillPoolCases
<1>5. CASE Prepared
    BY <1>5 DEF Counted, Grouped, Last, Prepared, Dispatch, Refuse, Fail, logVars
<1>6. CASE Committed
    BY <1>6 DEF Counted, Grouped, Last, Committed, logVars
<1>7. CASE Reject
    BY <1>7 DEF Counted, Grouped, Reject, logVars
<1>8. CASE SkipCall
  <2>1. Len(Append(calls, started + 1)) = started + 1
      BY <1>0 DEF TypeOK, Counted
  <2> QED BY <1>8, <2>1, <1>0 DEF Counted, Grouped, SkipCall
<1>9. CASE SkipResult
  <2>1. Len(Append(results, started)) = committed + 1
      BY <1>0 DEF TypeOK, Counted
  <2> QED BY <1>9, <2>1, <1>0 DEF Counted, Grouped, SkipResult
<1>10. CASE FinishSkipped
    BY <1>10, <1>0 DEF Counted, Grouped, FinishSkipped, logVars
<1>11. ASSUME NEW i \in Call, Commit(i) PROVE Counted'
  <2>1. i = committed + 1 /\ stage[i] = "ready" /\ pc = "commit"
      BY <1>11 DEF Commit, NextToCommit
  <2>2. CASE Fail /\ UNCHANGED logVars
      BY <2>1, <2>2 DEF Counted, Grouped, Last, Fail, logVars
  <2>3. CASE /\ results' = Append(results, i) /\ committed' = committed + 1
             /\ UNCHANGED <<pc, first, mode, started, calls>>
    <3>1. Len(results') = committed'
        BY <2>3, <1>0 DEF TypeOK, Counted
    <3>2. committed' <= started
        BY <1>11, <2>1, <2>3, <1>0 DEF Pooled
    <3> QED BY <2>1, <2>3, <3>1, <3>2 DEF Counted, Grouped, Last
  <2> QED BY <1>11, <2>2, <2>3 DEF Commit
<1>12. ASSUME NEW i \in Call, Race(i) PROVE Counted'
    BY <1>12 DEF Counted, Grouped, Last, Race, Fail, logVars
<1>13. ASSUME NEW i \in Call, Dispatched(i) PROVE Counted'
    BY <1>13 DEF Counted, Grouped, Last, Dispatched, InvokeBody, SettleDispatch, flowVars, logVars
<1>14. CASE Ended
    BY <1>14 DEF Counted, Grouped, Last, Ended, vars, flowVars, logVars
<1> QED BY <1>1, <1>2, <1>3, <1>4, <1>5, <1>6, <1>7, <1>8, <1>9, <1>10, <1>11,
           <1>12, <1>13, <1>14 DEF Next, Scheduler

----------------------------------------------------------------------------

(* The pool holds finitely many calls. *)
LEMMA PoolFinite == TypeOK => IsFiniteSet(inFlight) /\ Cardinality(inFlight) \in Nat
<1>1. IsFiniteSet(Call)
    BY CallsAssumption, FS_Interval DEF Call
<1>2. TypeOK => inFlight \in SUBSET Call
    BY DEF TypeOK
<1>3. TypeOK => IsFiniteSet(inFlight)
    BY <1>1, <1>2, FS_Subset
<1> QED BY <1>3, FS_CardinalityType

(* Pooled, with LiveCalls spelled out call by call. *)
PooledByCall ==
    /\ \A i \in Call : Live(i) => i \in inFlight
    /\ \A i \in Call : stage[i] # "planned" => i <= started
    /\ \A i \in inFlight : stage[i] # "planned"
    /\ \A i \in Call : stage[i] = "broken" => failed
    /\ pc = "prepare" => stage[started] = "planned"
    /\ Cardinality(inFlight) <= MaxParallel
    /\ pc = "prepare" => Cardinality(inFlight) < MaxParallel
    /\ pc \in {"group", "skip", "done"} => inFlight = {}
    /\ pc = "failed" => \A i \in Call : ~Live(i)

(* Pooled, said call by call. *)
LEMMA ByCall == Pooled <=> PooledByCall
BY DEF Pooled, PooledByCall, LiveCalls

(* The live bodies are in the pool, which never exceeds its size, and what was
   dispatched had been started. *)
LEMMA StepPooled == TypeOK /\ Counted /\ Pooled /\ Next => Pooled'
<1> SUFFICES ASSUME TypeOK, Counted, PooledByCall, Next PROVE PooledByCall'
    BY ByCall DEF Pooled, PooledByCall, LiveCalls, Live
<1> USE CallsAssumption
<1>0. /\ started \in Int /\ first \in Int
      /\ IsFiniteSet(inFlight) /\ Cardinality(inFlight) \in Nat /\ MaxParallel \in Nat \ {0}
    BY PoolFinite, MaxParallelAssumption DEF TypeOK
<1>1. CASE Cancel
    BY <1>1 DEF PooledByCall, Live, Cancel, flowVars, logVars
<1>2. CASE OpenGroup
    BY <1>2 DEF PooledByCall, Live, OpenGroup, logVars
<1>3. CASE Finish
    BY <1>3 DEF PooledByCall, Live, Finish, logVars
<1>4. CASE FillPool
  <2>0. pc = "fill"
      BY <1>4, FillPoolCases
  <2>1. CASE Refused
      BY <2>0, <2>1 DEF PooledByCall, Live, Refused, Fail, logVars
  <2>2. CASE started < Last /\ RoomInPool /\ Started
    <3>1. started + 1 \in Call /\ stage[started + 1] = "planned"
        BY <2>0, <2>2, <1>0 DEF TypeOK, Counted, Grouped, Last, Call, PooledByCall
    <3>2. \A i \in Call : stage'[i] # "planned" => i <= started'
        BY <2>2, <1>0 DEF PooledByCall, Started, Call
    <3> QED BY <2>2, <3>1, <3>2 DEF PooledByCall, Live, Started, RoomInPool
  <2>3. CASE \E aborted \in BOOLEAN : LeavePool(aborted)
      BY <2>3 DEF PooledByCall, Live, LeavePool, EndGroup, logVars
  <2> QED BY <1>4, <2>1, <2>2, <2>3, FillPoolCases
<1>5. CASE Prepared
  <2>0. started \in Call /\ pc = "prepare"
      BY <1>5 DEF TypeOK, Counted, Prepared, Call, Grouped
  <2>1. CASE Fail /\ UNCHANGED <<stage, inFlight>>
      BY <2>0, <2>1 DEF PooledByCall, Live, Fail
  <2>2. CASE Refuse(started)
    <3>1. \A i \in Call : stage'[i] = IF i = started THEN "ready" ELSE stage[i]
        BY <2>0, <2>2 DEF TypeOK, Refuse
    <3> QED BY <2>0, <2>2, <3>1, <1>0 DEF TypeOK, PooledByCall, Live, Refuse
  <2>3. CASE Dispatch(started)
    <3>1. \A i \in Call : stage'[i] = IF i = started THEN "dispatched" ELSE stage[i]
        BY <2>0, <2>3 DEF TypeOK, Dispatch
    <3>2. Cardinality(inFlight') <= MaxParallel
      <4>1. Cardinality(inFlight) < MaxParallel
          BY <2>0 DEF PooledByCall
      <4>2. Cardinality(inFlight \cup {started})
                = IF started \in inFlight THEN Cardinality(inFlight) ELSE Cardinality(inFlight) + 1
          BY <1>0, FS_AddElement
      <4>3. inFlight' = inFlight \cup {started}
          BY <2>3 DEF Dispatch
      <4> QED BY <4>1, <4>2, <4>3, <1>0
    <3> QED BY <2>0, <2>3, <3>1, <3>2, <1>0 DEF TypeOK, PooledByCall, Live, Dispatch
  <2> QED BY <1>5, <2>1, <2>2, <2>3 DEF Prepared
<1>6. CASE Committed
    BY <1>6 DEF PooledByCall, Live, Committed, logVars
<1>7. CASE Reject
  <2>1. \A i \in Call : ~Live(i)
      BY <1>7 DEF Reject, PooledByCall
  <2> QED BY <1>7, <2>1 DEF PooledByCall, Live, Reject, logVars
<1>8. CASE SkipCall
  <2>1. /\ pc = "skip" /\ pc' \in {"skip", "failed"}
        /\ UNCHANGED <<stage, inFlight>> /\ (failed => failed') /\ started' \in {started, started + 1}
      BY <1>8 DEF SkipCall, TypeOK
  <2>2. inFlight = {} /\ \A i \in Call : ~Live(i)
      BY <2>1 DEF PooledByCall
  <2>3. \A i \in Call : stage'[i] # "planned" => i <= started'
      BY <2>1, <1>0 DEF PooledByCall, Call
  <2> QED BY <2>1, <2>2, <2>3 DEF PooledByCall, Live
<1>9. CASE SkipResult
  <2>1. /\ pc = "skip" /\ pc' \in {"skip", "failed"}
        /\ UNCHANGED <<stage, inFlight, started>> /\ (failed => failed')
      BY <1>9 DEF SkipResult, TypeOK
  <2>2. inFlight = {} /\ \A i \in Call : ~Live(i)
      BY <2>1 DEF PooledByCall
  <2> QED BY <2>1, <2>2 DEF PooledByCall, Live
<1>10. CASE FinishSkipped
    BY <1>10 DEF PooledByCall, Live, FinishSkipped, logVars
<1>11. ASSUME NEW i \in Call, Commit(i) PROVE PooledByCall'
    BY <1>11 DEF PooledByCall, Live, Commit, Fail, logVars
<1>12. ASSUME NEW i \in Call, Race(i) PROVE PooledByCall'
  <2>1. Cardinality(inFlight') <= MaxParallel
    <3>1. Cardinality(inFlight) <= MaxParallel
        BY DEF PooledByCall
    <3>2. Cardinality(inFlight \ {i})
              = IF i \in inFlight THEN Cardinality(inFlight) - 1 ELSE Cardinality(inFlight)
        BY <1>0, FS_RemoveElement
    <3>3. inFlight' = inFlight \ {i}
        BY <1>12 DEF Race
    <3> QED BY <3>1, <3>2, <3>3, <1>0
  <2>2. /\ inFlight' = inFlight \ {i} /\ ~Live(i) /\ stage' = stage /\ started' = started
        /\ (failed => failed') /\ pc' \in {"drain", "commit"}
      BY <1>12 DEF Race, Fail
  <2> QED BY <2>1, <2>2 DEF PooledByCall, Live
<1>13. ASSUME NEW i \in Call, Dispatched(i) PROVE PooledByCall'
  <2>1. /\ Live(i) /\ UNCHANGED <<pc, started, inFlight>> /\ (failed => failed')
        /\ \E s \in {"running", "ready", "broken"} :
              /\ stage' = [stage EXCEPT ![i] = s]
              /\ s = "broken" => failed'
              /\ s = "running" => stage[i] = "dispatched"
      BY <1>13 DEF Dispatched, InvokeBody, SettleDispatch, flowVars, Live
  <2>2. PICK s \in {"running", "ready", "broken"} :
              /\ stage' = [stage EXCEPT ![i] = s]
              /\ s = "broken" => failed'
      BY <2>1
  <2>3. \A j \in Call : stage'[j] = IF j = i THEN s ELSE stage[j]
      BY <2>2 DEF TypeOK
  <2>4. i \in inFlight /\ stage[i] # "planned" /\ i <= started
      BY <2>1 DEF PooledByCall, Live
  <2>5. inFlight \subseteq Call
      BY DEF TypeOK
  <2>6. pc = "prepare" => started \in Call
      BY DEF TypeOK, Counted, Grouped, Call
  <2> QED BY <2>1, <2>2, <2>3, <2>4, <2>5, <2>6 DEF PooledByCall, Live
<1>14. CASE Ended
    BY <1>14 DEF PooledByCall, Live, Ended, vars, flowVars, logVars
<1> QED BY <1>1, <1>2, <1>3, <1>4, <1>5, <1>6, <1>7, <1>8, <1>9, <1>10, <1>11,
           <1>12, <1>13, <1>14 DEF Next, Scheduler

----------------------------------------------------------------------------

(* What is in flight belongs to the current group, and a parallel group holds
   calls classified parallel only. *)
LEMMA StepClassified == TypeOK /\ Counted /\ Pooled /\ Classified /\ Next => Classified'
<1> SUFFICES ASSUME TypeOK, Counted, Pooled, Classified, Next PROVE Classified'
    OBVIOUS
<1> USE CallsAssumption
<1>0. started \in Int /\ first \in Int /\ inFlight \subseteq Call
    BY DEF TypeOK
<1>1. CASE Cancel
    BY <1>1 DEF Classified, Grouped, Cancel, flowVars, logVars
<1>2. CASE OpenGroup
    BY <1>2 DEF Classified, Grouped, OpenGroup, Pooled
<1>3. CASE Finish
    BY <1>3 DEF Classified, Grouped, Finish
<1>4. CASE FillPool
  <2>0. pc = "fill"
      BY <1>4, FillPoolCases
  <2>1. CASE Refused
      BY <2>0, <2>1 DEF Classified, Grouped, Refused, Fail
  <2>2. CASE started < Last /\ Started
    <3>1. \A i \in inFlight : i \in first..started /\ i # started + 1
        BY <2>0, <1>0 DEF Classified, Grouped
    <3>2. \A i \in inFlight : kind'[i] = kind[i]
        BY <2>2, <3>1, <1>0 DEF TypeOK, Started
    <3>3. started + 1 \in Call
        BY <2>0, <2>2, <1>0 DEF TypeOK, Counted, Grouped, Last, Call
    <3>4. mode = "parallel" => kind'[started'] = "parallel"
        BY <2>2, <3>3 DEF TypeOK, Started, StartMode
    <3>5. \A i \in inFlight' : i \in first'..started'
        BY <2>2, <3>1, <1>0 DEF Started
    <3> QED BY <2>0, <2>2, <3>2, <3>4, <3>5 DEF Classified, Grouped, Started
  <2>3. CASE \E aborted \in BOOLEAN : LeavePool(aborted)
      BY <2>0, <2>3 DEF Classified, Grouped, LeavePool, EndGroup
  <2> QED BY <1>4, <2>1, <2>2, <2>3, FillPoolCases
<1>5. CASE Prepared
  <2>0. pc = "prepare" /\ started \in first..started
      BY <1>5, <1>0 DEF Prepared, Counted
  <2>1. CASE Fail /\ UNCHANGED <<stage, inFlight>>
      BY <1>5, <2>0, <2>1 DEF Classified, Grouped, Prepared, Fail
  <2>2. CASE Refuse(started)
      BY <1>5, <2>0, <2>2 DEF Classified, Grouped, Prepared, Refuse
  <2>3. CASE Dispatch(started)
      BY <1>5, <2>0, <2>3 DEF Classified, Grouped, Prepared, Dispatch
  <2> QED BY <1>5, <2>1, <2>2, <2>3 DEF Prepared
<1>6. CASE Committed
    BY <1>6 DEF Classified, Grouped, Committed
<1>7. CASE Reject
    BY <1>7 DEF Classified, Grouped, Reject
<1>8. CASE SkipCall
    BY <1>8 DEF Classified, Grouped, SkipCall
<1>9. CASE SkipResult
    BY <1>9 DEF Classified, Grouped, SkipResult
<1>10. CASE FinishSkipped
    BY <1>10 DEF Classified, Grouped, FinishSkipped
<1>11. ASSUME NEW i \in Call, Commit(i) PROVE Classified'
    BY <1>11 DEF Classified, Grouped, Commit, Fail
<1>12. ASSUME NEW i \in Call, Race(i) PROVE Classified'
    BY <1>12 DEF Classified, Grouped, Race, Fail
<1>13. ASSUME NEW i \in Call, Dispatched(i) PROVE Classified'
    BY <1>13 DEF Classified, Grouped, Dispatched, InvokeBody, SettleDispatch, flowVars
<1>14. CASE Ended
    BY <1>14 DEF Classified, Grouped, Ended, vars, flowVars
<1> QED BY <1>1, <1>2, <1>3, <1>4, <1>5, <1>6, <1>7, <1>8, <1>9, <1>10, <1>11,
           <1>12, <1>13, <1>14 DEF Next, Scheduler

(* A started call that is not committed is in flight or has its result slot. *)
LEMMA StepAwaited == TypeOK /\ Counted /\ Pooled /\ Awaited /\ Next => Awaited'
<1> SUFFICES ASSUME TypeOK, Counted, Pooled, Awaited, Next PROVE Awaited'
    OBVIOUS
<1> USE CallsAssumption
<1>0. started \in 0..Calls /\ committed \in Nat /\ first \in Int /\ inFlight \subseteq Call
    BY DEF TypeOK
<1>1. CASE Cancel
    BY <1>1 DEF Awaited, Cancel, flowVars, logVars
<1>2. CASE OpenGroup
    BY <1>2, <1>0 DEF Awaited, OpenGroup, Counted
<1>3. CASE Finish
    BY <1>3 DEF Awaited, Finish
<1>4. CASE FillPool
  <2>0. pc = "fill"
      BY <1>4, FillPoolCases
  <2>1. CASE Refused
      BY <2>0, <2>1 DEF Awaited, Refused, Fail
  <2>2. CASE Started
    <3>1. ASSUME NEW i \in (committed' + 1)..started'
          PROVE  i \in inFlight' \/ stage'[i] = "ready" \/ i = started'
      <4>1. i = started + 1 \/ i \in (committed + 1)..started
          BY <2>2, <1>0 DEF Started
      <4> QED BY <2>0, <2>2, <4>1 DEF Awaited, Started
    <3> QED BY <2>2, <3>1 DEF Awaited, Started
  <2>3. CASE \E aborted \in BOOLEAN : LeavePool(aborted)
      BY <2>0, <2>3 DEF Awaited, LeavePool, EndGroup
  <2> QED BY <1>4, <2>1, <2>2, <2>3, FillPoolCases
<1>5. CASE Prepared
  <2>0. pc = "prepare" /\ started \in Call
      BY <1>5, <1>0 DEF Prepared, Counted, Call
  <2>1. CASE Fail /\ UNCHANGED <<stage, inFlight>>
      BY <2>1 DEF Awaited, Fail
  <2>2. CASE Refuse(started)
    <3>1. \A i \in Call : stage'[i] = IF i = started THEN "ready" ELSE stage[i]
        BY <2>0, <2>2 DEF TypeOK, Refuse
    <3>2. \A i \in (committed + 1)..started : i \in Call
        BY <1>0 DEF Call
    <3> QED BY <2>0, <2>2, <3>1, <3>2 DEF Awaited, Refuse
  <2>3. CASE Dispatch(started)
    <3>1. \A i \in Call : stage'[i] = IF i = started THEN "dispatched" ELSE stage[i]
        BY <2>0, <2>3 DEF TypeOK, Dispatch
    <3>2. \A i \in (committed + 1)..started : i \in Call
        BY <1>0 DEF Call
    <3> QED BY <2>0, <2>3, <3>1, <3>2 DEF Awaited, Dispatch
  <2> QED BY <1>5, <2>1, <2>2, <2>3 DEF Prepared
<1>6. CASE Committed
  <2>1. committed < started => committed + 1 \in (committed + 1)..started /\ committed + 1 \in Call
      BY <1>0 DEF Call
  <2>2. committed + 1 \in Call => stage[committed + 1] # "ready"
      BY <1>6 DEF Committed, NextToCommit
  <2>3. pc = "commit" /\ pc' = "fill" /\ UNCHANGED <<started, committed, stage, inFlight>>
      BY <1>6 DEF Committed
  <2> QED BY <2>1, <2>2, <2>3 DEF Awaited
<1>7. CASE Reject
    BY <1>7 DEF Awaited, Reject
<1>8. CASE SkipCall
    BY <1>8 DEF Awaited, SkipCall
<1>9. CASE SkipResult
    BY <1>9 DEF Awaited, SkipResult
<1>10. CASE FinishSkipped
    BY <1>10 DEF Awaited, FinishSkipped
<1>11. ASSUME NEW i \in Call, Commit(i) PROVE Awaited'
  <2>1. CASE Fail
      BY <2>1 DEF Awaited, Fail
  <2>2. CASE committed' = committed + 1 /\ UNCHANGED <<pc, started>>
    <3>1. pc = "commit" /\ UNCHANGED <<stage, inFlight>>
        BY <1>11 DEF Commit
    <3>2. \A j \in (committed' + 1)..started' : j \in (committed + 1)..started
        BY <2>2, <1>0
    <3> QED BY <2>2, <3>1, <3>2 DEF Awaited
  <2> QED BY <1>11, <2>1, <2>2 DEF Commit
<1>12. ASSUME NEW i \in Call, Race(i) PROVE Awaited'
  <2>1. CASE failed
      BY <1>12, <2>1 DEF Awaited, Race, Fail
  <2>2. CASE ~failed
    <3>1. stage[i] = "ready"
        BY <1>12, <2>2 DEF Pooled, Race, Live, TypeOK, Stage
    <3> QED BY <1>12, <2>2, <3>1 DEF Awaited, Race
  <2> QED BY <2>1, <2>2
<1>13. ASSUME NEW i \in Call, Dispatched(i) PROVE Awaited'
  <2>1. /\ i \in inFlight /\ UNCHANGED <<pc, started, committed, inFlight>>
        /\ \A j \in Call : j # i => stage'[j] = stage[j]
      BY <1>13 DEF TypeOK, Dispatched, InvokeBody, SettleDispatch, flowVars, Live, LiveCalls, Pooled
  <2>2. \A j \in (committed + 1)..started : j \in Call
      BY <1>0 DEF Call
  <2> QED BY <2>1, <2>2 DEF Awaited
<1>14. CASE Ended
    BY <1>14 DEF Awaited, Ended, vars, flowVars
<1> QED BY <1>1, <1>2, <1>3, <1>4, <1>5, <1>6, <1>7, <1>8, <1>9, <1>10, <1>11,
           <1>12, <1>13, <1>14 DEF Next, Scheduler

(* A concluding result that was logged is remembered, by the group or by the
   batch. *)
LEMMA StepConcluding == TypeOK /\ Concluding /\ Next => Concluding'
<1> SUFFICES ASSUME TypeOK, Concluding, Next PROVE Concluding'
    OBVIOUS
<1>1. CASE Cancel
    BY <1>1 DEF Concluding, Grouped, Cancel, flowVars, logVars
<1>2. CASE OpenGroup
    BY <1>2 DEF Concluding, Grouped, OpenGroup, logVars
<1>3. CASE Finish
    BY <1>3 DEF Concluding, Grouped, Finish, logVars
<1>4. CASE FillPool
  <2>0. pc = "fill"
      BY <1>4, FillPoolCases
  <2>1. CASE Refused
      BY <2>0, <2>1 DEF Concluding, Grouped, Refused, Fail, logVars
  <2>2. CASE Started
      BY <2>0, <2>2 DEF Concluding, Grouped, Started
  <2>3. CASE \E aborted \in BOOLEAN : LeavePool(aborted)
    <3>1. CASE UNCHANGED <<concluded, groupConcluded, concluding>> /\ pc' = "race"
        BY <2>0, <3>1 DEF Concluding, Grouped
    <3>2. CASE FoldConclusion /\ UNCHANGED concluding /\ pc' \in {"skip", "group"}
        BY <2>0, <3>2 DEF Concluding, Grouped, FoldConclusion
    <3> QED BY <2>3, <3>1, <3>2 DEF LeavePool, EndGroup, logVars
  <2> QED BY <1>4, <2>1, <2>2, <2>3, FillPoolCases
<1>5. CASE Prepared
    BY <1>5 DEF Concluding, Grouped, Prepared, Dispatch, Refuse, Fail, logVars
<1>6. CASE Committed
    BY <1>6 DEF Concluding, Grouped, Committed, logVars
<1>7. CASE Reject
    BY <1>7 DEF Concluding, Grouped, Reject, logVars
<1>8. CASE SkipCall
    BY <1>8 DEF Concluding, Grouped, SkipCall
<1>9. CASE SkipResult
    BY <1>9 DEF Concluding, Grouped, SkipResult
<1>10. CASE FinishSkipped
    BY <1>10 DEF Concluding, Grouped, FinishSkipped, logVars
<1>11. ASSUME NEW i \in Call, Commit(i) PROVE Concluding'
  <2>1. CASE Fail /\ UNCHANGED logVars
      BY <1>11, <2>1 DEF Concluding, Grouped, Commit, Fail, logVars
  <2>2. CASE /\ \E concludes \in BOOLEAN :
                  /\ concluding' = IF concludes THEN concluding \cup {i} ELSE concluding
                  /\ groupConcluded' = (groupConcluded \/ concludes)
             /\ UNCHANGED <<pc, concluded>>
    <3>1. PICK concludes \in BOOLEAN :
             /\ concluding' = IF concludes THEN concluding \cup {i} ELSE concluding
             /\ groupConcluded' = (groupConcluded \/ concludes)
        BY <2>2
    <3>2. pc = "commit" /\ pc' = "commit" /\ concluded' = concluded
        BY <1>11, <2>2 DEF Commit
    <3>3. CASE concludes
        BY <3>1, <3>2, <3>3 DEF Concluding, Grouped
    <3>4. CASE ~concludes
        BY <3>1, <3>2, <3>4 DEF Concluding, Grouped
    <3> QED BY <3>3, <3>4
  <2> QED BY <1>11, <2>1, <2>2 DEF Commit
<1>12. ASSUME NEW i \in Call, Race(i) PROVE Concluding'
    BY <1>12 DEF Concluding, Grouped, Race, Fail, logVars
<1>13. ASSUME NEW i \in Call, Dispatched(i) PROVE Concluding'
    BY <1>13 DEF Concluding, Grouped, Dispatched, InvokeBody, SettleDispatch, flowVars, logVars
<1>14. CASE Ended
    BY <1>14 DEF Concluding, Grouped, Ended, vars, flowVars, logVars
<1> QED BY <1>1, <1>2, <1>3, <1>4, <1>5, <1>6, <1>7, <1>8, <1>9, <1>10, <1>11,
           <1>12, <1>13, <1>14 DEF Next, Scheduler

(* The two logs grow by the next call or not at all. *)
LEMMA LogsGrow ==
    ASSUME TypeOK, Counted, Pooled, Next
    PROVE  \/ UNCHANGED <<calls, results>>
           \/ calls' = Append(calls, started + 1) /\ UNCHANGED results
           \/ results' = Append(results, committed + 1) /\ committed < started /\ UNCHANGED calls
<1>1. CASE FillPool
    BY <1>1, FillPoolCases DEF Refused, Started, LeavePool, EndGroup, logVars
<1>2. CASE SkipResult
  <2>1. started = committed + 1
      BY <1>2 DEF SkipResult, Counted, TypeOK
  <2> QED BY <1>2, <2>1 DEF SkipResult
<1>3. ASSUME NEW i \in Call, Commit(i)
      PROVE  \/ UNCHANGED <<calls, results>>
             \/ results' = Append(results, committed + 1) /\ committed < started /\ UNCHANGED calls
  <2>1. i = committed + 1 /\ i <= started /\ committed \in Int /\ started \in Int
      BY <1>3 DEF Commit, NextToCommit, Pooled, TypeOK, Stage
  <2> QED BY <1>3, <2>1 DEF Commit, logVars
<1> QED BY <1>1, <1>2, <1>3
   DEF Next, Scheduler, Cancel, OpenGroup, Finish, Prepared, Committed, Reject, SkipCall,
       FinishSkipped, Race, Dispatched, InvokeBody, SettleDispatch, Ended, vars, logVars

(* tool/call and tool/result are appended in the order the model asked. *)
LEMMA StepModelOrder == TypeOK /\ Counted /\ Pooled /\ ModelOrder /\ Next => ModelOrder'
<1> SUFFICES ASSUME TypeOK, Counted, Pooled, ModelOrder, Next PROVE ModelOrder'
    OBVIOUS
<1>0. calls \in Seq(Call) /\ results \in Seq(Call) /\ Len(calls) = started /\ Len(results) = committed
    BY DEF TypeOK, Counted
<1>1. CASE calls' = Append(calls, started + 1) /\ UNCHANGED results
    BY <1>0, <1>1 DEF ModelOrder
<1>2. CASE results' = Append(results, committed + 1) /\ UNCHANGED calls
    BY <1>0, <1>2 DEF ModelOrder
<1>3. CASE UNCHANGED <<calls, results>>
    BY <1>3 DEF ModelOrder
<1> QED BY <1>1, <1>2, <1>3, LogsGrow

(* A batch starts with an empty pool and nothing logged. *)
LEMMA InitInv == Init => BatchInv
<1> SUFFICES ASSUME Init PROVE BatchInv
    OBVIOUS
<1>1. Counted /\ Concluding /\ ModelOrder
    BY DEF Init, Counted, Grouped, Concluding, ModelOrder
<1>2. Pooled
  <2>1. \A i \in Call : stage[i] = "planned"
      BY DEF Init
  <2>2. Cardinality(inFlight) = 0
      BY FS_EmptySet DEF Init
  <2> QED BY <2>1, <2>2, MaxParallelAssumption DEF Init, Pooled, LiveCalls, Live
<1>3. Classified /\ Awaited
    BY DEF Init, Classified, Grouped, Awaited
<1> QED BY <1>1, <1>2, <1>3 DEF BatchInv

(* Every step of the scheduler keeps every part of the invariant. *)
LEMMA StepInv == TypeOK /\ BatchInv /\ [Next]_vars => TypeOK' /\ BatchInv'
<1> SUFFICES ASSUME TypeOK, BatchInv, [Next]_vars PROVE TypeOK' /\ BatchInv'
    OBVIOUS
<1>1. CASE Next
    BY <1>1, StepTyped, StepCounted, StepPooled, StepClassified, StepAwaited, StepConcluding,
       StepModelOrder DEF BatchInv
<1>2. CASE UNCHANGED vars
  <2>2. TypeOK' /\ Counted' /\ Concluding' /\ ModelOrder'
      BY <1>2 DEF TypeOK, BatchInv, Counted, Grouped, Last, Concluding, ModelOrder, vars, flowVars, logVars
  <2>3. Pooled' /\ Classified' /\ Awaited'
      BY <1>2 DEF BatchInv, Pooled, LiveCalls, Live, Classified, Grouped, Awaited, vars, flowVars, logVars
  <2> QED BY <2>2, <2>3 DEF BatchInv
<1> QED BY <1>1, <1>2

(* executeToolBatch and runGroup: the inductive invariant of the scheduler,
   for every number of calls, pool size and set of stages that may fail. *)
THEOREM BatchInvariant == Spec => [](TypeOK /\ BatchInv)
<1> QED BY InitTyped, InitInv, StepInv, PTL DEF Spec

----------------------------------------------------------------------------
(* The results. *)

(* Every variable keeps its type: in particular the counters never leave the
   batch, whatever fails. *)
THEOREM TypeCorrect == Spec => []TypeOK
<1> QED BY BatchInvariant, PTL

(* However dispatches settle, are raced and are replaced, no more than
   MaxParallel bodies are live, for every pool size (batch.ts runGroup). *)
THEOREM PoolIsBounded == Spec => []PoolBound
<1>1. TypeOK /\ BatchInv => PoolBound
  <2> SUFFICES ASSUME TypeOK, BatchInv PROVE PoolBound
      OBVIOUS
  <2>1. IsFiniteSet(inFlight) /\ LiveCalls \in SUBSET inFlight
      BY PoolFinite DEF BatchInv, Pooled
  <2>2. Cardinality(LiveCalls) <= Cardinality(inFlight) /\ Cardinality(LiveCalls) \in Nat
      BY <2>1, FS_Subset, FS_CardinalityType
  <2>3. Cardinality(inFlight) <= MaxParallel /\ Cardinality(inFlight) \in Nat
      BY PoolFinite DEF BatchInv, Pooled
  <2> QED BY <2>2, <2>3, MaxParallelAssumption DEF PoolBound
<1> QED BY <1>1, BatchInvariant, PTL

(* A call classified exclusive overlaps no other call of its batch, even when
   the tool registry reclassifies calls while the pool is full. *)
THEOREM ExclusiveIsBarrier == Spec => []Barrier
<1>1. TypeOK /\ BatchInv => Barrier
  <2> SUFFICES ASSUME TypeOK, BatchInv, NEW i \in LiveCalls, NEW j \in LiveCalls, i # j
               PROVE  kind[i] = "parallel"
      BY DEF Barrier
  <2>1. i \in inFlight /\ j \in inFlight /\ inFlight \subseteq Call
      BY DEF BatchInv, Pooled, TypeOK
  <2>2. Grouped
      BY <2>1 DEF BatchInv, Pooled, Grouped, TypeOK, PC
  <2>3. i \in first..started /\ j \in first..started /\ started \in Int /\ first \in Int
      BY <2>1, <2>2 DEF BatchInv, Classified, TypeOK
  <2>4. mode = "parallel"
      BY <2>2, <2>3 DEF BatchInv, Counted, Last, TypeOK, Mode
  <2> QED BY <2>1, <2>2, <2>4 DEF BatchInv, Classified
<1> QED BY <1>1, BatchInvariant, PTL

(* tool/call and tool/result events follow the order the model gave. *)
THEOREM ResultsInModelOrder == Spec => []ModelOrder
<1> QED BY BatchInvariant, PTL DEF BatchInv

(* A batch that resolves answered every call once, cancelled or not, with no
   body left running; one that rejects left none running either. *)
THEOREM SettledBatch == Spec => [](EveryCallAnswered /\ Drained /\ NothingUncommitted)
<1>1. TypeOK /\ BatchInv => EveryCallAnswered /\ Drained /\ NothingUncommitted
    BY DEF BatchInv, Counted, Pooled, EveryCallAnswered, Drained, NothingUncommitted
<1> QED BY <1>1, BatchInvariant, PTL

(* A concluding result concludes the batch, in an aborted group too. *)
THEOREM ConclusionCounts == Spec => []ConclusionKept
<1>1. TypeOK /\ BatchInv => ConclusionKept
    BY DEF BatchInv, Concluding, ConclusionKept
<1> QED BY <1>1, BatchInvariant, PTL

(* A call that waited for policy while a dispatch failed is not dispatched. *)
THEOREM FailureStops == Spec => FailureStopsDispatch
<1>1. TypeOK /\ [Next]_vars
          => [failed => \A i \in Call : stage[i] = "planned" => stage'[i] # "dispatched"]_vars
  <2> SUFFICES ASSUME TypeOK, Next, failed, NEW i \in Call, stage[i] = "planned"
               PROVE  stage'[i] # "dispatched"
      OBVIOUS
  <2>1. CASE FillPool
      BY <2>1, FillPoolCases DEF Refused, LeavePool, EndGroup
  <2>2. CASE Prepared
    <3>1. CASE Refuse(started)
        BY <3>1 DEF Refuse, TypeOK
    <3>2. CASE UNCHANGED stage
        BY <3>2
    <3> QED BY <2>2, <3>1, <3>2 DEF Prepared
  <2>3. CASE \E j \in Call : Dispatched(j)
      BY <2>3 DEF Dispatched, InvokeBody, SettleDispatch, Live, TypeOK
  <2> QED BY <2>1, <2>2, <2>3
     DEF Next, Scheduler, Cancel, OpenGroup, Finish, Committed, Reject, SkipCall, SkipResult,
         FinishSkipped, Commit, Race, Ended, vars
<1> QED BY <1>1, BatchInvariant, PTL DEF Spec, FailureStopsDispatch

(* Every event of the batch is a step of the abstract log. *)
THEOREM BatchLogs == Spec => LogSteps
<1>1. TypeOK /\ BatchInv /\ [Next]_vars => [Log!Call \/ Log!Answer]_<<Len(calls), Len(results)>>
  <2> SUFFICES ASSUME TypeOK, BatchInv, Next
               PROVE  [Log!Call \/ Log!Answer]_<<Len(calls), Len(results)>>
      BY DEF vars, logVars
  <2>1. calls \in Seq(Call) /\ results \in Seq(Call) /\ Len(calls) = started /\ Len(results) = committed
      BY DEF TypeOK, BatchInv, Counted
  <2>2. started \in 0..Calls /\ committed \in 0..Calls /\ committed <= started
        /\ started' \in 0..Calls /\ Len(calls') = started'
      BY StepTyped, StepCounted DEF TypeOK, BatchInv, Counted
  <2>3. CASE calls' = Append(calls, started + 1) /\ UNCHANGED results
    <3>1. Len(Append(calls, started + 1)) = Len(calls) + 1
        BY <2>1
    <3>2. Len(calls') = Len(calls) + 1 /\ Len(results') = Len(results)
        BY <2>3, <3>1
    <3>3. started < Calls
        BY <2>1, <2>2, <3>2, CallsAssumption
    <3>4. Len(calls) < Calls /\ Len(results) < Calls
        BY <2>1, <2>2, <3>3, CallsAssumption
    <3> QED BY <3>2, <3>4 DEF Log!Call
  <2>4. CASE results' = Append(results, committed + 1) /\ committed < started /\ UNCHANGED calls
    <3>0. Len(Append(results, committed + 1)) = Len(results) + 1
        BY <2>1
    <3>1. Len(results') = Len(results) + 1 /\ committed < Calls
        BY <2>2, <2>4, <3>0, CallsAssumption
    <3> QED BY <2>1, <2>2, <2>4, <3>1 DEF Log!Answer
  <2>5. CASE UNCHANGED <<calls, results>>
      BY <2>5
  <2> QED BY <2>3, <2>4, <2>5, LogsGrow DEF BatchInv
<1> QED BY <1>1, BatchInvariant, PTL DEF Spec, LogSteps

(* Pool, barriers and model order together: what may run at one time, and in
   which order it reaches the log. *)
THEOREM Scheduling == Spec => []Scheduled
<1>1. PoolBound /\ Barrier /\ ModelOrder => Scheduled
    BY DEF Scheduled
<1> QED BY <1>1, PoolIsBounded, ExclusiveIsBarrier, ResultsInModelOrder, PTL

(* Every way a batch ends accounts for every call, slot, body and conclusion. *)
THEOREM Accounting == Spec => []Accounted
<1>1. /\ EveryCallAnswered /\ Drained /\ NothingUncommitted
      /\ ConclusionKept
      => Accounted
    BY DEF Accounted
<1> QED BY <1>1, SettledBatch, ConclusionCounts, PTL

(* No step logs out of the grammar or dispatches behind a failure. *)
THEOREM AllowedSteps == Spec => StepsAllowed
<1> QED BY FailureStops, BatchLogs, PTL DEF StepsAllowed
============================================================================
