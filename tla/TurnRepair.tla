---------------------------- MODULE TurnRepair ----------------------------
(***************************************************************************)
(* Crash repair of a session log (session/src/repair.ts, fork.ts, and      *)
(* resumeWith in agent-loop/src/index.ts).                                 *)
(*                                                                         *)
(* A live session appends events by the grammar of TurnLog; a prefix of    *)
(* them is durable.  A crash keeps that prefix.  Resuming scans it once,   *)
(* event by event, and appends the closers of an interrupted turn; a crash *)
(* may keep only some of the closers, and the next resume scans again.     *)
(* The variables of TurnLog say what the writer did; the scan must find    *)
(* the same from the events alone.                                         *)
(***************************************************************************)
EXTENDS TurnLog, Sequences, SequencesExt, FiniteSets

CONSTANTS
    MaxTurns,   \* bound: turns of the log
    MaxSteps,   \* bound: steps of the log
    MaxCrashes  \* bound: crashes of the process

ASSUME BoundsAssumption == {MaxTurns, MaxSteps, MaxCrashes} \subseteq Nat

VARIABLES
    log,        \* the session's events
    durable,    \* how many of them an awaited append has put on disk
    mode,       \* "live", "down" after a crash, "resuming"
    expected,   \* the repaired log, from the crash of a live session on
    crashes

vars == <<logVars, log, durable, mode, expected, crashes>>

Outcomes == {"settled", "unknown", "notStarted"}

TurnStart == [type |-> "turn/start", turn |-> logTurn + 1]
StepStart == [type |-> "step/start", turn |-> logTurn, step |-> logStep + 1]
Message(calls) ==
    [type |-> "assistant/message", turn |-> logTurn, step |-> logStep, calls |-> calls]
CallEvent(i) == [type |-> "tool/call", turn |-> logTurn, step |-> logStep, call |-> i]
Result(turn, step, i, outcome) ==
    [type |-> "tool/result", turn |-> turn, step |-> step, call |-> i, outcome |-> outcome]
StepEnd(turn, step) == [type |-> "step/end", turn |-> turn, step |-> step]
TurnEnd(turn, reason) == [type |-> "turn/end", turn |-> turn, reason |-> reason]
EndSeed == [type |-> "session/end-seed"]

-----------------------------------------------------------------------------
(* The scan of repair.ts *)

(* The calls of a message, as they wait for their execution. *)
Requested(event) ==
    [k \in 1..Len(event.calls) |->
        [call |-> event.calls[k], turn |-> event.turn, step |-> event.step, started |-> FALSE]]

(* The calls that wait, with the one that the event says is executed marked. *)
Marked(pending, event) ==
    [k \in DOMAIN pending |->
        [pending[k] EXCEPT !.started = @ \/ pending[k].call = event.call]]

Answered(p, event) ==
    p.call = event.call /\ p.turn = event.turn /\ p.step = event.step

(* The calls that wait, without those that the result answers. *)
Unanswered(pending, event) ==
    LET kept[k \in 0..Len(pending)] ==
            IF k = 0 THEN <<>>
            ELSE IF Answered(pending[k], event) THEN kept[k - 1]
            ELSE Append(kept[k - 1], pending[k])
    IN  kept[Len(pending)]

(* ToolCallRecovery.observe and the boundary cursor of openTurnClosers, for
   one event: pending calls keep the order in which they were requested,
   and each remembers whether a call event was seen. *)
Observe(scan, event) ==
    CASE event.type = "turn/start" ->
            [turn |-> event.turn, step |-> 0, pending |-> <<>>]
      [] event.type = "turn/end" -> [turn |-> 0, step |-> 0, pending |-> <<>>]
      [] event.type = "step/start" -> [scan EXCEPT !.step = event.step]
      [] event.type = "step/end" -> [turn |-> scan.turn, step |-> 0, pending |-> <<>>]
      [] event.type = "assistant/message" ->
            [scan EXCEPT !.pending = @ \o Requested(event)]
      [] event.type = "tool/call" -> [scan EXCEPT !.pending = Marked(@, event)]
      [] event.type = "tool/result" -> [scan EXCEPT !.pending = Unanswered(@, event)]
      [] OTHER -> scan

Idle == [turn |-> 0, step |-> 0, pending |-> <<>>]

(* (The set makes TLC evaluate the scan of each prefix once.) *)
Scan(events) ==
    LET scan[k \in 0..Len(events)] ==
            IF k = 0 THEN Idle
            ELSE CHOOSE s \in {Observe(before, events[k]) : before \in {scan[k - 1]}} : TRUE
    IN  scan[Len(events)]

(* Bug: started calls are not told from the others. *)
ResultsAllUnknown(scan) ==
    [k \in DOMAIN scan.pending |->
        Result(scan.pending[k].turn, scan.pending[k].step, scan.pending[k].call, "unknown")]

(* ToolCallRecovery.results: an error for every pending call, in order. *)
Results(scan) ==
    [k \in DOMAIN scan.pending |->
        LET p == scan.pending[k]
        IN  Result(p.turn, p.step, p.call, IF p.started THEN "unknown" ELSE "notStarted")]

(* openTurnClosers: nothing for a balanced log. *)
Closers(events, cause) ==
    LET scan == Scan(events) IN
    IF scan.turn = 0 THEN <<>>
    ELSE Results(scan)
         \o (IF scan.step = 0 THEN <<>> ELSE <<StepEnd(scan.turn, scan.step)>>)
         \o <<TurnEnd(scan.turn, cause)>>

Repaired(events) == events \o Closers(events, "interrupted")

(* buildForkSeed: the inherited prefix, its marker, then the closers. *)
ForkSeed(events) == Append(events, EndSeed) \o Closers(Append(events, EndSeed), "forked")

-----------------------------------------------------------------------------
(* The live session *)

RepairInit ==
    /\ Init
    /\ log = <<>> /\ durable = 0 /\ mode = "live"
    /\ expected = <<>> /\ crashes = 0

Append1(event) ==
    /\ mode = "live" /\ log' = Append(log, event)
    /\ UNCHANGED <<durable, mode, expected, crashes>>

LiveStartTurn == logTurn < MaxTurns /\ StartTurn /\ Append1(TurnStart)

LiveStartStep ==
    /\ Cardinality({i \in 1..Len(log) : log[i].type = "step/start"}) < MaxSteps
    /\ StartStep /\ Append1(StepStart)

LiveAsk ==
    /\ Ask /\ asked = 0
    /\ Append1(Message([k \in 1..asked' |-> k]))

(* The call event is appended, then the body of the tool is invoked. *)
LiveCall == Call /\ Append1(CallEvent(called + 1))

LiveSettle ==
    /\ answered < called /\ answered' = answered + 1 /\ Answer
    /\ Append1(Result(logTurn, logStep, answered + 1, "settled"))

(* A failed step answers the calls that are left before it closes: the
   driver has observed the step's events with a ToolCallRecovery. *)
LiveRecover ==
    /\ mode = "live" /\ answered' = asked /\ Answer
    /\ log' = log \o Results(Scan(log))
    /\ UNCHANGED <<durable, mode, expected, crashes>>

LiveEndStep == EndStep /\ Append1(StepEnd(logTurn, logStep))

LiveEndTurn == EndTurn /\ Append1(TurnEnd(logTurn, "done"))

Live ==
    \/ LiveStartTurn \/ LiveStartStep \/ LiveAsk \/ LiveCall
    \/ LiveSettle \/ LiveRecover \/ LiveEndStep \/ LiveEndTurn

-----------------------------------------------------------------------------
(* Durability, crashes and resuming *)

(* The process dies.  Background writes may have reached any event since
   the prefix that was last known to be durable. *)
Crash ==
    /\ mode # "down" /\ crashes < MaxCrashes
    /\ crashes' = crashes + 1
    /\ durable' \in durable..Len(log)
    /\ log' = SubSeq(log, 1, durable') /\ mode' = "down"
    /\ expected' = IF mode = "live" THEN Repaired(log') ELSE expected
    /\ UNCHANGED logVars

(* resumeWith: read, compute the closers, append them as one batch. *)
Resume ==
    /\ mode = "down"
    /\ mode' = "resuming" /\ log' = Repaired(log)
    /\ UNCHANGED <<logVars, durable, expected, crashes>>

(* The append of the closers resolved: the session is constructed over them with its
   marker, and the agent goes on from a closed turn. *)
Enter ==
    /\ mode = "resuming"
    /\ log' = IF log # <<>> /\ log[Len(log)] = EndSeed THEN log ELSE Append(log, EndSeed)
    /\ durable' = Len(log')
    /\ mode' = "live"
    /\ logTurn' = Cardinality({i \in 1..Len(log) : log[i].type = "turn/start"})
    /\ turnOpen' = FALSE /\ logStep' = 0 /\ stepOpen' = FALSE
    /\ asked' = 0 /\ called' = 0 /\ answered' = 0
    /\ UNCHANGED <<expected, crashes>>

RepairNext == Live \/ Crash \/ Resume \/ Enter

RepairSpec == RepairInit /\ [][RepairNext]_vars

-----------------------------------------------------------------------------
(* Every variable keeps its type, and what is durable is in the log. *)
RepairTypeOK ==
    /\ TypeOK
    /\ logTurn <= MaxTurns /\ logStep <= MaxSteps
    /\ mode \in {"live", "down", "resuming"}
    /\ durable \in 0..Len(log) /\ crashes \in 0..MaxCrashes
    /\ \A i \in 1..Len(log) :
          log[i].type = "tool/result" => log[i].outcome \in Outcomes

(* The scan of the events alone finds what the writer knows: the open turn
   and step, and the calls that wait for a result, in request order, each
   with whether its execution was recorded. *)
ScanAgrees ==
    mode = "live" =>
        Scan(log) = [turn |-> IF turnOpen THEN logTurn ELSE 0,
                     step |-> IF stepOpen THEN logStep ELSE 0,
                     pending |-> [k \in 1..(asked - answered) |->
                        [call |-> answered + k, turn |-> logTurn, step |-> logStep,
                         started |-> answered + k <= called]]]

(* The bracket that opens at place i is closed, with nothing between that would
   open or close another. *)
ClosedBy(events, i, end, stops) ==
    \E j \in 1..Len(events) :
        /\ events[j].type = end /\ i < j /\ events[j].turn = events[i].turn
        /\ \A k \in (i + 1)..(j - 1) : events[k].type \notin stops

(* An event of the call c of the step that the event is of. *)
Concerns(other, type, c, event) ==
    other.type = type /\ other.call = c /\ other.turn = event.turn /\ other.step = event.step

(* The call has one result, in its step and in its place. *)
Settled(events, i, c) ==
    \E j \in 1..Len(events) :
        /\ \A k \in 1..Len(events) : Concerns(events[k], "tool/result", c, events[i]) <=> k = j
        /\ i < j
        /\ \A k \in i..j : events[k].type # "step/end"
        /\ \A k \in i..j : events[k].type = "tool/result" => k = j \/ events[k].call < c

(* Reference definition of a balanced log, from the positions of its
   events: brackets close in their scope, and every requested call has
   exactly one result, after its request, before its step ends, and in the
   order of the requests. *)
Balanced(events) ==
    \A i \in 1..Len(events) :
        /\ events[i].type = "turn/start" =>
              ClosedBy(events, i, "turn/end", {"turn/start", "turn/end"})
        /\ events[i].type = "step/start" =>
              ClosedBy(events, i, "step/end", {"step/start", "step/end", "turn/end"})
        /\ events[i].type = "assistant/message" =>
              \A c \in 1..Len(events[i].calls) : Settled(events, i, c)

(* Wherever a crash or a fork cuts the log, the closers balance it: no
   later request carries a dangling call, and no call is answered twice. *)
EveryCutRepairs ==
    /\ Balanced(Repaired(log))
    /\ log # <<>> => Balanced(ForkSeed(log))

(* A result is honest if it says "not started" of what no event says was. *)
Honest(events, i) ==
    (events[i].outcome = "notStarted")
        = ~\E k \in 1..(i - 1) : Concerns(events[k], "tool/call", events[i].call, events[i])

(* The closers tell the model what the log says of a call: not started only
   if no execution was recorded, unknown only if one was and no result
   followed, and a recorded result is never replaced. *)
HonestOutcomes ==
    LET events == Repaired(log) IN
    \A i \in 1..Len(events) : events[i].type = "tool/result" => Honest(events, i)

(* Repair is repeatable: a crash while the closers are written, at any of
   them, leaves a log whose repair is the one that was interrupted, and the
   session goes on after exactly that log. *)
RepairConverges ==
    IF mode = "live" THEN IsPrefix(expected, log) ELSE Repaired(log) = expected

(* Every log that a crash, a fork or an interrupted repair leaves is repaired to
   one that a provider accepts, that tells the truth about each call, and that
   further repairs leave alone. *)
RepairSound ==
    RepairTypeOK /\ ScanAgrees /\ EveryCutRepairs /\ HonestOutcomes /\ RepairConverges

-----------------------------------------------------------------------------
(* The inductive invariant behind RepairSound. *)

Count(events, type) == Cardinality({i \in 1..Len(events) : events[i].type = type})

(* A scan is in no step outside a turn and has no calls outside a step; its
   calls are of its step, in the order of their numbers. *)
WellFormed(scan) ==
    /\ scan = [turn |-> scan.turn, step |-> scan.step, pending |-> scan.pending]
    /\ scan.turn \in Nat /\ scan.step \in Nat
    /\ scan.turn = 0 => scan.step = 0
    /\ scan.step = 0 => scan.pending = <<>>
    /\ scan.pending \in Seq([call : Nat, turn : {scan.turn}, step : {scan.step},
                              started : BOOLEAN])
    /\ \A j, k \in DOMAIN scan.pending : j < k => scan.pending[j].call < scan.pending[k].call

(* No event of these types from place i on. *)
NoneFrom(events, i, types) == \A k \in i..Len(events) : events[k].type \notin types

(* Every bracket is closed in its scope, or is the one that the scan has open. *)
BracketsFit(events, scan) ==
    \A i \in 1..Len(events) :
        /\ events[i].type = "turn/start" =>
              \/ ClosedBy(events, i, "turn/end", {"turn/start", "turn/end"})
              \/ /\ scan.turn # 0 /\ events[i].turn = scan.turn
                 /\ NoneFrom(events, i + 1, {"turn/start", "turn/end"})
        /\ events[i].type = "step/start" =>
              \/ ClosedBy(events, i, "step/end", {"step/start", "step/end", "turn/end"})
              \/ /\ scan.step # 0 /\ events[i].turn = scan.turn
                 /\ NoneFrom(events, i + 1, {"step/start", "step/end", "turn/end"})

(* The call is one of those that the scan holds. *)
Waits(events, scan, i, c) ==
    /\ events[i].turn = scan.turn /\ events[i].step = scan.step
    /\ \E k \in DOMAIN scan.pending : scan.pending[k].call = c
    /\ NoneFrom(events, i, {"step/end"})
    /\ \A k \in i..Len(events) : events[k].type = "tool/result" => events[k].call < c

(* Every requested call has its result or waits; one that waits is known to be
   started exactly if its call event is there, and has no result. *)
CallsFit(events, scan) ==
    /\ \A i \in 1..Len(events) : events[i].type = "assistant/message" =>
          /\ Len(events[i].calls) \in Nat
          /\ \A c \in 1..Len(events[i].calls) : Settled(events, i, c) \/ Waits(events, scan, i, c)
    /\ \A k \in DOMAIN scan.pending : \A i \in 1..Len(events) :
          ~Concerns(events[i], "tool/result", scan.pending[k].call, scan.pending[k])
    /\ \A k \in DOMAIN scan.pending :
          scan.pending[k].started = \E i \in 1..Len(events) :
              Concerns(events[i], "tool/call", scan.pending[k].call, scan.pending[k])

Timed == {"turn/start", "turn/end", "step/start", "step/end",
          "assistant/message", "tool/call", "tool/result"}

(* The turns of a log are numbered one after another. *)
Numbered(events) ==
    \A i \in 1..Len(events) : events[i].type \in Timed =>
        events[i].turn \in 1..Count(events, "turn/start")

(* What the events of any part of a log from its start say of each other and of
   the scan behind them. *)
Sound(events) ==
    /\ WellFormed(Scan(events))
    /\ BracketsFit(events, Scan(events))
    /\ CallsFit(events, Scan(events))
    /\ Numbered(events) /\ Scan(events).turn <= Count(events, "turn/start")
    /\ \A i \in 1..Len(events) : events[i].type = "tool/result" =>
          events[i].call \in Nat /\ events[i].outcome \in Outcomes /\ Honest(events, i)

(* No event of a call in the step. *)
Fresh(events, turn, step) ==
    \A i \in 1..Len(events) : events[i].type \in {"tool/call", "tool/result"} =>
        ~(events[i].turn = turn /\ events[i].step = step)

(* What the writer of a log knows of it. *)
Knows ==
    /\ ScanAgrees
    /\ logTurn = Count(log, "turn/start") /\ (turnOpen => logTurn > 0)
    /\ logStep <= Count(log, "step/start")
    /\ stepOpen => turnOpen /\ logStep > 0
    /\ ~stepOpen => asked = 0 /\ called = 0 /\ answered = 0
    /\ turnOpen => \A i \in 1..Len(log) :
          log[i].type \in {"tool/call", "tool/result"} /\ log[i].turn = logTurn =>
              log[i].step \in 1..logStep
    /\ stepOpen /\ asked = 0 => Fresh(log, logTurn, logStep)
    /\ IsPrefix(expected, log)

(* Whatever of the closers is on disk, repair comes to the same log. *)
Converges ==
    /\ log = expected
    /\ \A k \in durable..Len(log) : Repaired(SubSeq(log, 1, k)) = expected

RepairInv ==
    /\ RepairTypeOK
    /\ log \in Seq(Range(log)) /\ expected \in Seq(Range(expected))
    /\ \A k \in 0..Len(log) : Sound(SubSeq(log, 1, k))
    /\ Count(log, "turn/start") <= MaxTurns
    /\ mode = "live" => Knows
    /\ mode = "down" => durable = Len(log) /\ Repaired(log) = expected
    /\ mode = "resuming" => Converges

=============================================================================
