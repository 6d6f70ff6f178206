----------------------------- MODULE Compaction -----------------------------
(***************************************************************************)
(* Compaction of a live session: the bracketed region transaction          *)
(* (compaction-basic/src/region.ts), its triggers (compaction-basic/src/   *)
(* index.ts: step pressure, model switch, context overflow, the manual     *)
(* command) and the steps of the agent loop they interleave with           *)
(* (core/agent-loop/src/agent.ts: step, buildRequest).                     *)
(*                                                                         *)
(* The driver, a caller of compactRegion and plugins run between each      *)
(* other's awaits; a crash keeps a prefix of the log.  AgentDriver has the *)
(* phases of turns in detail, ToolBatch the tool calls, TurnRepair the     *)
(* repair of a log: here they are one step each.                           *)
(***************************************************************************)
EXTENDS Surface

CONSTANTS
    Histories,          \* logs a session is restored with
    Renderings,         \* [prompt, context, inHistory]: what a step may render, and
                        \* whether its route takes prompts inside the history
    MaxCalls,           \* bound: tool calls of a response
    Threshold,          \* pressure that triggers compaction
    Retain,             \* price of the tail that stays verbatim
    CompactionRetries,  \* further attempts under pressure
    MaxOverflowRetries, \* requests retried after an overflow
    MaxSteps,           \* bound: steps the driver enters
    MaxAsks,            \* bound: explicit compactions and model switches
    MaxTwists,          \* bound: plugin edits, prunes, fixed answers, errors,
                        \* aborts, crashes
    MaxSpan,            \* bound: nodes of an explicit span
    MaxTotal            \* bound: the three together; steps and asks count double

ASSUME PolicyAssumption ==
    /\ {Threshold, Retain, CompactionRetries, MaxOverflowRetries, MaxCalls} \subseteq Nat
    /\ Retain < Threshold

(* A response has a number of tool calls; what is offloaded is the image of an
   earlier input. *)
Counted(e) == e.t = "assistant" => e.v \in Nat
Legal(log) ==
    \A i \in DOMAIN log :
        /\ Counted(log[i])
        /\ log[i].t = "offload" => log[i].v \in 1..(i - 1) /\ log[log[i].v].t = "input"


(* An event of the type stands in the log with no end behind it. *)
Stands(log, type, ends) ==
    \E i \in DOMAIN log : log[i].t = type /\ \A j \in DOMAIN log : i < j => log[j].t \notin ends

OpenTurn(log) == Stands(log, "turn/start", {"turn/end"})

(* A surface a provider accepts, but for calls that may still be running: node 0
   is the system prompt's, no result stands without its call before it, and only
   in a turn is one missing.  Nodes stand there once, runtime contexts in the
   order in which they were appended. *)
Conversation(s) ==
    /\ \A i, j \in DOMAIN s.nodes : i < j =>
          /\ s.nodes[i] # s.nodes[j]
          /\ s.log[s.nodes[i]].t = "context" /\ s.log[s.nodes[j]].t = "context"
                => s.nodes[i] < s.nodes[j]
    /\ s.nodes # <<>> => s.log[s.nodes[1]].t = "system"
    /\ \A n \in DOMAIN s.nodes : Unanswered(s, n) >= 0
    /\ OpenTurn(s.log) \/ Unanswered(s, Len(s.nodes)) = 0

(* A history was written by this program, and repaired when it was loaded. *)
ASSUME HistoriesAssumption ==
    \A h \in Histories :
        /\ h \in Seq(Range(h)) /\ Legal(h)
        /\ LET s == PutAll(NewSession, h)
           IN  Conversation(s) /\ Unanswered(s, Len(s.nodes)) = 0

VARIABLES
    session,    \* the session: log, surface, generations
    floor,      \* events known to be durable
    phase,      \* where the driver is
    aborted,    \* the driver's signal fired
    prompt,     \* the system prompt rendered for the step
    admitted,   \* the step's input is in the log
    headed,     \* a request header was committed
    reqGen,     \* contentGeneration of the last request
    retries,    \* overflow retries of this agent
    derived,    \* derived-message cache
    pairing,    \* tool-pairing cache
    jobs,       \* [driver, caller -> its compaction transaction or NoJob]
    jammed,     \* a bracket whose close could not be appended
    current,    \* the runtime context rendered for the last request
    used        \* steps, asks and twists so far

turnVars == <<phase, aborted, prompt, admitted, headed, reqGen, retries, current>>
cacheVars == <<derived, pairing>>
vars == <<session, floor, turnVars, cacheVars, jobs, jammed, used>>

Who == {"driver", "caller"}
NoJob == [at |-> "none"]
Phase == {"idle",
          "intake",      \* lyteboat/intake decides
          "pressure",    \* agent/pre-step: resolveModelInfo is out
          "preparing",   \* prepareRequest is out
          "switching",   \* a model switch: resolveModelInfo is out
          "prepared",    \* the request is about to be built
          "compacting",  \* awaits its transaction
          "requesting",  \* the response streams
          "tools",       \* the batch runs
          "stopping",    \* a completed step; the turn ends or goes on
          "maintenance"} \* compactNow's reservation of the idle agent

Init ==
    /\ \E h \in Histories :
          /\ session = Restore(IF h = <<>> THEN h ELSE Append(h, Ev("end-seed", "")))
          /\ headed = (\E i \in DOMAIN h : h[i].t = "header")
    /\ floor = Len(session.log)
    /\ phase = "idle" /\ aborted = FALSE
    /\ prompt = "" /\ admitted = TRUE
    /\ reqGen = session.contents /\ retries = 0
    /\ derived = NoDerived /\ pairing = NoPairing
    /\ jobs = [w \in Who |-> NoJob] /\ jammed = FALSE
    /\ current = ""
    /\ used = [steps |-> 0, asks |-> 0, twists |-> 0]

Spend(kind, bound) ==
    /\ used' = [used EXCEPT ![kind] = @ + 1]
    /\ used[kind] < bound
    /\ 2 * used'.steps + 2 * used'.asks + used'.twists <= MaxTotal
Step == Spend("steps", MaxSteps)
Ask == Spend("asks", MaxAsks)
Twist == Spend("twists", MaxTwists)

-----------------------------------------------------------------------------
(* Prices (the token meter is outside this repository): a tool result and an
   image cost more than other nodes, a pruned or offloaded one does not. *)
Price(s, seq) ==
    IF (s.log[seq].t = "result" /\ s.log[seq].v = "full")
       \/ (s.log[seq].t = "input" /\ seq \notin s.offloaded) THEN 2 ELSE 1
SummaryPrice == 1
Measure(s) == [i \in DOMAIN s.nodes |-> <<s.nodes[i], Price(s, s.nodes[i])>>]
Total(priced) == FoldLeft(LAMBDA sum, p : sum + p[2], 0, priced)

(* inspectCompactionEntryState: a start without an end, newer than the last
   restart of the session, is the lock. *)
Locked(log) == Stands(log, "compaction/start", {"compaction/end", "end-seed"})

-----------------------------------------------------------------------------
(* Choosing and checking a range. *)

(* selectCompactableRange: from the first node after the system head, up to a
   balanced cut that keeps at least the retained price; <<>> is no range. *)
Compactable(s, pair, priced, retain) ==
    LET first == IF s.log[s.nodes[1]].t = "system" THEN 2 ELSE 1
        cuts == {i \in (first + 1)..Len(priced) :
                    /\ Total(SubSeq(priced, i, Len(priced))) >= retain
                    /\ BalancedBefore(pair, s.nodes[i])}
    IN  IF cuts = {} THEN <<>> ELSE <<s.nodes[first], s.nodes[Max(cuts) - 1]>>

(* Mutant: the tail end of a span may split a step. *)
ValidStartOnly(s, pair, span) ==
    LET first == Position(s.nodes, span[1])
        last == Position(s.nodes, span[2])
    IN  0 < first /\ first <= last /\ BalancedBefore(pair, span[1])

(* validateSurfaceRegion. *)
Valid(s, pair, span) ==
    LET first == Position(s.nodes, span[1])
        last == Position(s.nodes, span[2])
    IN  /\ 0 < first /\ first <= last
        /\ BalancedBefore(pair, span[1]) /\ BalancedAfter(pair, span[2])

(* prepareCompaction: prices and replay input of the span. *)
Prepare(s, span) ==
    LET shadowed == Span(s.nodes, span)
    IN  [whole |-> Measure(s), input |-> Messages(s, shadowed),
         priced |-> [i \in DOMAIN shadowed |-> <<shadowed[i], Price(s, shadowed[i])>>]]

(* Mutant: the lock is not looked at. *)
RefusedUnlocked(s, pair, mode, span) ==
    \/ ~Valid(s, pair, span)
    \/ OpenTurn(s.log) = (mode = "manual")

(* What keeps a transaction from opening its bracket. *)
Refused(s, pair, mode, span) ==
    \/ ~Valid(s, pair, span)
    \/ Locked(s.log)
    \/ OpenTurn(s.log) = (mode = "manual")

(* A transaction that awaits its summary, or the model's capacity before. *)
JobFields == {"mode", "at", "left", "gen", "span", "ok", "whole", "input", "priced"}
Job(mode, at, left, gen, span, prepared) ==
    [mode |-> mode, at |-> at, left |-> left, gen |-> gen, span |-> span, ok |-> FALSE,
     whole |-> prepared.whole, input |-> prepared.input, priced |-> prepared.priced]
Asking(mode, s) ==
    Job(mode, "info", CompactionRetries, s.replaces, <<>>,
        [whole |-> Measure(s), input |-> <<>>, priced |-> <<>>])

(* compactSurfaceRegion up to its first await, on a session s. *)
Begin(w, s, mode, left, gen, span) ==
    /\ session' = PutAll(s, <<Ev("compaction/start", mode)>>)
    /\ jobs' = [jobs EXCEPT ![w] = Job(mode, "summary", left, gen, span, Prepare(s, span))]

(* toolResultPruner.pruneSession, outside this repository: it rewrites every
   oversized result on the surface. *)
Full(s) == Sift(s.nodes, {n \in OfType(s, "result") : s.log[n].v = "full"})
Pruned(s) == PutAll(s, [i \in DOMAIN Full(s) |->
                           Rewrite("result", "cut", Full(s)[i], Full(s)[i])])

-----------------------------------------------------------------------------
(* The turn. *)

EndTurn(s) ==
    /\ session' = PutAll(s, <<Ev("turn/end", "")>>)
    /\ phase' = "idle" /\ aborted' = FALSE
    /\ retries' \in {0, retries}     \* kept when the next turn follows at once
    /\ prompt' = "" /\ current' = "" /\ admitted' = TRUE
    /\ UNCHANGED <<headed, reqGen>>

Enter(place) ==
    /\ phase' = place
    /\ UNCHANGED <<aborted, prompt, admitted, headed, reqGen, retries, current>>

StartTurn ==
    /\ phase = "idle" /\ jobs["driver"] = NoJob /\ Step
    /\ session' = Put(session, Ev("turn/start", ""))
    /\ phase' = "intake" /\ admitted' = FALSE
    /\ UNCHANGED <<floor, aborted, prompt, headed, reqGen, retries, current, cacheVars, jobs, jammed>>

(* appendLyteboatIntakeReply: a fixed answer, without a request; the empty head
   keeps node 0 for the system prompt. *)
IntakeReply ==
    /\ phase = "intake" /\ Twist
    /\ session' = PutAll(session,
          (IF session.nodes = <<>> THEN <<Ev("system", "")>> ELSE <<>>)
          \o (IF admitted THEN <<>> ELSE <<Ev("input", "")>>) \o <<Ev("assistant", 0)>>)
    /\ phase' = "stopping" /\ admitted' = TRUE /\ retries' = 0
    /\ UNCHANGED <<floor, aborted, prompt, headed, reqGen, current, cacheVars, jobs, jammed>>

(* The step's prompt is assembled; agent/pre-step then considers the pressure
   of the last routed request. *)
IntakePass ==
    /\ phase = "intake"
    /\ prompt' \in {r.prompt : r \in Renderings}
    /\ IF headed /\ ~aborted
       THEN phase' = "pressure" /\ jobs' = [jobs EXCEPT !["driver"] = Asking("pressure", session)]
       ELSE phase' = "preparing" /\ UNCHANGED jobs
    /\ UNCHANGED <<session, floor, aborted, admitted, headed, reqGen, retries, current, cacheVars,
                   jammed, used>>

(* agent/request: a route other than the last one's is priced before it is
   committed. *)
SwitchModel ==
    /\ phase = "preparing" /\ headed /\ ~aborted /\ Ask
    /\ phase' = "switching"
    /\ jobs' = [jobs EXCEPT !["driver"] = Asking("switch", session)]
    /\ UNCHANGED <<session, floor, aborted, prompt, admitted, headed, reqGen, retries, current,
                   cacheVars, jammed>>

Prepared ==
    /\ phase = "preparing" /\ ~aborted
    /\ Enter("prepared")
    /\ UNCHANGED <<session, floor, cacheVars, jobs, jammed, used>>

(* The request is built and sent in one go: prompt, input, runtime context and
   header enter the log, the history is derived from the surface.  (A series
   started for other reasons re-baselines as a route without history does.) *)
Request ==
    /\ phase = "prepared" /\ ~aborted
    /\ \E r \in Renderings :
          LET startsSeries == ~headed \/ reqGen # session.contents
              events == PromptEvents(session, prompt, r.inHistory, startsSeries)
                        \o (IF admitted THEN <<>> ELSE <<Ev("input", "")>>)
                        \o ContextEvents(session, r.context)
                        \o (IF headed THEN <<>> ELSE <<Ev("header", "")>>)
          IN  /\ r.prompt = prompt
              /\ current' = r.context
              /\ \E s \in {PutAll(session, events)} :
                    session' = s /\ reqGen' = s.contents /\ derived' = Derive(derived, s)
    /\ admitted' = TRUE /\ headed' = TRUE
    /\ phase' = "requesting"
    /\ UNCHANGED <<floor, aborted, prompt, retries, pairing, jobs, jammed, used>>

(* The response: an assistant message, with tool calls to run or none. *)
Respond ==
    /\ phase = "requesting" /\ ~aborted
    /\ \E calls \in 0..MaxCalls :
          /\ session' = Put(session, Ev("assistant", calls))
          /\ phase' = IF calls = 0 THEN "stopping" ELSE "tools"
    /\ retries' = 0
    /\ UNCHANGED <<floor, aborted, prompt, admitted, headed, reqGen, current, cacheVars, jobs,
                   jammed, used>>

(* A failed or interrupted step ends the turn; an interrupted response keeps
   what it had said. *)
FailStep ==
    /\ phase \in {"intake", "preparing", "prepared", "requesting", "stopping"}
    /\ \/ EndTurn(session)
       \/ phase = "requesting" /\ aborted /\ EndTurn(Put(session, Ev("assistant", 0)))
    /\ IF aborted \/ (phase = "requesting" /\ retries = MaxOverflowRetries)
       THEN UNCHANGED used ELSE Twist
    /\ UNCHANGED <<floor, cacheVars, jobs, jammed>>

(* The batch records one result ... *)
ToolResult ==
    /\ phase = "tools" /\ ~aborted
    /\ LET s == Put(session, Ev("result", "full"))
           open == Unanswered(s, Len(s.nodes))
       IN  /\ session' = s
           /\ \/ open > 0 /\ UNCHANGED <<phase, used>>
              \/ open = 0 /\ phase' = "stopping" /\ UNCHANGED used      \* it concluded the turn
              \/ open = 0 /\ Step /\ phase' = "intake"
    /\ UNCHANGED <<floor, aborted, prompt, admitted, headed, reqGen, retries, current, cacheVars,
                   jobs, jammed>>

(* ... or fails, and recovery answers what is open before the turn ends. *)
ToolsFail ==
    /\ phase = "tools"
    /\ \E open \in {Unanswered(session, Len(session.nodes))} :
          EndTurn(PutAll(session, [i \in 1..open |-> Ev("result", "cut")]))
    /\ IF aborted THEN UNCHANGED used ELSE Twist
    /\ UNCHANGED <<floor, cacheVars, jobs, jammed>>

(* A completed step: queued input goes on with the turn, or it ends. *)
Stop ==
    /\ phase = "stopping" /\ ~aborted
    /\ \/ EndTurn(session) /\ UNCHANGED used
       \/ /\ Step
          /\ phase' = "intake" /\ admitted' = FALSE
          /\ UNCHANGED <<session, aborted, prompt, headed, reqGen, retries, current>>
    /\ UNCHANGED <<floor, cacheVars, jobs, jammed>>

Abort ==
    /\ phase # "idle" /\ ~aborted /\ Twist
    /\ aborted' = TRUE
    /\ UNCHANGED <<session, floor, phase, prompt, admitted, headed, reqGen, retries, current,
                   cacheVars, jobs, jammed>>

-----------------------------------------------------------------------------
(* Triggers. *)

(* What the driver does once its compaction is over: pressure only warns, a
   switch must have succeeded, an overflow retries when the surface changed. *)
After(mode, ok, gen, s) ==
    CASE mode = "pressure" -> "preparing"
      [] mode = "switch" -> IF ok THEN "prepared" ELSE "fail"
      [] mode = "overflow" -> IF ~aborted /\ s.replaces > gen THEN "preparing" ELSE "fail"

Continue(mode, ok, gen, s) ==
    IF After(mode, ok, gen, s) = "fail"
    THEN EndTurn(s)
    ELSE /\ session' = s
         /\ phase' = After(mode, ok, gen, s)
         /\ retries' = IF mode = "overflow" THEN retries + 1 ELSE retries
         /\ UNCHANGED <<aborted, prompt, admitted, headed, reqGen, current>>

(* Compact the best range of the surface s, or go on without. *)
Attempt(mode, s, priced, retain, left, gen) ==
    LET stale == [i \in DOMAIN priced |-> priced[i][1]] # s.nodes
    IN  \E pair \in {Pair(pairing, s)} :
        \E span \in {IF stale \/ s.nodes = <<>> THEN <<>> ELSE Compactable(s, pair, priced, retain)} :
        /\ pairing' = IF stale \/ s.nodes = <<>> THEN pairing ELSE pair
        /\ IF span = <<>> \/ Refused(s, pair, mode, span)
           THEN /\ jobs' = [jobs EXCEPT !["driver"] = NoJob]
                /\ Continue(mode, FALSE, gen, s)
           ELSE /\ Begin("driver", s, mode, left, gen, span)
                /\ phase' = "compacting"
                /\ UNCHANGED <<aborted, prompt, admitted, headed, reqGen, retries, current>>

(* compactPressure once the capacity is known: the lock and the threshold come
   first, a pruner may do, and only then is a range summarized. *)
Priced ==
    /\ phase \in {"pressure", "switching"}
    /\ LET job == jobs["driver"]
       IN  \/ /\ jobs' = [jobs EXCEPT !["driver"] = NoJob]     \* unknown capacity, abort, or locked
              /\ Continue(job.mode, FALSE, job.gen, session)
              /\ IF aborted \/ Locked(session.log) THEN UNCHANGED used ELSE Twist
              /\ UNCHANGED pairing
           \/ /\ ~Locked(session.log)
              /\ \/ /\ Total(job.whole) < Threshold
                    /\ jobs' = [jobs EXCEPT !["driver"] = NoJob]
                    /\ Continue(job.mode, TRUE, job.gen, session)
                    /\ UNCHANGED <<pairing, used>>
                 \/ /\ Total(job.whole) >= Threshold
                    /\ Attempt(job.mode, session, job.whole, Retain, CompactionRetries, job.gen)
                    /\ UNCHANGED used
                 \/ /\ Total(job.whole) >= Threshold
                    /\ IF Full(session) = <<>> THEN UNCHANGED used ELSE Twist
                    /\ LET s == Pruned(session)
                       IN  IF Total(Measure(s)) >= Threshold
                           THEN Attempt(job.mode, s, Measure(s), Retain, CompactionRetries, job.gen)
                           ELSE /\ jobs' = [jobs EXCEPT !["driver"] = NoJob]
                                /\ Continue(job.mode, TRUE, job.gen, s)
                                /\ UNCHANGED pairing
    /\ UNCHANGED <<floor, derived, jammed>>

(* The provider reports an overflow: one maximal reduction, then a retry. *)
Overflow ==
    /\ phase = "requesting" /\ ~aborted /\ retries < MaxOverflowRetries
    /\ \/ /\ Attempt("overflow", session, Measure(session), 0, 0, session.replaces)
          /\ UNCHANGED used
       \/ /\ Full(session) # <<>> /\ Twist
          /\ LET s == Pruned(session) IN Attempt("overflow", s, Measure(s), 0, 0, session.replaces)
    /\ UNCHANGED <<floor, derived, jammed>>

(* compactNow: reserve the idle agent and compact what there is. *)
CompactNow ==
    /\ phase = "idle" /\ session.nodes # <<>> /\ Ask
    /\ LET pair == Pair(pairing, session)
           span == Compactable(session, pair, Measure(session), 0)
       IN  /\ span # <<>> /\ ~Refused(session, pair, "manual", span)
           /\ Begin("driver", session, "manual", 0, session.replaces, span)
           /\ pairing' = pair
    /\ Enter("maintenance")
    /\ UNCHANGED <<floor, derived, jammed>>

(* An explicit compactRegion of anyone, in a turn. *)
CompactRegion ==
    /\ jobs["caller"] = NoJob /\ Ask
    /\ \E i, j \in DOMAIN session.nodes :
          LET pair == Pair(pairing, session)
              span == <<session.nodes[i], session.nodes[j]>>
          IN  /\ j - i < MaxSpan
              /\ ~Refused(session, pair, "region", span)
              /\ Begin("caller", session, "region", 0, session.replaces, span)
              /\ pairing' = pair
    /\ UNCHANGED <<floor, turnVars, derived, jammed>>

-----------------------------------------------------------------------------
(* The transaction. *)

(* Mutant: a manual compaction only looks for the ends of its span. *)
StableEnds(s, pair, job) ==
    IF job.mode = "manual" THEN Valid(s, pair, job.span) ELSE Measure(s) = job.whole

(* assertSelectedSpanStable and assertWholeSurfaceUnchanged. *)
Stable(s, pair, job) ==
    IF job.mode = "manual"
    THEN Valid(s, pair, job.span) /\ Prepare(s, job.span).priced = job.priced
    ELSE Measure(s) = job.whole

(* The caller has its answer; the driver goes on with Flush or Resume. *)
Closing(w, ok) ==
    jobs' = IF w = "caller" THEN [jobs EXCEPT ![w] = NoJob]
            ELSE [jobs EXCEPT ![w].at = IF jobs[w].mode = "manual" /\ @ = "summary" THEN "flush" ELSE "done",
                              ![w].ok = ok]
Awaiting(w) == jobs[w] # NoJob /\ jobs[w].at = "summary"

(* A summary that arrives will do: it is smaller, the surface is stable. *)
Usable(w) ==
    LET job == jobs[w]
    IN  /\ SummaryPrice < Total(job.priced)
        /\ job.mode = "manual" => ~aborted
        /\ Stable(session, Pair(pairing, session), job)

(* The summary arrives, is smaller, and its span is still the one it was made
   from: summary, replacement and close are appended in one go.  A replacement
   the surface does not accept (it covers node 0) closes with an error. *)
Commit(w) ==
    /\ Awaiting(w) /\ Usable(w)
    /\ LET job == jobs[w]
           pair == IF job.mode = "manual" THEN Pair(pairing, session) ELSE pairing
           checkpoint == Rewrite("checkpoint", "", job.span[1], job.span[2])
           accepted == Accepted(session, checkpoint)
       IN  /\ session' = PutAll(session, <<Ev("compaction/summary", job.mode)>>
                                         \o (IF accepted THEN <<checkpoint>> ELSE <<>>)
                                         \o <<Ev("compaction/end", job.mode)>>)
           /\ pairing' = pair
           /\ Closing(w, accepted)
    /\ UNCHANGED <<floor, turnVars, derived, jammed, used>>

(* No summary, one that is too large or comes too late, a changed surface: the
   bracket closes with an error.  A close that cannot be appended leaves it
   open for good. *)
Fail(w) ==
    /\ Awaiting(w)
    /\ \/ /\ session' = Put(session, Ev("compaction/end", jobs[w].mode))
          /\ Closing(w, FALSE)
          /\ UNCHANGED jammed
          /\ \/ ~Usable(w) /\ UNCHANGED used
             \/ Usable(w) /\ Twist
       \/ /\ jammed' = TRUE /\ Twist
          /\ jobs' = IF w = "caller" THEN [jobs EXCEPT ![w] = NoJob]
                     ELSE [jobs EXCEPT ![w].at = "done"]
          /\ UNCHANGED session
    /\ UNCHANGED <<floor, turnVars, cacheVars>>

(* A compaction/summary-error listener offloads an image of the span; the span
   is priced and replayed anew.  The listener is outside this repository. *)
Recover(w) ==
    /\ Awaiting(w) /\ Twist
    /\ LET job == jobs[w]
           pair == Pair(pairing, session)
       IN  /\ Stable(session, pair, job)
           /\ \E n \in Range(Span(session.nodes, job.span)) :
                 /\ session.log[n].t = "input" /\ n \notin session.offloaded
                 /\ LET s == Put(session, Ev("offload", n))
                    IN  /\ session' = s
                        /\ jobs' = [jobs EXCEPT ![w] = Job(job.mode, "summary", job.left, job.gen,
                                                           job.span, Prepare(s, job.span))]
           /\ pairing' = pair
    /\ UNCHANGED <<floor, turnVars, derived, jammed>>

(* The checkpoint of a manual compaction; a failed one is reported. *)
Flush ==
    /\ jobs["driver"] # NoJob /\ jobs["driver"].at = "flush"
    /\ \/ floor' = Len(session.log) /\ UNCHANGED used
       \/ UNCHANGED floor /\ Twist
    /\ Closing("driver", jobs["driver"].ok)
    /\ UNCHANGED <<session, turnVars, cacheVars, jammed>>

(* Mutant: only a maintenance that succeeded gives the agent back. *)
ReleasedOnSuccess(job) == job.mode = "manual" /\ job.ok

(* compactNow gives the idle agent back, whatever came of it. *)
Released(job) == job.mode = "manual"

(* The driver goes on: the next attempt under pressure, the request, or the
   end of its maintenance. *)
Resume ==
    /\ jobs["driver"] # NoJob /\ jobs["driver"].at = "done"
    /\ LET job == jobs["driver"]
           above == Total(Measure(session)) >= Threshold
       IN  \/ /\ Released(job)
              /\ phase' = "idle" /\ aborted' = FALSE
              /\ jobs' = [jobs EXCEPT !["driver"] = NoJob]
              /\ UNCHANGED <<session, prompt, admitted, headed, reqGen, retries, current, pairing>>
           \/ /\ job.mode \in {"pressure", "switch"} /\ job.ok /\ above /\ job.left > 0
              /\ Attempt(job.mode, session, Measure(session), Retain, job.left - 1, job.gen)
           \/ /\ job.mode # "manual"
              /\ ~(job.mode \in {"pressure", "switch"} /\ job.ok /\ above /\ job.left > 0)
              /\ jobs' = [jobs EXCEPT !["driver"] = NoJob]
              /\ Continue(job.mode, job.ok /\ ~above, job.gen, session)
              /\ UNCHANGED pairing
    /\ UNCHANGED <<floor, derived, jammed, used>>

-----------------------------------------------------------------------------
(* Other plugins and the process. *)

(* A plugin appends context, prunes a tool result or offloads an image at any
   time: external code that the stability checks are there for.  Node 0 is the
   loop's. *)
Edit ==
    /\ session.nodes # <<>> /\ Twist
    /\ \/ session' = Put(session, Ev("input", ""))
       \/ \E n \in Range(session.nodes) :
             \/ /\ session.log[n].t = "result" /\ session.log[n].v = "full"
                /\ session' = Put(session, Rewrite("result", "cut", n, n))
             \/ /\ session.log[n].t = "input" /\ n \notin session.offloaded
                /\ session' = Put(session, Ev("offload", n))
    /\ UNCHANGED <<floor, turnVars, cacheVars, jobs, jammed>>

(* Open calls of the turn a log breaks off in (ToolCallRecovery). *)
Repair(events) ==
    LET s == PutAll(NewSession, events)
    IN  IF OpenTurn(events)
        THEN [i \in 1..Unanswered(s, Len(s.nodes)) |-> Ev("result", "cut")] \o <<Ev("turn/end", "")>>
        ELSE <<>>

(* The process dies; a durable prefix is repaired, marked and restored. *)
Crash ==
    /\ Twist
    /\ \E n \in floor..Len(session.log) :
          LET kept == SubSeq(session.log, 1, n)
              s == Restore(kept \o Repair(kept) \o <<Ev("end-seed", "")>>)
          IN  /\ n > 0
              /\ session' = s
              /\ floor' = Len(s.log)
              /\ headed' = (\E i \in DOMAIN kept : kept[i].t = "header")
              /\ reqGen' = s.contents
    /\ phase' = "idle" /\ aborted' = FALSE /\ prompt' = "" /\ admitted' = TRUE
    /\ retries' = 0 /\ current' = ""
    /\ derived' = NoDerived /\ pairing' = NoPairing
    /\ jobs' = [w \in Who |-> NoJob] /\ jammed' = FALSE

-----------------------------------------------------------------------------
Drive ==
    \/ IntakeReply \/ IntakePass \/ Prepared \/ Request \/ Respond \/ FailStep
    \/ ToolResult \/ ToolsFail \/ Stop \/ Priced \/ Flush \/ Resume

Next ==
    \/ Drive \/ Overflow \/ StartTurn \/ SwitchModel \/ Abort \/ CompactNow \/ CompactRegion
    \/ (\E w \in Who : Commit(w) \/ Fail(w) \/ Recover(w))
    \/ Edit \/ Crash

Spec == Init /\ [][Next]_vars

(* Providers answer, summaries arrive or fail, batches and flushes settle. *)
FairSpec ==
    /\ Spec
    /\ WF_vars(Drive)
    /\ \A w \in Who : WF_vars(Commit(w) \/ Fail(w))

-----------------------------------------------------------------------------
TypeOK ==
    /\ DOMAIN session = DOMAIN NewSession
    /\ Range(session.nodes) \subseteq {i \in DOMAIN session.log : session.log[i].t \in SurfaceType}
    /\ session.offloaded \subseteq DOMAIN session.log
    /\ session.context \in {NoContext, LostContext} \cup Range(session.nodes)
    /\ floor \in 0..Len(session.log)
    /\ phase \in Phase /\ {aborted, admitted, headed, jammed} \subseteq BOOLEAN
    /\ prompt \in {r.prompt : r \in Renderings} \cup {""}
    /\ current \in {r.context : r \in Renderings} \cup {""}
    /\ reqGen \in 0..session.contents /\ retries \in 0..MaxOverflowRetries
    /\ DOMAIN jobs = Who
    /\ \A w \in Who : jobs[w] # NoJob =>
          /\ DOMAIN jobs[w] = JobFields
          /\ jobs[w].mode \in {"pressure", "switch", "overflow", "manual", "region"}
          /\ jobs[w].at \in {"info", "summary", "flush", "done"}
    /\ jobs["driver"] # NoJob => phase \in {"pressure", "switching", "compacting", "maintenance"}

(* However requests, prunes, compactions of three triggers and crashes follow
   one another, the surface stays a conversation a provider accepts: node 0 is
   the system prompt's, no tool result stands without its call before it, and
   outside a batch no call is unanswered. *)
SurfaceSound ==
    /\ session.nodes # <<>> => session.log[session.nodes[1]].t = "system"
    /\ \A n \in DOMAIN session.nodes : Unanswered(session, n) >= 0
    /\ phase # "tools" => Unanswered(session, Len(session.nodes)) = 0
    /\ Cardinality(Range(session.nodes)) = Len(session.nodes)

(* Whoever reads the caches next gets what a fold of the whole surface gives,
   also when a replacement left the surface as long as it was. *)
CachesAgree ==
    /\ Derive(derived, session).messages = Messages(session, session.nodes)
    /\ Pair(pairing, session).balanced = [n \in 1..(Len(session.nodes) + 1) |->
                                             Unanswered(session, n - 1) = 0]

(* The durable bracket is the lock: it is held exactly while a transaction of
   this process awaits its summary, or its close failed; a crash in between
   frees it.  The driver's own brackets lie in its turn, a manual one between
   turns. *)
LockHonest ==
    /\ Locked(session.log) = (jammed \/ \E w \in Who : Awaiting(w))
    /\ ~(Awaiting("driver") /\ Awaiting("caller"))
    /\ Awaiting("driver") => OpenTurn(session.log) = (jobs["driver"].mode # "manual")

(* What a summary replaces is what it was made from, node for node and as the
   model saw it, whatever was appended, pruned or offloaded while it was being
   written. *)
SummaryFaithful ==
    [][\A e \in {e \in Range(session'.log) \ Range(session.log) : e.t = "checkpoint"} :
          \E w \in Who : Awaiting(w) /\ ~Awaiting(w)'
                        /\ jobs[w].input = Messages(session, Span(session.nodes, e.at))]_vars

ContextHeard(s, text) ==
    LET contexts == Sift(s.nodes, OfType(s, "context"))
    IN  IF text = "" THEN contexts = <<>> \/ s.log[Last(contexts)].v = "cleared"
        ELSE contexts # <<>> /\ s.log[Last(contexts)].v = text

(* A request tells the model the whole surface, the prompt rendered for its
   step and the context of this moment, although compaction shadows earlier
   prompts and contexts. *)
RequestSound ==
    [][(phase # "requesting" /\ phase' = "requesting") =>
          /\ derived'.messages = Messages(session', session'.nodes)
          /\ EffectivePrompt(session') = prompt'
          /\ ContextHeard(session', current')]_vars

(* Every turn and every maintenance ends: neither the attempts under pressure
   nor the retries after overflows go on forever. *)
TurnSettles == phase # "idle" ~> phase = "idle"
-----------------------------------------------------------------------------
(* The inductive invariant behind TypeOK, LockHonest, CachesAgree and
   SummaryFaithful (CompactionProofs). *)

(* A session folded from its log. *)
Folded(s) ==
    /\ DOMAIN s = DOMAIN NewSession
    /\ s.log \in Seq(Range(s.log)) /\ Legal(s.log)
    /\ s.nodes \in Seq({i \in DOMAIN s.log : s.log[i].t \in SurfaceType})
    /\ s.offloaded \subseteq OfType(s, "input")
    /\ s.context \in {NoContext, LostContext} \cup Range(s.nodes)
    /\ s.replaces \in Nat /\ s.contents \in Nat

(* The cache of derived messages, unless it is out of date, has those of a
   first part of the surface. *)
DerivedFor(cache, s) ==
    /\ cache.generation \in 0..s.contents
    /\ cache.generation = s.contents =>
          /\ cache.upto \in 0..Len(s.nodes)
          /\ cache.messages = Messages(s, SubSeq(s.nodes, 1, cache.upto))

(* So has the cache of tool pairings. *)
Balance(cache, s, n) ==
    /\ DOMAIN cache = DOMAIN NoPairing
    /\ n \in 0..Len(s.nodes) /\ cache.seqs = SubSeq(s.nodes, 1, n)
    /\ cache.open = Unanswered(s, n)
    /\ cache.balanced = [i \in 1..(n + 1) |-> Unanswered(s, i - 1) = 0]
PairedFor(cache, s) ==
    /\ cache.generation \in -1..s.replaces
    /\ cache.generation = s.replaces => Balance(cache, s, Len(cache.seqs))

(* What a summary is made from: a surface of nodes of the log, with some of
   what is offloaded by now. *)
Source(s, job, nodes, offloaded) ==
    /\ nodes \in Seq(DOMAIN s.log)
    /\ Position(nodes, job.span[1]) \in 1..Position(nodes, job.span[2])
    /\ offloaded \subseteq s.offloaded
    /\ [whole |-> job.whole, input |-> job.input, priced |-> job.priced]
          = Prepare([s EXCEPT !.nodes = nodes, !.offloaded = offloaded], job.span)
Fed(s, job) ==
    \E offloaded \in SUBSET s.offloaded :
        Source(s, job, [i \in DOMAIN job.whole |-> job.whole[i][1]], offloaded)

(* Which transaction a phase of the driver goes with. *)
Assigned ==
    /\ phase \in {"pressure", "switching"} <=>
          jobs["driver"] # NoJob /\ jobs["driver"].at = "info"
    /\ jobs["driver"] # NoJob =>
          /\ jobs["driver"].mode # "region"
          /\ jobs["driver"].mode = "manual" <=> phase = "maintenance"
          /\ jobs["driver"].mode = "overflow" => retries < MaxOverflowRetries
    /\ jobs["caller"] # NoJob => jobs["caller"].at = "summary"

CompactInv ==
    /\ Folded(session) /\ DerivedFor(derived, session) /\ PairedFor(pairing, session)
    /\ Assigned
    /\ jammed => \A w \in Who : ~Awaiting(w)
    /\ \A w \in Who : Awaiting(w) => Fed(session, jobs[w])

-----------------------------------------------------------------------------
(* The inductive invariant behind SurfaceSound and RequestSound. *)

(* A runtime context that is known is the last one on the surface. *)
ContextKnown(s) ==
    LET contexts == {n \in Range(s.nodes) : s.log[n].t = "context"}
    IN  /\ s.context = NoContext => contexts = {}
        /\ s.context > 0 => s.context \in contexts /\ \A n \in contexts : n <= s.context

(* Whichever durable prefix a crash leaves, its surface is a conversation. *)
Told(log, from) ==
    \A n \in from..Len(log) : Conversation(PutAll(NewSession, SubSeq(log, 1, n)))

(* A span begins and ends where every call has its result. *)
Even(s, span) ==
    /\ Unanswered(s, Position(s.nodes, span[1]) - 1) = 0
    /\ Unanswered(s, Position(s.nodes, span[2])) = 0

(* So did the span of a transaction. *)
Cut(s, job) == Even([s EXCEPT !.nodes = [i \in DOMAIN job.whole |-> job.whole[i][1]]], job.span)

TalkInv ==
    /\ PutAll(NewSession, session.log).nodes = session.nodes
    /\ Told(session.log, floor)
    /\ ContextKnown(session)
    /\ \A w \in Who : Awaiting(w) => Cut(session, jobs[w])
    /\ phase = "tools" <=> Unanswered(session, Len(session.nodes)) > 0
    /\ phase \notin {"idle", "maintenance"} => OpenTurn(session.log)
    /\ phase = "requesting" => session.nodes # <<>>
=============================================================================
