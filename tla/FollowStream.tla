---------------------------- MODULE FollowStream ----------------------------
(***************************************************************************)
(* Following a session (api/session-controller/src): a connection listens  *)
(* first, observes the log later and takes the assistant baseline later    *)
(* still (web/controller.ts); what it heard meanwhile is a queue whose     *)
(* items are cut when they are taken out (history/listener.ts,             *)
(* history/assistant-stream.ts); the client joins the durable events with  *)
(* the transient frames of an attempt (client/transport.ts,                *)
(* client/sessions/assistant-stream.ts, client/contract/events.ts).        *)
(*                                                                         *)
(* The host is the part of the agent that speaks: steps with their         *)
(* attempts, and a session that is unloaded and resumed.  A place in the   *)
(* log counts from 1, as do the chunks of an attempt.  The opening page is *)
(* the whole log; SubmissionEcho has shorter ones.  A connection hands its *)
(* items to the client in order, so the queue is all the delay there is.   *)
(***************************************************************************)
EXTENDS Integers, Sequences, SequencesExt, FiniteSets

CONSTANTS
    MaxSteps,      \* bound: steps of the session
    MaxAttempts,   \* bound: attempts of one agent
    MaxChunks,     \* bound: chunks of one attempt
    MaxLives,      \* bound: agents of the session, one after another
    MaxBacklog,    \* bound: items unread when the host takes a step
    MaxTwists      \* bound: lost connections, reloads, failures, rejected events, asides

ASSUME BoundsAssumption ==
    {MaxSteps, MaxAttempts, MaxChunks, MaxLives, MaxBacklog, MaxTwists} \subseteq Nat

VARIABLES
    log,        \* the session's events
    agent,      \* [on, lives, rev, count, step, ask, attempt, index]
    stream,     \* the service's accumulator of the agent's frames: [rev, active]
    conn,       \* [state, cut, next, ordinal, ordinalCut] of the follow connection
    queue,      \* its listener buffer
    client,     \* the window and the fold behind it
    overtaken,  \* a created notice went ahead of frames that wait in the queue
    twists

hostVars == <<log, agent>>
vars == <<hostVars, stream, conn, queue, client, overtaken, twists>>

-----------------------------------------------------------------------------
(* Events, frames and notices. *)

Settlements == {"message", "interrupted", "attempt"}
Event(type, step) == [type |-> type, step |-> step]
Steps == Cardinality({n \in DOMAIN log : log[n].type = "step"})

NoAttempt == [id |-> 0, step |-> 0, after |-> 0, next |-> 0]
NoStream == [rev |-> 0, active |-> NoAttempt]

\* The event type that an end frame names; an interrupted message is a message.
Outcome(type) == IF type = "interrupted" THEN "message" ELSE type

Heard(n) == [type |-> "event", n |-> n]
Created(end) == [type |-> "created", end |-> end]

-----------------------------------------------------------------------------
(* The service: one accumulator, shared by every connection. *)

\* accept: frames of a new agent begin again; after a gap the attempt is unknown.
Accept(s, f) ==
    LET rev == IF f.type = "start" /\ f.rev = 1 THEN 0 ELSE s.rev
        a == s.active
        Known == a.id = f.id /\ f.index = a.next + 1
    IN  [rev |-> f.rev,
         active |->
            IF f.rev # rev + 1 THEN NoAttempt
            ELSE CASE f.type = "start" -> [id |-> f.id, step |-> f.step, after |-> f.after, next |-> 0]
                   [] f.type = "chunk" -> IF Known THEN [a EXCEPT !.next = f.index] ELSE NoAttempt
                   [] OTHER -> NoAttempt]

Listening == conn.state \in {"registered", "observed", "open"}

\* What was heard before the frame, and the frame, reach accumulator and queue.
Notify(heard, frame) ==
    /\ stream' = Accept(stream, frame)
    /\ IF ~Listening THEN UNCHANGED <<queue, conn>>
       ELSE /\ queue' = Append(queue \o heard,
                              [type |-> "frame", frame |-> frame, ordinal |-> conn.ordinal + 1])
            /\ conn' = [conn EXCEPT !.ordinal = @ + 1]

-----------------------------------------------------------------------------
(* The client.  A row of the window is a durable event or, behind the place *)
(* of the last one, a chunk of an attempt.                                  *)

Durable(n) == [event |-> n, id |-> 0, step |-> 0, index |-> 0]
Chunk(c, a, i) == [event |-> c.cursor, id |-> a.id, step |-> a.step, index |-> i]
Without(rows, id) ==
    LET kept[i \in 0 .. Len(rows)] ==
            IF i = 0 THEN <<>>
            ELSE IF rows[i].id = id THEN kept[i - 1] ELSE Append(kept[i - 1], rows[i])
    IN  kept[Len(rows)]

\* Where an event belongs among rows: in front of all that come later.
Insert(rows, n) ==
    LET later == {i \in DOMAIN rows : rows[i].event > n \/ (rows[i].id # 0 /\ rows[i].event = n)}
    IN  IF later = {} THEN Append(rows, Durable(n)) ELSE InsertAt(rows, Min(later), Durable(n))

Rebaseline(c) == [c EXCEPT !.restart = TRUE]

\* publish: a step's end takes the rows of its successful attempt along.
Publish(c, n) ==
    LET p == [c EXCEPT !.published = @ \cup {n}, !.rows = Append(@, Durable(n))]
    IN  IF c.retained.id # 0 /\ log[n].type = "end" /\ log[n].step = c.retained.step
        THEN [p EXCEPT !.rows = Without(@, c.retained.id), !.retained = NoAttempt]
        ELSE p

\* attemptForSettlement
Settles(n, a) ==
    /\ a.id # 0 /\ log[n].type \in Settlements
    /\ n > a.after
    /\ log[n].step = a.step

AcceptDurable(c, n) ==
    LET d == [c EXCEPT !.cursor = n]
    IN  IF ~Settles(n, c.active) THEN Publish(d, n)
        ELSE IF n \in c.pending THEN Rebaseline(d)
        ELSE [d EXCEPT !.pending = @ \cup {n}]

\* The events of one item, in order.
AcceptAll(c, first, last) ==
    LET after[n \in first - 1 .. last] ==
            IF n = first - 1 THEN c ELSE AcceptDurable(after[n - 1], n)
    IN  after[last]

AcceptStart(c, f) ==
    IF c.active.id # 0 \/ c.retained.id # 0 \/ c.pending # {} THEN Rebaseline(c)
    ELSE [c EXCEPT !.active = [id |-> f.id, step |-> f.step, after |-> f.after, next |-> 0]]

AcceptChunk(c, f) ==
    IF c.active.id # f.id THEN c
    ELSE IF f.index # c.active.next + 1 THEN Rebaseline(c)
    ELSE [c EXCEPT !.active.next = f.index, !.rows = Append(@, Chunk(c, c.active, f.index))]

\* Mutant: every settlement retains its rows.
AcceptEndRetains(c, f) ==
    LET a == c.active
        d == [c EXCEPT !.active = NoAttempt]
    IN  IF a.id # f.id THEN c
        ELSE IF f.index # a.next THEN Rebaseline(d)
        ELSE IF f.outcome = "abandoned"
        THEN IF c.pending = {} THEN [d EXCEPT !.rows = Without(@, a.id)] ELSE Rebaseline(d)
        ELSE IF f.seq \in c.published THEN d
        ELSE IF f.seq \notin c.pending \/ Outcome(log[f.seq].type) # f.outcome THEN Rebaseline(d)
        ELSE Publish([d EXCEPT !.pending = @ \ {f.seq}], f.seq)

\* Mutant: the settlement of a failed attempt goes with its rows.
AcceptEndForgets(c, f) ==
    LET a == c.active
        d == [c EXCEPT !.active = NoAttempt]
    IN  IF a.id # f.id THEN c
        ELSE IF f.index # a.next THEN Rebaseline(d)
        ELSE IF f.outcome = "abandoned"
        THEN IF c.pending = {} THEN [d EXCEPT !.rows = Without(@, a.id)] ELSE Rebaseline(d)
        ELSE IF f.seq \in c.published THEN d
        ELSE IF f.seq \notin c.pending \/ Outcome(log[f.seq].type) # f.outcome THEN Rebaseline(d)
        ELSE LET e == [d EXCEPT !.pending = @ \ {f.seq}]
             IN  IF log[f.seq].type = "message" THEN Publish([e EXCEPT !.retained = a], f.seq)
                 ELSE [e EXCEPT !.rows = Without(@, a.id)]

\* A message is published where it comes and its rows stay until the step ends;
\* of any other attempt the rows go, and the settlement takes its place.
AcceptEnd(c, f) ==
    LET a == c.active
        d == [c EXCEPT !.active = NoAttempt]
    IN  IF a.id # f.id THEN c
        ELSE IF f.index # a.next THEN Rebaseline(d)
        ELSE IF f.outcome = "abandoned"
        THEN IF c.pending = {} THEN [d EXCEPT !.rows = Without(@, a.id)] ELSE Rebaseline(d)
        ELSE IF f.seq \in c.published THEN d
        ELSE IF f.seq \notin c.pending \/ Outcome(log[f.seq].type) # f.outcome THEN Rebaseline(d)
        ELSE LET e == [d EXCEPT !.pending = @ \ {f.seq}]
             IN  IF log[f.seq].type = "message" THEN Publish([e EXCEPT !.retained = a], f.seq)
                 ELSE [e EXCEPT !.published = @ \cup {f.seq},
                                !.rows = Insert(Without(@, a.id), f.seq)]

AcceptFrame(c, f) ==
    LET d == [c EXCEPT !.rev = f.rev]
    IN  CASE f.type = "start" -> AcceptStart(d, f)
          [] f.type = "chunk" -> AcceptChunk(d, f)
          [] f.type = "end" -> AcceptEnd(d, f)

\* replace: the page up to cut, then the chunks of the attempt that still runs.
Replaced(cut, s) ==
    LET c == [rev |-> s.rev, active |-> s.active, retained |-> NoAttempt, pending |-> {},
              published |-> 1 .. cut, cursor |-> cut, restart |-> FALSE, rows |-> <<>>]
    IN  [c EXCEPT !.rows = [n \in 1 .. cut |-> Durable(n)]
                           \o [i \in 1 .. s.active.next |-> Chunk(c, s.active, i)]]

-----------------------------------------------------------------------------
Closed == [state |-> "closed", cut |-> 0, next |-> 0, ordinal |-> 0, ordinalCut |-> 0]

Init ==
    /\ log = <<>>
    /\ agent = [on |-> FALSE, lives |-> 0, rev |-> 0, count |-> 0, step |-> 0,
                ask |-> FALSE, attempt |-> 0, index |-> 0]
    /\ stream = NoStream
    /\ conn = Closed /\ queue = <<>>
    /\ client = Replaced(0, NoStream)
    /\ overtaken = FALSE
    /\ twists = 0

Twist == twists < MaxTwists /\ twists' = twists + 1

(* The host. *)

\* Mutant: the created notice waits its turn.
LoadBehind ==
    /\ ~agent.on /\ agent.lives < MaxLives
    /\ agent' = [agent EXCEPT !.on = TRUE, !.lives = @ + 1, !.rev = 0, !.count = 0]
    /\ \E observed \in BOOLEAN :
           /\ IF observed THEN Twist ELSE UNCHANGED twists
           /\ log' = log \o (IF agent.lives = 0 THEN <<>> ELSE <<Event("other", 0)>>)
                         \o (IF observed THEN <<Event("other", 0)>> ELSE <<>>)
           /\ queue' = IF ~Listening THEN queue
                       ELSE queue \o (IF observed THEN <<Heard(Len(log'))>> ELSE <<>>)
                                  \o <<Created(Len(log'))>>
    /\ UNCHANGED <<stream, conn, client, overtaken>>

\* The session is created or resumed.  What its preparation wrote, and what an
\* observer wrote that heard of it earlier, comes with the created notice, which
\* goes to the front; what a later observer writes comes behind.
Load ==
    /\ ~agent.on /\ agent.lives < MaxLives
    /\ agent' = [agent EXCEPT !.on = TRUE, !.lives = @ + 1, !.rev = 0, !.count = 0]
    /\ \E observed \in BOOLEAN :
           LET prepared == IF agent.lives = 0 THEN <<>> ELSE <<Event("other", 0)>>
               written == IF observed THEN <<Event("other", 0)>> ELSE <<>>
           IN  /\ log' = log \o prepared \o written
               /\ IF observed THEN Twist ELSE UNCHANGED twists
               /\ \E early \in BOOLEAN :
                      LET end == Len(log') - IF observed /\ ~early THEN 1 ELSE 0
                      IN  queue' = IF ~Listening THEN queue
                                   ELSE <<Created(end)>> \o queue
                                        \o IF observed THEN <<Heard(Len(log'))>> ELSE <<>>
    /\ overtaken' = (overtaken \/ (Listening /\ \E i \in DOMAIN queue : queue[i].type = "frame"))
    /\ UNCHANGED <<stream, conn, client>>

\* The agent is disposed, and with it the accumulator of its session.
Unload ==
    /\ agent.on /\ agent.step = 0
    /\ agent' = [agent EXCEPT !.on = FALSE]
    /\ stream' = NoStream
    /\ UNCHANGED <<log, conn, queue, client, overtaken, twists>>

Append1(type, step) ==
    /\ log' = Append(log, Event(type, step))
    /\ queue' = IF Listening THEN Append(queue, Heard(Len(log'))) ELSE queue
    /\ UNCHANGED <<stream, conn>>

StartStep ==
    /\ agent.on /\ agent.step = 0 /\ Steps < MaxSteps
    /\ agent' = [agent EXCEPT !.step = Steps + 1, !.ask = TRUE]
    /\ Append1("step", Steps + 1)
    /\ UNCHANGED <<client, overtaken, twists>>

\* An event of somebody else, also in the middle of an attempt.
Aside ==
    /\ agent.on /\ Twist
    /\ Append1("other", 0)
    /\ UNCHANGED <<agent, client, overtaken>>

StartAttempt ==
    /\ agent.ask /\ agent.attempt = 0 /\ agent.count < MaxAttempts
    /\ agent' = [agent EXCEPT !.rev = @ + 1, !.count = @ + 1, !.attempt = agent.count + 1, !.index = 0]
    /\ Notify(<<>>, [type |-> "start", rev |-> agent.rev + 1, id |-> agent.count + 1,
                     step |-> agent.step, after |-> Len(log)])
    /\ UNCHANGED <<log, client, overtaken, twists>>

Push ==
    /\ agent.attempt # 0 /\ agent.index < MaxChunks
    /\ agent' = [agent EXCEPT !.rev = @ + 1, !.index = @ + 1]
    /\ Notify(<<>>, [type |-> "chunk", rev |-> agent.rev + 1, id |-> agent.attempt,
                     index |-> agent.index + 1])
    /\ UNCHANGED <<log, client, overtaken, twists>>

EndFrame(outcome, seq) ==
    [type |-> "end", rev |-> agent.rev + 1, id |-> agent.attempt, index |-> agent.index,
     outcome |-> outcome, seq |-> seq]

\* settle: the durable event and, in the same breath, the end frame.  Only a
\* failed attempt is retried.
Settle(type) ==
    /\ agent.attempt # 0
    /\ log' = Append(log, Event(type, agent.step))
    /\ agent' = [agent EXCEPT !.rev = @ + 1, !.attempt = 0, !.ask = type = "attempt"]
    /\ Notify(<<Heard(Len(log'))>>, EndFrame(Outcome(type), Len(log')))
    /\ IF type = "message" THEN UNCHANGED twists ELSE Twist
    /\ UNCHANGED <<client, overtaken>>

\* An observer rejects the settlement, and the step fails.
Abandon ==
    /\ agent.attempt # 0 /\ Twist
    /\ agent' = [agent EXCEPT !.rev = @ + 1, !.attempt = 0, !.ask = FALSE]
    /\ Notify(<<>>, EndFrame("abandoned", 0))
    /\ UNCHANGED <<log, client, overtaken>>

StepOver == agent.step # 0 /\ agent.attempt = 0 /\ agent' = [agent EXCEPT !.step = 0, !.ask = FALSE]

EndStep ==
    /\ StepOver
    /\ Append1("end", agent.step)
    /\ UNCHANGED <<client, overtaken, twists>>

\* An observer rejects the step's end.
EndRejected ==
    /\ StepOver /\ Twist
    /\ UNCHANGED <<log, stream, conn, queue, client, overtaken>>

HostStep ==
    \/ Load \/ Unload \/ StartStep \/ Aside \/ StartAttempt \/ Push
    \/ \E type \in Settlements : Settle(type)
    \/ Abandon \/ EndStep \/ EndRejected

\* What a client has read is a prefix of what it was sent, and what a lost queue
\* held is observed again: a long backlog matters only to what overtakes it.
Host ==
    /\ Len(queue) <= MaxBacklog
    /\ HostStep

-----------------------------------------------------------------------------
(* The connection. *)

\* The listeners are registered before the observation is asked for.
Connect ==
    /\ conn.state = "closed"
    /\ conn' = [Closed EXCEPT !.state = "registered"]
    /\ UNCHANGED <<hostVars, stream, queue, client, overtaken, twists>>

Observe ==
    /\ conn.state = "registered"
    /\ conn' = [conn EXCEPT !.state = "observed", !.cut = Len(log)]
    /\ UNCHANGED <<hostVars, stream, queue, client, overtaken, twists>>

\* Mutant: the first frame after the baseline counts as covered by it.
OpenCutsNext ==
    /\ conn.state = "observed"
    /\ conn' = [conn EXCEPT !.state = "open", !.next = conn.cut + 1, !.ordinalCut = conn.ordinal + 1]
    /\ client' = Replaced(conn.cut, stream)
    /\ overtaken' = FALSE
    /\ UNCHANGED <<hostVars, stream, queue, twists>>

\* The opening: the observed page with the baseline and the ordinal of now.
Open ==
    /\ conn.state = "observed"
    /\ conn' = [conn EXCEPT !.state = "open", !.next = conn.cut + 1, !.ordinalCut = conn.ordinal]
    /\ client' = Replaced(conn.cut, stream)
    /\ overtaken' = FALSE
    /\ UNCHANGED <<hostVars, stream, queue, twists>>

Disconnected == conn' = Closed /\ queue' = <<>>

\* The last event that an item stands for.
Until(item) == IF item.type = "event" THEN item.n ELSE item.end

\* eventItem, then acceptDurable for each event that the opening and earlier
\* items do not cover.  A skipped place ends the stream.
DeliverEvents ==
    /\ conn.state = "open" /\ queue # <<>> /\ Head(queue).type # "frame"
    /\ LET item == Head(queue)
           end == Until(item)
       IN  IF end < conn.next
           THEN queue' = Tail(queue) /\ UNCHANGED <<conn, client>>
           ELSE IF item.type = "event" /\ end # conn.next
           THEN /\ conn' = [Closed EXCEPT !.state = "failed"] /\ queue' = <<>>
                /\ UNCHANGED client
           ELSE /\ conn' = [conn EXCEPT !.next = end + 1]
                /\ queue' = Tail(queue)
                /\ client' = AcceptAll(client, conn.next, end)
    /\ UNCHANGED <<hostVars, stream, overtaken, twists>>

\* A frame the baseline covers is dropped; a gap of revisions is a lost carrier.
DeliverFrame ==
    /\ conn.state = "open" /\ queue # <<>> /\ Head(queue).type = "frame"
    /\ LET item == Head(queue) IN
       IF item.ordinal <= conn.ordinalCut
       THEN queue' = Tail(queue) /\ UNCHANGED <<conn, client>>
       ELSE IF item.frame.rev # client.rev + 1
       THEN Disconnected /\ UNCHANGED client
       ELSE /\ queue' = Tail(queue)
            /\ client' = AcceptFrame(client, item.frame)
            /\ UNCHANGED conn
    /\ UNCHANGED <<hostVars, stream, overtaken, twists>>

\* restart, a microtask after the fold asked for a new baseline.
Restart ==
    /\ client.restart
    /\ client' = [client EXCEPT !.restart = FALSE]
    /\ Disconnected
    /\ UNCHANGED <<hostVars, stream, overtaken, twists>>

LoseCarrier ==
    /\ Listening /\ Twist
    /\ Disconnected
    /\ UNCHANGED <<hostVars, stream, client, overtaken>>

\* The service is loaded anew, in the middle of an attempt perhaps.
Reload ==
    /\ stream # NoStream /\ Twist
    /\ stream' = NoStream
    /\ Disconnected
    /\ UNCHANGED <<hostVars, client, overtaken>>

Follow == Connect \/ Observe \/ Open \/ DeliverEvents \/ DeliverFrame \/ Restart

Next == Host \/ Follow \/ LoseCarrier \/ Reload

Spec == Init /\ [][Next]_vars

\* The connection is kept up and read: its steps between two of the host are
\* finitely many, so fairness to all is fairness to each.
FairSpec == Spec /\ WF_vars(Follow)

-----------------------------------------------------------------------------
TypeOK ==
    /\ \A n \in DOMAIN log : log[n].type \in Settlements \cup {"step", "end", "other"}
    /\ conn.state \in {"closed", "registered", "observed", "open", "failed"}
    /\ conn.cut \in 0 .. Len(log) /\ conn.next \in 0 .. Len(log) + 1
    /\ conn.ordinalCut \in 0 .. conn.ordinal
    /\ \A a \in {stream.active, client.active, client.retained} :
           /\ a.id \in 0 .. MaxAttempts /\ a.step \in 0 .. MaxSteps
           /\ a.after \in 0 .. Len(log) /\ a.next \in 0 .. MaxChunks
    /\ client.pending \cup client.published \subseteq 1 .. client.cursor
    /\ client.cursor \in 0 .. Len(log)
    /\ twists \in 0 .. MaxTwists

ShownIn(rows, n) == \E i \in DOMAIN rows : rows[i] = Durable(n)
Shown(n) == ShownIn(client.rows, n)
ChunkRows == {i \in DOMAIN client.rows : client.rows[i].id # 0}

Ordered ==
    \A i, j \in DOMAIN client.rows :
        i < j /\ client.rows[i].id = 0 /\ client.rows[j].id = 0
            => client.rows[i].event < client.rows[j].event

(* What the client shows is the log up to its cursor, without a hole, a     *)
(* repetition or a change of order, but for the settlement of an attempt    *)
(* that still streams; whatever happened between listening, observing and   *)
(* opening, and the host never skips a place (eventItem, acceptDurable).    *)
WindowContiguous ==
    /\ conn.state # "failed"
    /\ \A n \in 1 .. client.cursor : (n \in client.pending) # Shown(n)
    /\ \A i \in DOMAIN client.rows : client.rows[i].event <= client.cursor
    /\ overtaken \/ Ordered

Unclosed ==
    \E n \in DOMAIN log :
        /\ log[n].type = "step" /\ agent.step # log[n].step
        /\ \A m \in DOMAIN log : log[m] # Event("end", log[n].step)

\* The rows of an attempt are its chunks, each once and in order.
Counted(rows, a) ==
    LET own == {i \in DOMAIN rows : rows[i].id = a.id}
    IN  /\ {rows[i].index : i \in own} = 1 .. a.next
        /\ \A i, j \in own : i < j => rows[i].index < rows[j].index

(* The rows of a streaming answer belong to the attempt that streams or to  *)
(* the one whose step has yet to end, each chunk once and in order: none    *)
(* outlives its attempt, none is shown beside the settlement that repeats   *)
(* it, and no settlement stays back without an attempt that releases it.    *)
(* The client asks for a new baseline only when the log lacks the end of a  *)
(* step: joining a session at any moment of an attempt needs no second      *)
(* opening.  All this unless a resumed session went ahead of frames that    *)
(* waited in the queue.                                                     *)
TransientsOwned ==
    \/ overtaken
    \/ client.restart /\ Unclosed
    \/ /\ ~client.restart
       /\ \A i \in ChunkRows : client.rows[i].id \in {client.active.id, client.retained.id}
       /\ client.active.id # 0 => Counted(client.rows, client.active)
       /\ client.pending # {} =>
              /\ client.active.id # 0
              /\ \A n \in client.pending : Settles(n, client.active)

\* What FollowsToTheEnd is about.
CaughtUp ==
    /\ \A n \in DOMAIN log : Shown(n)
    /\ overtaken \/ \A i \in ChunkRows : Event("end", client.rows[i].step) \notin Range(log)

(* A client that is kept connected comes to show the whole log, settlements *)
(* that were held back included, and no row of an attempt whose step has    *)
(* ended, through lost connections and reloads of the service; the bounds   *)
(* make the host stop, anywhere in a step.                                  *)
FollowsToTheEnd == <>[]CaughtUp

-----------------------------------------------------------------------------
(* The invariant that FollowStreamProofs proves.                            *)

Attempts == [id : 0 .. MaxAttempts, step : 0 .. MaxSteps, after : 0 .. Len(log),
             next : 0 .. MaxChunks]
Frames ==
    [type : {"start"}, rev : Nat \ {0}, id : 1 .. MaxAttempts, step : 0 .. MaxSteps,
     after : 0 .. Len(log)]
    \cup [type : {"chunk"}, rev : Nat \ {0}, id : 1 .. MaxAttempts, index : 1 .. MaxChunks]
    \cup [type : {"end"}, rev : Nat \ {0}, id : 1 .. MaxAttempts, index : 0 .. MaxChunks,
          outcome : {"message", "attempt", "abandoned"}, seq : 0 .. Len(log)]
Items ==
    [type : {"event"}, n : 1 .. Len(log)] \cup [type : {"created"}, end : 0 .. Len(log)]
    \cup [type : {"frame"}, frame : Frames, ordinal : 1 .. conn.ordinal]

Events == [type : Settlements \cup {"step", "end", "other"}, step : 0 .. MaxSteps]
Agents ==
    [on : BOOLEAN, lives : Nat, rev : Nat, count : 0 .. MaxAttempts, step : 0 .. MaxSteps,
     ask : BOOLEAN, attempt : 0 .. MaxAttempts, index : 0 .. MaxChunks]

HostTypes ==
    /\ log \in Seq(Events)
    /\ agent \in Agents
    /\ stream \in [rev : Nat, active : Attempts]
    /\ twists \in 0 .. MaxTwists
    /\ overtaken \in BOOLEAN

ConnTypes ==
    /\ conn \in [state : {"closed", "registered", "observed", "open"}, cut : 0 .. Len(log),
                 next : 0 .. Len(log) + 1, ordinal : Nat, ordinalCut : Nat]
    /\ conn.ordinalCut <= conn.ordinal
    /\ queue \in Seq(Items)
    /\ ~Listening => queue = <<>>

RowsTo(n) == [event : 0 .. n, id : 0 .. MaxAttempts, step : 0 .. MaxSteps, index : 0 .. MaxChunks]
ClientsTo(n) ==
    [rev : Nat, active : Attempts, retained : Attempts, pending : SUBSET (1 .. n),
     published : SUBSET (1 .. n), cursor : {n}, restart : BOOLEAN, rows : Seq(RowsTo(n))]

ClientTypes ==
    /\ client.cursor \in 0 .. Len(log) /\ client \in ClientsTo(client.cursor)
    /\ conn.state = "open" => conn.next = client.cursor + 1

\* The places of the settlements.
Settled == {n \in DOMAIN log : log[n].type \in Settlements}

\* The accumulator follows the running attempt or none, and no attempt of the
\* session was settled since that one began.
StreamTrue ==
    /\ stream.active.id \in {0, agent.attempt}
    /\ stream.active.id = 0 => stream.active.next = 0
    /\ stream.rev = 0 => stream.active.id = 0
    /\ stream.active.id # 0 => \A n \in Settled : n <= stream.active.after

Covers(item, m) ==
    \/ item.type = "event" /\ item.n = m
    \/ item.type = "created" /\ m <= item.end

\* Every place from base to top waits in the queue, no event before earlier ones.
Covered(q, base, top) ==
    /\ \A m \in base .. top : \E i \in DOMAIN q : Covers(q[i], m)
    /\ \A i \in DOMAIN q : q[i].type = "event" =>
           \A m \in base .. q[i].n - 1 : \E j \in 1 .. i - 1 : Covers(q[j], m)

\* The first place that neither the opening nor an item taken out has covered.
Base == IF conn.state = "open" THEN conn.next ELSE conn.cut + 1
QueueCovers == conn.state \in {"observed", "open"} => Covered(queue, Base, Len(log))

\* A frame behind the baseline, of ordinal cut, and what attempt it leaves running.
Live(item, cut) == item.type = "frame" /\ item.ordinal > cut
IdAfter(f) == IF f.type = "end" THEN 0 ELSE f.id

\* A frame continues what the one before it, of revision rev, left running.
Link(rev, id, f) ==
    f.rev = rev + 1 => IF f.type = "start" THEN id = 0 ELSE id \in {0, f.id}
LastLink(rev, id, a) == rev = a.rev => id \in {0, a.attempt}

Linked(q, cut, rev, id, a) ==
    /\ \A j \in DOMAIN q :
           Live(q[j], cut) /\ (\A k \in 1 .. j - 1 : ~Live(q[k], cut)) => Link(rev, id, q[j].frame)
    /\ \A i, j \in DOMAIN q :
           i < j /\ Live(q[i], cut) /\ Live(q[j], cut) /\ (\A k \in i + 1 .. j - 1 : ~Live(q[k], cut)) =>
               Link(q[i].frame.rev, IdAfter(q[i].frame), q[j].frame)
    /\ (\A k \in DOMAIN q : ~Live(q[k], cut)) => LastLink(rev, id, a)
    /\ \A i \in DOMAIN q :
           Live(q[i], cut) /\ (\A k \in i + 1 .. Len(q) : ~Live(q[k], cut)) =>
               LastLink(q[i].frame.rev, IdAfter(q[i].frame), a)

FramesLinked ==
    conn.state = "open" =>
        /\ client.rev = 0 => client.active.id = 0
        /\ Linked(queue, conn.ordinalCut, client.rev, client.active.id, agent)

\* Neither the attempt a nor one that is yet to start can be settled by the event at n.
Dead(n, a, q, cut) ==
    /\ a.id # 0 => n <= a.after
    /\ \A j \in DOMAIN q : Live(q[j], cut) /\ q[j].frame.type = "start" => n <= q[j].frame.after

EndsAt(i, n, q, cut) ==
    i \in DOMAIN q /\ Live(q[i], cut) /\ q[i].frame.type = "end" /\ q[i].frame.seq = n

\* The settlement of an attempt that streams to the client and its end frame
\* come one after the other.
Paired(q, cut, next, a, settled) ==
    /\ \A i \in DOMAIN q :
           q[i].type = "event" /\ q[i].n >= next /\ q[i].n \in settled =>
               Dead(q[i].n, a, q, cut) \/ EndsAt(i + 1, q[i].n, q, cut)
    /\ \A i \in DOMAIN q : q[i].type = "created" =>
           \A n \in settled : next <= n /\ n <= q[i].end => Dead(n, a, q, cut)

\* What is held back while an attempt streams is one event, the last.
OnlyLast(c) ==
    c.pending # {} =>
        c.pending = {c.cursor} /\ \A i \in DOMAIN c.rows : c.rows[i].event < c.cursor

SettlementsPaired ==
    conn.state = "open" /\ ~overtaken =>
        /\ Paired(queue, conn.ordinalCut, conn.next, client.active, Settled)
        /\ client.active.id # 0 =>
               /\ OnlyLast(client)
               /\ client.pending # {} => EndsAt(1, client.cursor, queue, conn.ordinalCut)

Sorted(rows) ==
    \A i, j \in DOMAIN rows :
        i < j => /\ rows[i].event <= rows[j].event
                 /\ rows[j].id = 0 => rows[i].event < rows[j].event

\* Each place up to the cursor is held back or shown.
Whole(c) == \A n \in 1 .. c.cursor : n \in c.pending <=> ~ShownIn(c.rows, n)

Window == Whole(client) /\ (overtaken \/ Sorted(client.rows))

FollowInv ==
    /\ HostTypes /\ ConnTypes /\ ClientTypes
    /\ StreamTrue /\ QueueCovers /\ FramesLinked /\ SettlementsPaired /\ Window
=============================================================================
