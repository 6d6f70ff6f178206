--------------------------- MODULE SubmissionEcho ---------------------------
(***************************************************************************)
(* Local echoes of submitted prompts: Session of the client                *)
(* (api/session-controller/src/client/sessions/session.ts) between three   *)
(* channels that share no order: the answer of the prompt call, the follow *)
(* stream, which brings the events of the host's log one by one, and the   *)
(* control stream, which brings the inbox projection as of some event.     *)
(*                                                                         *)
(* The host is the part of the agent the echoes are about: its inbox, the  *)
(* driver that claims from it, and the queue operations.  A place in the   *)
(* log is a sequence number, from 1; the code counts places and inbox rows *)
(* from 0.  A prompt names its call, its echo and its message.             *)
(*                                                                         *)
(* What the client reads lags the host by any amount and never holds it    *)
(* up, so a step of the host may as well come before every step of the     *)
(* client that reads: the host writes a log of any length first, and the   *)
(* client then reads what it wrote, in every order the channels allow.     *)
(***************************************************************************)
EXTENDS Integers, Sequences, SequencesExt, FiniteSets

CONSTANTS
    Prompts,       \* request ids of the prompts submitted here
    Foreign,       \* messages that come from elsewhere
    MinMessages,   \* turnWindow.minMessages of a history page
    MinTurns,      \* turnWindow.minTurns
    MaxTwists      \* bound: foreign rows, queue operations, refusals, lost calls, one
                   \* resync or, at two, one outage

ASSUME PromptsAssumption == Prompts \cap Foreign = {}
ASSUME BoundsAssumption == MinMessages \in Nat /\ MinTurns \in Nat /\ MaxTwists \in Nat

VARIABLES
    log,       \* the session's events
    stage,     \* the host writes, the client reads, its Session is disposed
    driver,    \* [phase, batch]: idle, running, or claimed with its batch
    call,      \* [prompt -> the caller's side of its call]
    answer,    \* [prompt -> the host's side of its call]
    follow,    \* [state, base, next, cut]: the client's window, what comes next, and
               \* how far the client had read when the stream was lost
    control,   \* [state, next]: the control stream
    proj,      \* [seq, rows]: the client's inbox projection, seq -1 when absent
    dirty,     \* the projection's subscribers have yet to be told
    echo,      \* [prompt -> its echo and settlement]
    smooth,    \* neither stream was interrupted so far
    twists

hostVars == <<log, driver, answer>>
clientVars == <<follow, control, proj, dirty, echo>>
vars == <<hostVars, stage, call, clientVars, smooth, twists>>

Targets == {"next-turn", "next-step"}
Rows == Prompts \cup Foreign
Empty == [t \in Targets |-> <<>>]
Absent == [seq |-> -1, rows |-> Empty]
NoReceipt == [target |-> "next-turn", seq |-> -1, at |-> 0]

-----------------------------------------------------------------------------
(* The log and what it says of the inbox. *)

Splice(target, start, removed, inserted, canceled) ==
    [type |-> "splice", target |-> target, start |-> start, removed |-> removed,
     inserted |-> inserted, canceled |-> canceled]

Plain(type) == [type |-> type]
Message(row) == [type |-> "message", row |-> row]

Spliced(rows, e) ==
    IF e.type # "splice" THEN rows
    ELSE [rows EXCEPT ![e.target] =
              SubSeq(@, 1, e.start - 1) \o e.inserted
                  \o SubSeq(@, e.start + e.removed, Len(@))]

\* Every event is kept with the inbox after it, the projection's fold.
InboxAt(n) == IF n = 0 THEN Empty ELSE log[n].rows
Inbox == InboxAt(Len(log))
Pending(row) == \E t \in Targets : row \in Range(Inbox[t])
Place(row, rows) == CHOOSE i \in DOMAIN rows : rows[i] = row

\* What the splice at n takes out.
Taken(n) ==
    IF log[n].type # "splice" THEN {}
    ELSE {InboxAt(n - 1)[log[n].target][i] :
              i \in log[n].start .. log[n].start + log[n].removed - 1}

MessageAt(n, row) == log[n].type = "message" /\ log[n].row = row

Canceled(p) == \E n \in DOMAIN log : p \in Taken(n) /\ log[n].canceled
\* Canceled for good, not edited or moved to steer.
Removed(p) ==
    \E n \in DOMAIN log :
        /\ p \in Taken(n) /\ log[n].canceled
        /\ \A k \in n .. Len(log) : log[k].type = "splice" => p \notin Range(log[k].inserted)

Claimed(p) == \E n \in DOMAIN log : p \in Taken(n) /\ ~log[n].canceled

\* Claimed, but the turn or the step went on without it.
Unadmitted(p) ==
    \E n \in DOMAIN log :
        /\ p \in Taken(n) /\ ~log[n].canceled
        /\ \E m \in n + 1 .. Len(log) :
               /\ log[m].type \in {"context", "end"}
               /\ \A k \in n .. m : ~MessageAt(k, p)

\* Where a page that ends at `cut' begins: the latest start of a turn with
\* enough messages and turns from there on, else the start of the log.
WindowStart(cut) ==
    LET Count(n, type) == Cardinality({k \in n .. cut : log[k].type = type})
        Enough == {n \in 1 .. cut :
                       /\ log[n].type = "start"
                       /\ Count(n, "message") >= MinMessages
                       /\ Count(n, "start") >= MinTurns}
    IN  Max(Enough \cup {1})

-----------------------------------------------------------------------------
(* What the client does with an echo. *)

NoEcho == [state |-> "none", placement |-> "chat", accepted |-> FALSE,
           receipt |-> NoReceipt, admitted |-> FALSE]

Unsettled(e) == e.state = "pending"
Retire(e) == IF Unsettled(e) THEN [e EXCEPT !.state = "retiring"] ELSE e
Fail(e) == IF Unsettled(e) /\ ~e.admitted THEN [e EXCEPT !.state = "failed"] ELSE e
Accept(e) == IF e.state \in {"pending", "retiring"} THEN [e EXCEPT !.accepted = TRUE] ELSE e

\* Mutant: rows ahead of the receipt come and go unnoticed.
MovedNot(r, ev, n) ==
    [r EXCEPT !.seq = n,
              !.at = IF @ >= ev.start /\ @ < ev.start + ev.removed THEN 0 ELSE @]

\* Mutant: the row behind those removed counts as removed.
MovedInclusive(r, ev, n) ==
    [r EXCEPT !.seq = n,
              !.at = IF @ < ev.start THEN @
                     ELSE IF @ <= ev.start + ev.removed THEN 0
                     ELSE @ + Len(ev.inserted) - ev.removed]

\* The receipt after a splice of its list that another row may have moved.
Moved(r, ev, n) ==
    LET removed == r.at >= ev.start /\ r.at < ev.start + ev.removed
    IN  [r EXCEPT !.seq = n,
                  !.at = IF removed THEN 0
                         ELSE IF r.at < ev.start THEN r.at
                         ELSE r.at + Len(ev.inserted) - ev.removed]

\* A splice at or before the receipt is already in it.
Track(e, ev, n) ==
    LET r == e.receipt
    IN  IF r.target # ev.target \/ r.at = 0 \/ r.seq >= n THEN e
        ELSE IF ev.canceled /\ Moved(r, ev, n).at = 0 THEN Fail(e)
        ELSE [e EXCEPT !.receipt = Moved(r, ev, n)]

\* Mutant: a place counted from 1 on a side that counts from 0.
InsertedBeyond(e, p, target, rows, start, n) ==
    IF Unsettled(e) /\ p \in Range(rows) /\ e.receipt.seq <= n
    THEN [e EXCEPT !.accepted = TRUE,
                   !.receipt = [target |-> target, seq |-> n, at |-> start + Place(p, rows)]]
    ELSE e

\* `rows' stand in `target' from `start' on, as of n.
Inserted(e, p, target, rows, start, n) ==
    IF Unsettled(e) /\ p \in Range(rows) /\ e.receipt.seq <= n
    THEN [e EXCEPT !.accepted = TRUE,
                   !.receipt = [target |-> target, seq |-> n, at |-> start + Place(p, rows) - 1]]
    ELSE e

\* The whole inbox as of n.
Standing(e, p, rows, n) ==
    Inserted(Inserted(e, p, "next-turn", rows["next-turn"], 1, n),
             p, "next-step", rows["next-step"], 1, n)

\* Mutant: an admitted echo goes without a look at the projection.
HandedOverAtOnce(e, seq) == IF e.admitted THEN Retire(e) ELSE e

\* An admitted echo goes once the projection is past its claim.
HandedOver(e, seq) ==
    IF e.admitted /\ (e.receipt.at # 0 \/ e.receipt.seq <= seq) THEN Retire(e) ELSE e

\* Of no interest to an echo.
Idle(n) ==
    \/ log[n].type = "start"
    \/ log[n].type = "message" /\ log[n].row \in Foreign

\* One event of the log, observed at its place.
Observed(e, p, n, seq) ==
    LET ev == log[n]
    IN  CASE ev.type = "splice" ->
                 Inserted(Track(e, ev, n), p, ev.target, ev.inserted, ev.start, n)
          [] ev.type \in {"context", "end"} ->
                 IF e.receipt.at = 0 /\ e.receipt.seq \in 1 .. n - 1 THEN Fail(e) ELSE e
          [] ev.type = "message" ->
                 IF p = ev.row /\ Unsettled(e)
                 THEN HandedOver([e EXCEPT !.admitted = TRUE], seq) ELSE e
          [] OTHER -> e

\* Mutant: a projection past the claim is no news for an admitted echo.
ProjectedQueuedOnly(e, p, rows, seq) ==
    LET Told == Standing(e, p, rows, seq)
    IN  IF e.placement = "queued" /\ \E t \in Targets : p \in Range(rows[t])
        THEN Retire(Told) ELSE Told

\* The projection: its rows are receipts, and settle queued echoes.
Projected(e, p, rows, seq) ==
    LET Shown == \E t \in Targets : p \in Range(rows[t])
        Told == Standing(e, p, rows, seq)
    IN  HandedOver(IF Shown /\ e.placement = "queued" THEN Retire(Told) ELSE Told, seq)

\* Of two projections the later one stays.
Newer(old, seq, rows) == IF seq <= old.seq THEN old ELSE [seq |-> seq, rows |-> rows]

\* A page with its baseline, both as of `cut'.  What it confirms was accepted.
Installed(e, p, cut, seq) ==
    LET Page == [k \in 1 .. cut - WindowStart(cut) + 1 |-> WindowStart(cut) + k - 1]
        Withdrawn == IF e.receipt.seq \in 1 .. cut THEN Retire(e) ELSE e
    IN  Standing(FoldLeft(LAMBDA done, n : CHOOSE x \in {Observed(d, p, n, seq) : d \in {done}} : TRUE,
                          Withdrawn, Page),
                 p, InboxAt(cut), cut)

-----------------------------------------------------------------------------
Init ==
    /\ log = <<>>
    /\ stage = "writing"
    /\ driver = [phase |-> "idle", batch |-> <<>>]
    /\ call = [p \in Prompts |-> "idle"]
    /\ answer = [p \in Prompts |-> "none"]
    /\ follow = [state |-> "live", base |-> 1, next |-> 1, cut |-> 0]
    /\ control = [state |-> "live", next |-> 1]
    /\ proj = [seq |-> 0, rows |-> Empty]
    /\ dirty = FALSE
    /\ echo = [p \in Prompts |-> NoEcho]
    /\ smooth = TRUE
    /\ twists = 0

Twist == twists < MaxTwists /\ twists' = twists + 1
DoubleTwist == twists + 2 <= MaxTwists /\ twists' = twists + 2

(* The host. *)

Log(events) ==
    log' = FoldLeft(LAMBDA acc, e :
                        acc \o <<e @@ [rows |-> Spliced(IF acc = <<>> THEN Empty
                                                        ELSE Last(acc).rows, e)]>>,
                    log, events)

\* A message joins the end of a list.
Joins(target, row) == Splice(target, Len(Inbox[target]) + 1, 0, <<row>>, FALSE)

\* A queued prompt joins next-turn; a steering one joins next-step, or next-turn
\* when the turn it would steer is being aborted.
HostAccepts(p) ==
    /\ answer[p] = "open"
    /\ answer' = [answer EXCEPT ![p] = "accepted"]
    /\ \E t \in IF echo[p].placement = "queued" THEN {"next-turn"} ELSE Targets :
           Log(<<Joins(t, p)>>)
    /\ UNCHANGED <<driver, stage, call, clientVars, smooth, twists>>

HostRefuses(p) ==
    /\ answer[p] = "open" /\ Twist
    /\ answer' = [answer EXCEPT ![p] = "refused"]
    /\ UNCHANGED <<log, driver, stage, call, clientVars, smooth>>

\* A queued prompt of another client.
ForeignInput(row) ==
    /\ \A n \in DOMAIN log : log[n].type = "splice" => row \notin Range(log[n].inserted)
    /\ Twist
    /\ Log(<<Joins("next-turn", row)>>)
    /\ UNCHANGED <<driver, answer, stage, call, clientVars, smooth>>

Out(target, row, inserted) ==
    Splice(target, Place(row, Inbox[target]), 1, inserted, TRUE)

\* updateQueue: remove, edit in place, or steer with a queued message.
UpdateQueue(target, row) ==
    /\ row \in Range(Inbox[target]) /\ Twist
    /\ \/ Log(<<Out(target, row, <<>>)>>)
       \/ Log(<<Out(target, row, <<row>>)>>)
       \/ /\ target = "next-turn" /\ driver.phase # "idle"
          /\ Log(<<Out(target, row, <<>>), Joins("next-step", row)>>)
    /\ UNCHANGED <<driver, answer, stage, call, clientVars, smooth>>

\* claim: all of next-step, and one queued message when a turn begins.
Claim(turn, before) ==
    LET steps == Inbox["next-step"]
        queued == IF turn /\ Inbox["next-turn"] # <<>>
                  THEN <<Head(Inbox["next-turn"])>> ELSE <<>>
        From(target, rows) ==
            IF rows = <<>> THEN <<>> ELSE <<Splice(target, 1, Len(rows), <<>>, FALSE)>>
    IN  /\ Log(before \o From("next-step", steps) \o From("next-turn", queued))
        /\ driver' = [phase |-> "claimed", batch |-> steps \o queued]

StartTurn ==
    /\ driver.phase = "idle" /\ Inbox # Empty
    /\ Claim(TRUE, <<Plain("start")>>)
    /\ UNCHANGED <<answer, stage, call, clientVars, smooth, twists>>

NextStep ==
    /\ driver.phase = "running" /\ Inbox["next-step"] # <<>>
    /\ Claim(FALSE, <<>>)
    /\ UNCHANGED <<answer, stage, call, clientVars, smooth, twists>>

\* The step begins: its messages, then the request's context if it changed.
Step(batch, changed) ==
    /\ driver.phase = "claimed"
    /\ Log([i \in DOMAIN batch |-> Message(batch[i])]
               \o (IF changed THEN <<Plain("context")>> ELSE <<>>))
    /\ driver' = [phase |-> "running", batch |-> <<>>]

StepAll ==
    /\ Step(driver.batch, \A n \in DOMAIN log : log[n].type # "context")
    /\ UNCHANGED <<answer, stage, call, clientVars, smooth, twists>>

\* A pre-step listener rewrites the batch, with or without a change of model.
StepSome ==
    /\ driver.batch # <<>> /\ Twist
    /\ \E changed \in BOOLEAN : Step(Tail(driver.batch), changed)
    /\ UNCHANGED <<answer, stage, call, clientVars, smooth>>

End ==
    /\ Log(<<Plain("end")>>)
    /\ driver' = [phase |-> "idle", batch |-> <<>>]

EndTurn ==
    /\ driver.phase = "running" /\ Inbox["next-step"] = <<>> /\ End
    /\ UNCHANGED <<answer, stage, call, clientVars, smooth, twists>>

\* The turn is refused or aborted, with what it claimed.
AbortTurn ==
    /\ driver.phase # "idle" /\ End /\ Twist
    /\ UNCHANGED <<answer, stage, call, clientVars, smooth>>

-----------------------------------------------------------------------------
(* The client: submissions, with the host still writing. *)

\* Queued when the Session seems to run and the mode is queue; chat stands for
\* the placements transcript and steering.
Begin(p) ==
    /\ echo[p].state = "none"
    /\ \E placement \in {"chat", "queued"} :
           echo' = [echo EXCEPT ![p].state = "pending", ![p].placement = placement]
    /\ UNCHANGED <<hostVars, stage, call, follow, control, proj, dirty, smooth, twists>>

Send(p) ==
    /\ call[p] = "idle" /\ Unsettled(echo[p])
    /\ call' = [call EXCEPT ![p] = "sent"]
    /\ answer' = [answer EXCEPT ![p] = "open"]
    /\ UNCHANGED <<log, driver, stage, clientVars, smooth, twists>>

(* The client reads.  Nothing is observed without an echo. *)

Reading == stage = "reading"
Active == Reading /\ \E p \in Prompts : echo[p].state \in {"pending", "retiring"}

\* Every event so far read, or behind a stream that was lost.
Known == Max({follow.next, follow.cut + 1, control.next}) - 1

\* Where the log may have stood since: a turn's start and its claim are one.
Cuts(since) == {n \in since .. Len(log) : n = 0 \/ log[n].type # "start"}

Read ==
    /\ stage = "writing" /\ \E p \in Prompts : Unsettled(echo[p])
    /\ stage' = "reading"
    /\ UNCHANGED <<hostVars, call, clientVars, smooth, twists>>

CallFails(p) ==
    /\ call' = [call EXCEPT ![p] = "failed"]
    /\ echo' = [echo EXCEPT ![p] = Fail(@)]
    /\ UNCHANGED <<hostVars, stage, follow, control, proj, dirty, smooth>>

Abandon(p) == Active /\ call[p] = "idle" /\ CallFails(p) /\ Twist

Receipt(p) ==
    /\ Active /\ call[p] = "sent" /\ answer[p] = "accepted"
    /\ call' = [call EXCEPT ![p] = "ok"]
    /\ echo' = [echo EXCEPT ![p] = Accept(@)]
    /\ UNCHANGED <<hostVars, stage, follow, control, proj, dirty, smooth, twists>>

Rejection(p) ==
    /\ Reading /\ call[p] = "sent" /\ answer[p] = "refused"
    /\ CallFails(p) /\ UNCHANGED twists

\* The caller aborts, or the carrier is lost: the host accepts all the same.
LoseCall(p) ==
    /\ Active /\ call[p] = "sent" /\ answer[p] # "refused"
    /\ CallFails(p) /\ Twist

\* publishAssistantEntry, appendLive: the next event, after those no echo minds.
FollowEvent ==
    /\ Active /\ follow.state = "live"
    /\ \E n \in follow.next .. Len(log) :
           /\ ~Idle(n) \/ n = Len(log)
           /\ \A k \in follow.next .. n - 1 : Idle(k)
           /\ follow' = [follow EXCEPT !.next = n + 1]
           /\ echo' = [p \in Prompts |-> Observed(echo[p], p, n, proj.seq)]
    /\ UNCHANGED <<hostVars, stage, call, control, proj, dirty, smooth, twists>>

\* The projection of the inbox as of n reaches the client's store.
Projects(n, base) ==
    /\ proj' = Newer(base, n, InboxAt(n))
    /\ dirty' = (dirty \/ proj' # proj)

\* handleControlFrame: the inbox as of the next splice.
ControlFrame ==
    /\ Reading /\ control.state = "live"
    /\ \E n \in control.next .. Len(log) :
           /\ log[n].type = "splice"
           /\ \A k \in control.next .. n - 1 : log[k].type # "splice"
           /\ control' = [control EXCEPT !.next = n + 1]
           /\ Projects(n, proj)
    /\ UNCHANGED <<hostVars, stage, call, follow, echo, smooth, twists>>

\* observeSubmissionInbox: a microtask after the projection changed.
ObserveInbox ==
    /\ Active /\ dirty
    /\ dirty' = FALSE
    /\ echo' = [p \in Prompts |->
                 IF proj.seq < 0 THEN echo[p] ELSE Projected(echo[p], p, proj.rows, proj.seq)]
    /\ UNCHANGED <<hostVars, stage, call, follow, control, proj, smooth, twists>>

\* finishSubmission, on the animation frame after the echo was latched.
Frame(p) ==
    /\ echo[p].state = "retiring"
    /\ echo' = [echo EXCEPT ![p].state = "observed"]
    /\ UNCHANGED <<hostVars, stage, call, follow, control, proj, dirty, smooth, twists>>

\* installWindow: page and baseline are as of when the host opened the stream,
\* some time after it was lost.
FollowBaseline ==
    /\ Active /\ follow.state = "down"
    /\ \E cut \in Cuts(follow.cut) :
           /\ follow' = [state |-> "live", base |-> WindowStart(cut), next |-> cut + 1, cut |-> 0]
           /\ Projects(cut, proj)
           /\ echo' = [p \in Prompts |-> Installed(echo[p], p, cut, Newer(proj, cut, Empty).seq)]
    /\ UNCHANGED <<hostVars, stage, call, control, smooth, twists>>

\* handleConnected: a new generation of the host discards projections first.
Connected ==
    /\ Reading /\ control.state = "down"
    /\ control' = [state |-> "opening", next |-> Known + 1]
    /\ proj' = Absent
    /\ dirty' = TRUE
    /\ UNCHANGED <<hostVars, stage, call, follow, echo, smooth, twists>>

\* replaceControlBaseline: as of some time after that.
ControlBaseline ==
    /\ Reading /\ control.state = "opening"
    /\ \E cut \in Cuts(control.next - 1) :
           /\ control' = [state |-> "live", next |-> cut + 1]
           /\ Projects(cut, proj)
    /\ UNCHANGED <<hostVars, stage, call, follow, echo, smooth, twists>>

\* Once in a behaviour, which `smooth' bounds.
Interrupted ==
    /\ Active /\ smooth
    /\ follow' = [follow EXCEPT !.state = "down", !.cut = Known]
    /\ smooth' = FALSE
    /\ UNCHANGED <<hostVars, stage, call, proj, dirty, echo>>

\* The carrier of both streams is lost.
Outage == Interrupted /\ DoubleTwist /\ control' = [control EXCEPT !.state = "down"]

\* resync: the session's address changes, and its follow stream is replaced.
Resync == follow.state = "live" /\ Interrupted /\ Twist /\ UNCHANGED control

Dispose ==
    /\ Active /\ Twist
    /\ stage' = "disposed"
    /\ echo' = [p \in Prompts |-> IF echo[p].admitted THEN Retire(echo[p]) ELSE Fail(echo[p])]
    /\ UNCHANGED <<hostVars, call, follow, control, proj, dirty, smooth>>

-----------------------------------------------------------------------------
Host ==
    /\ stage = "writing"
    /\ \/ \E p \in Prompts : Begin(p) \/ Send(p) \/ HostAccepts(p) \/ HostRefuses(p)
       \/ \E t \in Targets, row \in Rows : UpdateQueue(t, row)
       \/ \E row \in Foreign : ForeignInput(row)
       \/ StartTurn \/ NextStep \/ StepAll \/ StepSome \/ EndTurn \/ AbortTurn

Deliver ==
    \/ Read
    \/ \E p \in Prompts : Frame(p) \/ Rejection(p)
    \/ ControlFrame \/ Connected \/ ControlBaseline
    \/ FollowEvent \/ FollowBaseline
    \/ ObserveInbox

Next ==
    \/ Host \/ Deliver \/ Outage \/ Resync \/ Dispose
    \/ \E p \in Prompts : Abandon(p) \/ Receipt(p) \/ LoseCall(p)

Spec == Init /\ [][Next]_vars

\* The streams are read on, refusals return, frames are drawn.  Every delivery
\* uses up a part of a finite log, so fairness to all of them is fairness to
\* each.  Nothing is asked of the host: queued work may wait for ever.
FairSpec == Spec /\ WF_vars(Deliver)

-----------------------------------------------------------------------------
TypeOK ==
    /\ stage \in {"writing", "reading", "disposed"}
    /\ driver.phase \in {"idle", "claimed", "running"}
    /\ driver.batch \in Seq(Rows)
    /\ call \in [Prompts -> {"idle", "sent", "ok", "failed"}]
    /\ answer \in [Prompts -> {"none", "open", "accepted", "refused"}]
    /\ follow \in [state : {"live", "down"}, base : 1 .. Len(log) + 1,
                   next : 1 .. Len(log) + 1, cut : 0 .. Len(log)]
    /\ control \in [state : {"live", "down", "opening"}, next : 1 .. Len(log) + 1]
    /\ proj.seq \in -1 .. Len(log) /\ DOMAIN proj.rows = Targets
    /\ \A p \in Prompts :
           /\ echo[p].state \in {"none", "pending", "retiring", "observed", "failed"}
           /\ echo[p].placement \in {"chat", "queued"}
           /\ echo[p].receipt \in [target : Targets, seq : -1 .. Len(log), at : 0 .. Len(log)]
    /\ twists \in 0 .. MaxTwists

(* The position a client keeps of a message, moved by the splices of the    *)
(* follow stream and overwritten by projections that run ahead of it or     *)
(* behind, is where that message stands in the host's inbox as of the last  *)
(* event it accounts for (observeSubmissionEvent, receipts).                *)
ReceiptsTrue ==
    \A p \in Prompts :
        LET r == echo[p].receipt
            n == IF r.seq < follow.next THEN follow.next - 1 ELSE r.seq
        IN  Unsettled(echo[p]) /\ r.at > 0 =>
                /\ r.at \in DOMAIN InboxAt(n)[r.target]
                /\ InboxAt(n)[r.target][r.at] = p

(* A sender is told `failed' only of a prompt whose call failed, whose      *)
(* Session was disposed, whose row was canceled, or that a turn claimed and *)
(* went on without; and `observed' only of one the host accepted: a         *)
(* cancellation of a neighbouring row is never taken for its own.           *)
HonestVerdicts ==
    \A p \in Prompts :
        /\ echo[p].state = "failed" =>
               call[p] = "failed" \/ stage = "disposed" \/ Canceled(p) \/ Unadmitted(p)
        /\ echo[p].state \in {"retiring", "observed"} => answer[p] = "accepted"

InChat(p) ==
    \E n \in follow.base .. follow.next - 1 : n \in DOMAIN log /\ MessageAt(n, p)
InDock(p) == \E t \in Targets : p \in Range(proj.rows[t])

(* While neither stream is interrupted, an accepted prompt is never out of  *)
(* sight: a Chat echo stands until its durable message does, a queued one   *)
(* until the queue dock has its row or a turn has claimed it, and a         *)
(* finished Chat echo leaves no stale row behind in the dock (README of the *)
(* session controller; retireAdmittedSubmission).                           *)
HandoffSeamless ==
    \A p \in Prompts :
        LET e == echo[p] IN
        /\ smooth /\ Reading /\ (call[p] = "ok" \/ e.state = "observed") =>
               \/ e.accepted /\ e.state \in {"pending", "retiring"}
               \/ InChat(p)
               \/ e.placement = "queued" /\ (InDock(p) \/ Claimed(p))
               \/ Canceled(p) \/ Unadmitted(p)
        /\ smooth /\ Reading /\ e.state = "observed" /\ e.placement # "queued" => ~InDock(p)

\* Below the window of a reopened stream, and never confirmed.
Overlooked(p) ==
    /\ echo[p].receipt = NoReceipt
    /\ \E n \in 1 .. follow.base - 1 : n \in DOMAIN log /\ p \in Taken(n)

\* The host is done with the prompt, or holds it in the queue for a queued
\* echo, or its call failed.
Decided(p) ==
    \/ call[p] = "failed" \/ answer[p] = "refused"
    \/ Removed(p)
    \/ Unadmitted(p) \/ \E n \in DOMAIN log : MessageAt(n, p)
    \/ echo[p].placement = "queued" /\ Pending(p)

Settled ==
    stage # "writing" =>
        \A p \in Prompts :
            Unsettled(echo[p]) \/ echo[p].state = "retiring" => ~Decided(p) \/ Overlooked(p)

(* Once its prompt is decided an echo goes: no order in which the three     *)
(* channels bring the news leaves one behind, except a prompt whose whole   *)
(* life lies below the page a reopened stream begins with.                  *)
EchoesSettle == <>[]Settled
=============================================================================
