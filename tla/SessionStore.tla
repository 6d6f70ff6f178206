---------------------------- MODULE SessionStore ----------------------------
(***************************************************************************)
(* Publication of sessions under one id: enter, announce, append and       *)
(* detach of SessionStore (core/session/src/index.ts).                     *)
(*                                                                         *)
(* Everything here is synchronous, and listeners run inside the call that  *)
(* notifies them: from a listener any operation may be called again, on    *)
(* any session.  The stack holds the notifications under way, the caller's *)
(* code runs when it is empty, the listener `at' of the top frame          *)
(* otherwise.  Sessions are objects that all carry the same id, as two     *)
(* lifecycles of one conversation do.  Events are their places in a log.   *)
(***************************************************************************)
EXTENDS Integers, Sequences, SequencesExt, FiniteSetsExt

CONSTANTS
    Sessions,    \* session objects of one id
    Listeners,   \* listeners of each notification, called in order
    MaxEvents,   \* bound: events of one log
    MaxEnters,   \* bound: entries of all sessions together
    MaxDepth,    \* bound: notifications inside notifications
    None

ASSUME ListenersAssumption == Listeners \in Nat \ {0}
ASSUME BoundsAssumption == MaxEvents \in Nat /\ MaxEnters \in Nat /\ MaxDepth \in Nat
ASSUME NoneAssumption == None \notin Sessions

VARIABLES
    store,            \* session the store holds under the id, or None
    attachment,       \* [session -> independent, prepared (a null entry) or entered]
    announcement,     \* [session -> announcement of its latest entry]
    appending,        \* [session -> its append is being published]
    detachRequested,  \* [session -> removal waits for a notification to unwind]
    detachable,       \* [session -> the capability enter returned is unused]
    enters,           \* [session -> entries so far]
    log,              \* [session -> events in its log]
    stack,            \* notifications under way, the innermost last
    seen              \* [listener -> what it was notified of, in order]

entryVars == <<announcement, appending, detachRequested, detachable, enters>>
vars == <<store, attachment, entryVars, log, stack, seen>>

Listener == 1..Listeners
Notice == [kind : {"created", "event", "disposed"},
           session : Sessions, entry : Nat, seq : 0..MaxEvents]
Frame == [notice : Notice, at : Listener]

notice(kind, s) == [kind |-> kind, session |-> s, entry |-> enters[s], seq |-> log[s]]
Top == Last(stack)

Init ==
    /\ store = None
    /\ attachment = [s \in Sessions |-> "independent"]
    /\ announcement = [s \in Sessions |-> "pending"]
    /\ appending = [s \in Sessions |-> FALSE]
    /\ detachRequested = [s \in Sessions |-> FALSE]
    /\ detachable = [s \in Sessions |-> FALSE]
    /\ enters = [s \in Sessions |-> 0]
    /\ log = [s \in Sessions |-> 0]
    /\ stack = <<>>
    /\ seen = [l \in Listener |-> <<>>]

-----------------------------------------------------------------------------
(* Call the first listener of a notification; the frames below wait. *)
Dispatch(n, below) ==
    /\ stack' = Append(below, [notice |-> n, at |-> 1])
    /\ seen' = [seen EXCEPT ![1] = Append(@, n)]

(* detachEntered: remove this entry and notify its disposal; an entry whose
   announcement never began disappears unseen. *)
DetachEntered(s, below) ==
    /\ detachRequested' = [detachRequested EXCEPT ![s] = FALSE]
    /\ IF store = s
       THEN /\ store' = None
            /\ attachment' = [attachment EXCEPT ![s] = "prepared"]
            /\ IF announcement[s] # "pending"
               THEN Dispatch(notice("disposed", s), below)
               ELSE stack' = below /\ UNCHANGED seen
       ELSE stack' = below /\ UNCHANGED <<store, attachment, seen>>

(* Mutant: the request is dropped with the call that deferred it. *)
UnwindForgets(s, below) ==
    /\ stack' = below
    /\ detachRequested' = [detachRequested EXCEPT ![s] = FALSE]
    /\ UNCHANGED <<store, attachment, seen>>

(* The end of a notification: a removal asked for meanwhile happens now. *)
Unwind(s, below) ==
    IF detachRequested[s]
    THEN DetachEntered(s, below)
    ELSE stack' = below /\ UNCHANGED <<store, attachment, detachRequested, seen>>

-----------------------------------------------------------------------------
(* prepare: build a session for an id that is free for now. *)
Prepare(s) ==
    /\ attachment[s] = "independent" /\ log[s] = 0
    /\ store = None
    /\ attachment' = [attachment EXCEPT ![s] = "prepared"]
    /\ UNCHANGED <<store, entryVars, log, stack, seen>>

(* enter: the collision is decided here, not when the session was prepared. *)
Enter(s) ==
    /\ MapThenSumSet(LAMBDA x : enters[x], Sessions) < MaxEnters
    /\ store = None
    /\ attachment[s] # "entered"
    /\ store' = s
    /\ attachment' = [attachment EXCEPT ![s] = "entered"]
    /\ announcement' = [announcement EXCEPT ![s] = "pending"]
    /\ detachable' = [detachable EXCEPT ![s] = TRUE]
    /\ enters' = [enters EXCEPT ![s] = @ + 1]
    /\ UNCHANGED <<appending, detachRequested, log, stack, seen>>

(* announce, once per entry. *)
Announce(s) ==
    /\ Len(stack) < MaxDepth
    /\ store = s
    /\ announcement[s] = "pending"
    /\ announcement' = [announcement EXCEPT ![s] = "dispatching"]
    /\ Dispatch(notice("created", s), stack)
    /\ UNCHANGED <<store, attachment, appending, detachRequested, detachable, enters, log>>

(* Mutant: an append inside an append. *)
PublishableReentrant(s) ==
    /\ attachment[s] # "prepared"
    /\ attachment[s] = "entered" => announcement[s] = "complete"

(* publicationEntry: who may append now. *)
Publishable(s) ==
    /\ attachment[s] # "prepared"
    /\ attachment[s] = "entered" => announcement[s] = "complete" /\ ~appending[s]

(* append and commit: the event is in the log before the first listener runs.
   A session outside every store notifies nobody. *)
AppendEvent(s) ==
    /\ Len(stack) < MaxDepth
    /\ log[s] < MaxEvents
    /\ Publishable(s)
    /\ log' = [log EXCEPT ![s] = @ + 1]
    /\ IF attachment[s] = "entered"
       THEN /\ appending' = [appending EXCEPT ![s] = TRUE]
            /\ Dispatch(notice("event", s), stack)
       ELSE UNCHANGED <<appending, stack, seen>>
    /\ UNCHANGED <<store, attachment, announcement, detachRequested, detachable, enters>>

(* Mutant: an append does not hold a removal back. *)
BusyAnnouncing(s) == announcement[s] = "dispatching"

(* Whether a removal has to wait for a notification of this entry. *)
Busy(s) == announcement[s] = "dispatching" \/ appending[s]

(* The capability returned by enter, good for one call. *)
Detach(s) ==
    /\ Len(stack) < MaxDepth
    /\ detachable[s]
    /\ detachable' = [detachable EXCEPT ![s] = FALSE]
    /\ UNCHANGED <<announcement, appending, enters, log>>
    /\ IF Busy(s)
       THEN /\ detachRequested' = [detachRequested EXCEPT ![s] = TRUE]
            /\ UNCHANGED <<store, attachment, stack, seen>>
       ELSE DetachEntered(s, stack)

(* Mutant: one listener too many. *)
NextListenerPast ==
    /\ stack # <<>>
    /\ Top.at <= Listeners
    /\ stack' = [stack EXCEPT ![Len(stack)].at = @ + 1]
    /\ UNCHANGED <<store, attachment, entryVars, log, seen>>

(* A listener returns, or throws where its failure is contained, and the next
   one is called. *)
NextListener ==
    /\ stack # <<>>
    /\ Top.at < Listeners
    /\ stack' = [stack EXCEPT ![Len(stack)].at = @ + 1]
    /\ seen' = [seen EXCEPT ![Top.at + 1] = Append(@, Top.notice)]
    /\ UNCHANGED <<store, attachment, entryVars, log>>

(* The last listener of a creation returned: the session takes events now. *)
Created ==
    /\ stack # <<>>
    /\ Top.notice.kind = "created" /\ Top.at = Listeners
    /\ announcement' = [announcement EXCEPT ![Top.notice.session] = "complete"]
    /\ Unwind(Top.notice.session, Front(stack))
    /\ UNCHANGED <<appending, detachable, enters, log>>

(* A creation listener throws: the rest is not called, the session stays
   entered and read-only until its owner detaches it. *)
Vetoed ==
    /\ stack # <<>>
    /\ Top.notice.kind = "created"
    /\ announcement' = [announcement EXCEPT ![Top.notice.session] = "failed"]
    /\ Unwind(Top.notice.session, Front(stack))
    /\ UNCHANGED <<appending, detachable, enters, log>>

(* The last listener of an event returned. *)
Published ==
    /\ stack # <<>>
    /\ Top.notice.kind = "event" /\ Top.at = Listeners
    /\ appending' = [appending EXCEPT ![Top.notice.session] = FALSE]
    /\ Unwind(Top.notice.session, Front(stack))
    /\ UNCHANGED <<announcement, detachable, enters, log>>

Disposed ==
    /\ stack # <<>>
    /\ Top.notice.kind = "disposed" /\ Top.at = Listeners
    /\ stack' = Front(stack)
    /\ UNCHANGED <<store, attachment, entryVars, log, seen>>

Unwinding == NextListener \/ Created \/ Vetoed \/ Published \/ Disposed
Next ==
    \/ \E s \in Sessions : Prepare(s) \/ Enter(s) \/ Announce(s) \/ AppendEvent(s) \/ Detach(s)
    \/ Unwinding

Spec == Init /\ [][Next]_vars

(* Listeners return: the calls they are in come to an end. *)
FairSpec == Spec /\ WF_vars(Unwinding)

-----------------------------------------------------------------------------
TypeOK ==
    /\ store \in Sessions \cup {None}
    /\ attachment \in [Sessions -> {"independent", "prepared", "entered"}]
    /\ announcement \in [Sessions -> {"pending", "dispatching", "complete", "failed"}]
    /\ appending \in [Sessions -> BOOLEAN]
    /\ detachRequested \in [Sessions -> BOOLEAN]
    /\ detachable \in [Sessions -> BOOLEAN]
    /\ enters \in [Sessions -> Nat]
    /\ log \in [Sessions -> 0..MaxEvents]
    /\ stack \in Seq(Frame)
    /\ seen \in [Listener -> Seq(Notice)]

(* Where in q, what a listener was told, the e-th entry of session s occurs,
   and the last of these places. *)
About(q, s, e) == {i \in 1..Len(q) : q[i].session = s /\ q[i].entry = e}
Ends(q, s, e, i) == i \in About(q, s, e) /\ \A j \in About(q, s, e) : j <= i

(* The length of the log that n tells its listener of. *)
After(n) == IF n.kind = "event" THEN n.seq + 1 ELSE n.seq

(* A listener hears of the creation, then of each event of the log from there
   on, once and in log order, then of the disposal, and of nothing after it.
   A listener behind one that vetoed may hear of the disposal alone. *)
InOrder(q, s, e) ==
    \A i \in About(q, s, e) :
        /\ q[i].kind = "created" => \A j \in About(q, s, e) : i <= j
        /\ q[i].kind = "disposed" => Ends(q, s, e, i)
        /\ q[i].kind = "event" =>
             \E j \in About(q, s, e) :
                 /\ j < i /\ \A k \in About(q, s, e) : k < i => k <= j
                 /\ q[i].seq = After(q[j])

(* It was told nothing, everything up to the m-th event, or of the end. *)
Fresh(q, s, e) == About(q, s, e) = {}
Knows(q, s, e, m) == \E i \in 1..Len(q) : Ends(q, s, e, i) /\ q[i].kind # "disposed" /\ After(q[i]) = m
Closed(q, s, e) == \E i \in 1..Len(q) : Ends(q, s, e, i) /\ q[i].kind = "disposed"

(* The lifecycle every listener sees, whatever other listeners do meanwhile:
   append, detach, enter the session again, throw.  Outside notifications it
   knows every event of an announced session, and who heard of a session
   heard of its end, also when its creation was vetoed halfway (commit,
   announce and emitDisposed of SessionStore). *)
ObserversAgree ==
    \A l \in Listener, s \in Sessions : \A e \in 1..enters[s] :
        /\ InOrder(seen[l], s, e)
        /\ (stack = <<>> /\ store = s /\ e = enters[s] /\ announcement[s] = "complete")
             => Knows(seen[l], s, e, log[s])
        /\ (stack = <<>> /\ (store # s \/ e # enters[s]))
             => Fresh(seen[l], s, e) \/ Closed(seen[l], s, e)

(* The session of a creation or an event stays in the store until its last
   listener returned, no detach removes the entry of another session, and
   outside notifications nothing waits to be unwound (enter's deferred detach,
   and the finally blocks of commit and announce). *)
EntryOutlivesNotices ==
    /\ \A i \in 1..Len(stack) :
          stack[i].notice.kind # "disposed" => store = stack[i].notice.session
    /\ \A s \in Sessions :
          /\ attachment[s] = "entered" <=> store = s
          /\ store = s => detachable[s] \/ detachRequested[s]
          /\ stack = <<>> => ~Busy(s) /\ ~detachRequested[s]

(* A removal that was deferred happens: the capability is not lost with the
   call that asked for it (the detach that enter returns). *)
DeferredDetachHappens ==
    \A s \in Sessions : detachRequested[s] ~> store # s

-----------------------------------------------------------------------------
(* What makes EntryOutlivesNotices inductive: a session being announced or
   appended to is the stored one, and there is one of them at most. *)

Holds(st, kind, s) == \E i \in 1..Len(st) : st[i].notice.kind = kind /\ st[i].notice.session = s
Idle(st) == \A i \in 1..Len(st) : st[i].notice.kind = "disposed"

OneNotice ==
    /\ \A i \in 1..Len(stack) : stack[i].notice.kind # "disposed" => store = stack[i].notice.session
    /\ \A i, j \in 1..Len(stack) :
          stack[i].notice.kind # "disposed" /\ stack[j].notice.kind # "disposed" => i = j

FlagsAgree ==
    \A s \in Sessions :
        /\ announcement[s] = "dispatching" <=> Holds(stack, "created", s)
        /\ appending[s] <=> Holds(stack, "event", s)
        /\ appending[s] => announcement[s] = "complete"
        /\ detachRequested[s] => Busy(s)

EntriesAgree ==
    \A s \in Sessions :
        /\ attachment[s] = "entered" <=> store = s
        /\ store = s => detachable[s] \/ detachRequested[s]

StoreInv == OneNotice /\ FlagsAgree /\ EntriesAgree

-----------------------------------------------------------------------------
(* What makes ObserversAgree inductive: how far each listener is with each
   entry, by the frames that still have to reach it. *)

(* Notice n of the e-th entry of s has yet to reach listener l. *)
Owed(st, kind, s, e, l) ==
    \E i \in 1..Len(st) :
        /\ st[i].notice.kind = kind /\ st[i].notice.session = s /\ st[i].notice.entry = e
        /\ st[i].at < l

Stage(s, e) == IF store = s /\ e = enters[s] THEN announcement[s] ELSE "gone"

Told(l, s, e) ==
    /\ Stage(s, e) = "pending" => Fresh(seen[l], s, e)
    /\ Stage(s, e) = "dispatching" =>
         IF Owed(stack, "created", s, e, l) THEN Fresh(seen[l], s, e) ELSE Knows(seen[l], s, e, log[s])
    /\ Stage(s, e) = "complete" =>
         Knows(seen[l], s, e, IF Owed(stack, "event", s, e, l) THEN log[s] - 1 ELSE log[s])
    /\ Stage(s, e) = "failed" => Fresh(seen[l], s, e) \/ Knows(seen[l], s, e, log[s])
    /\ Stage(s, e) = "gone" =>
         IF Owed(stack, "disposed", s, e, l) THEN ~Closed(seen[l], s, e)
         ELSE Fresh(seen[l], s, e) \/ Closed(seen[l], s, e)

(* A frame is about the entry it was pushed for: of a stored session the
   current one, or one that is gone, whose end is told once. *)
FrameFits(f) ==
    LET n == f.notice IN
    /\ n.entry \in 1..enters[n.session]
    /\ n.kind = "disposed" => ~(store = n.session /\ n.entry = enters[n.session])
    /\ n.kind # "disposed" => n.entry = enters[n.session] /\ After(n) = log[n.session]

FramesFit ==
    /\ \A i \in 1..Len(stack) : FrameFits(stack[i])
    /\ \A i, j \in 1..Len(stack) :
          (/\ stack[i].notice.kind = "disposed" /\ stack[j].notice.kind = "disposed"
           /\ stack[i].notice.session = stack[j].notice.session
           /\ stack[i].notice.entry = stack[j].notice.entry) => i = j

(* Nothing is told of an entry before it is made. *)
Begun ==
    /\ \A s \in Sessions : store = s => enters[s] > 0
    /\ \A l \in Listener : \A i \in 1..Len(seen[l]) : seen[l][i].entry <= enters[seen[l][i].session]

Followed(l, s, e) == InOrder(seen[l], s, e) /\ Told(l, s, e)

ViewInv ==
    /\ FramesFit /\ Begun
    /\ \A l \in Listener, s \in Sessions : \A e \in 1..enters[s] : Followed(l, s, e)
=============================================================================
