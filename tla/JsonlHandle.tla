---------------------------- MODULE JsonlHandle ----------------------------
(***************************************************************************)
(* The write handles of one stored session                                 *)
(* (session-persistence-jsonl/src/storage.ts, index.ts, lease.ts).         *)
(*                                                                         *)
(* A session's events are published in memory and copied into the buffer   *)
(* of the session's write handle; a timer, a flush or the close of the     *)
(* handle drains the buffer through the handle's chain of operations into  *)
(* one append-only file.  At most one handle may write: an in-process      *)
(* claim and a kernel lock decide.  Processes crash at any point, leave a  *)
(* torn tail in the file, and other handles open what is left.             *)
(*                                                                         *)
(* Each handle is one life of the session in the process Home[h]; Creator  *)
(* creates the session, the others open it.  An event is a sequence        *)
(* number, the handle whose session published it, and whether it is the    *)
(* marker of a restored log.                                               *)
(***************************************************************************)
EXTENDS Naturals, Sequences, SequencesExt

CONSTANTS
    Handles,        \* lives of the session
    Creator,        \* the handle that creates it; the others open it
    Home,           \* the process each handle runs in
    NoHandle,       \* nobody owns the lock or the claim
    MaxEvents,      \* bound: events of one session log
    MaxFaults,      \* bound: input or output operations that fail
    LateWork        \* does a process still run timers, flushes and drains
                    \* of a handle whose close has left its loop

ASSUME HandlesAssumption ==
    /\ Creator \in Handles /\ NoHandle \notin Handles
    /\ DOMAIN Home = Handles
    /\ MaxEvents \in Nat /\ MaxFaults \in Nat
    /\ LateWork \in BOOLEAN

VARIABLES
    handle,     \* the state of every handle and of its session, see Fresh
    exists,     \* the log file is linked at its final path
    stored,     \* its complete events
    torn,       \* it ends in bytes of an append that never resolved
    salvage,    \* complete events a reader recovers from those bytes
    lock,       \* holder of the kernel lock
    claim,      \* per process, the handle that may write (tracker.writers)
    promised,   \* events a resolved flush covered, over all lives
    faults      \* failed operations so far

vars == <<handle, exists, stored, torn, salvage, lock, claim, promised, faults>>
disk == <<exists, stored, torn, salvage>>

Processes == {Home[h] : h \in Handles}
Event == [seq : 1..MaxEvents, by : Handles, mark : BOOLEAN]

Phases == {"unborn", "claimed", "locked", "open", "stored", "broken", "live",
           "closeDrain", "closeWake", "closeChain", "releasing", "unlocked", "closed", "dead"}

(* A handle before it exists.  In every state of its life:
     entered   the session is in its store, so producers may append to it
     log       the session's events in memory
     buffered  published events that wait for a drain
     batch     the events of the operation at the head of the chain
     queue     the chain: operations in order, the head may have begun
     stage     the await the head operation is suspended in
     draining  the drain that callers join, at most one: it is active, or it
               is over ("done", "failed") and has not been cleared yet
     timer     the batching timer is armed
     paused    drainPaused: a drain failed and none has started since
     cursor    next sequence number minus one, as the handle knows it
     materialized, torn, tornAt, salvage   StorageHandleState
     lease     the handle has acquired the lock (and perhaps released it)
     flush     where a flush call waits: for the drain, to be resumed behind
               it, or for its operation.  Calls that join one drain count as
               the last of them; otherwise there is one at a time
     asked     events published when flush was called
     want      those among them that the drain it waits for stores
     owed      events published when close was called, 0 once it has failed
     ahead     operations of the chain that close waits for
     failed    close saw a drain fail                                      *)
Fresh ==
    [phase |-> "unborn", entered |-> FALSE, log |-> <<>>, buffered |-> <<>>, batch |-> <<>>,
     queue |-> <<>>, stage |-> "rest", draining |-> "none", timer |-> FALSE,
     paused |-> FALSE, cursor |-> 0, materialized |-> FALSE, torn |-> FALSE,
     tornAt |-> 0, salvage |-> <<>>, lease |-> FALSE, flush |-> "idle",
     asked |-> 0, want |-> 0, owed |-> 0, ahead |-> 0, failed |-> FALSE]

Init ==
    /\ handle = [h \in Handles |-> Fresh]
    /\ exists = FALSE /\ stored = <<>> /\ torn = FALSE /\ salvage = <<>>
    /\ lock = NoHandle
    /\ claim = [p \in Processes |-> NoHandle]
    /\ promised = <<>>
    /\ faults = 0

Set(h, r) == handle' = [handle EXCEPT ![h] = r]

(* close has left its loop. *)
Left(r) == r.phase \in {"releasing", "unlocked", "closed"}

(* closing !== undefined: public operations are refused. *)
Closing(r) == r.phase \in {"closeDrain", "closeWake", "closeChain"} \/ Left(r)

(* Every event carries the sequence number of its position. *)
Contiguous(s) == \A i \in 1..Len(s) : s[i].seq = i

(* The log ends in a session/end-seed marker. *)
Marked(s) == s # <<>> /\ s[Len(s)].mark

-----------------------------------------------------------------------------
(* Opening and creating *)

(* create: the claim alone guards a session without an artifact. *)
Create(h) ==
    /\ h = Creator /\ handle[h].phase = "unborn"
    /\ claim[Home[h]] = NoHandle /\ ~exists
    /\ claim' = [claim EXCEPT ![Home[h]] = h]
    /\ Set(h, [Fresh EXCEPT !.phase = "open"])
    /\ UNCHANGED <<disk, lock, promised, faults>>

(* open for write: the in-process claim, before anything is awaited. *)
ClaimWrite(h) ==
    /\ h # Creator /\ handle[h].phase = "unborn"
    /\ claim[Home[h]] = NoHandle
    /\ claim' = [claim EXCEPT ![Home[h]] = h]
    /\ Set(h, [handle[h] EXCEPT !.phase = "claimed"])
    /\ UNCHANGED <<disk, lock, promised, faults>>

(* acquireLease on the directory of the log that was found. *)
Lock(h) ==
    /\ handle[h].phase = "claimed" /\ exists /\ lock = NoHandle
    /\ lock' = h
    /\ Set(h, [handle[h] EXCEPT !.phase = "locked", !.lease = TRUE])
    /\ UNCHANGED <<disk, claim, promised, faults>>

(* The log is read under the lock and primes the handle: complete events
   recovered from a torn tail count, and the tail is remembered. *)
Adopt(h) ==
    /\ handle[h].phase = "locked" /\ Contiguous(stored \o salvage)
    /\ Set(h, [handle[h] EXCEPT
            !.phase = "open", !.log = stored \o salvage,
            !.cursor = Len(stored) + Len(salvage), !.materialized = TRUE,
            !.torn = torn, !.tornAt = Len(stored), !.salvage = salvage])
    /\ UNCHANGED <<disk, lock, claim, promised, faults>>

(* Nothing to open, a foreign lock holder, a log that does not scan, or an
   input error: lock and claim go back and the caller may try again. *)
OpenRefused(h) ==
    /\ \/ handle[h].phase = "claimed" /\ (~exists \/ lock # NoHandle)
          /\ UNCHANGED faults
       \/ handle[h].phase = "locked"
          /\ IF Contiguous(stored \o salvage)
             THEN faults < MaxFaults /\ faults' = faults + 1
             ELSE UNCHANGED faults
    /\ lock' = IF lock = h THEN NoHandle ELSE lock
    /\ claim' = [claim EXCEPT ![Home[h]] = NoHandle]
    /\ Set(h, Fresh)
    /\ UNCHANGED <<disk, promised>>

-----------------------------------------------------------------------------
(* The buffer and its single-flight drain, as functions of a handle state *)

(* drainLive up to its first await: join the drain that is there, also one that
   is over and not cleared yet, or start one.  A drain that finds the buffer
   empty is over at once. *)
DrainLive(r) ==
    IF r.draining # "none" THEN r
    ELSE [r EXCEPT !.timer = FALSE, !.paused = FALSE,
                   !.draining = IF r.buffered = <<>> THEN "done" ELSE "active",
                   !.queue = IF r.buffered = <<>> THEN @ ELSE Append(@, "drain")]

(* Promise reactions are due: they run before any timer fires and before any
   input or output resolves. *)
Settling(r) ==
    \/ r.draining \in {"done", "failed"} \/ r.flush = "drained"
    \/ r.phase = "closeWake" \/ (r.phase = "closeChain" /\ r.ahead = 0)

-----------------------------------------------------------------------------
(* The session's callers *)

(* Before the session is published, explicit appends store what its log
   holds beyond the file: a creator's fork seed, the closers of the turn a
   crash interrupted, and the marker that separates restored history, which
   a log that ends in one does not get again. *)
AppendSuffix(h) ==
    LET r == handle[h]
        events(n, mark) == [i \in 1..n |-> [seq |-> Len(r.log) + i, by |-> h, mark |-> mark]]
        append(batch) == Set(h, [r EXCEPT !.batch = batch, !.queue = <<"append">>]) IN
    /\ r.queue = <<>>
    /\ \/ r.phase = "open" /\ \E n \in 1..(MaxEvents - Len(r.log)) : append(events(n, FALSE))
       \/ /\ r.phase \in {"open", "stored"} /\ h # Creator
          /\ ~Marked(r.log) /\ Len(r.log) < MaxEvents
          /\ append(events(1, TRUE))
    /\ UNCHANGED <<disk, lock, claim, promised, faults>>

(* The session enters its store and is announced. *)
Enter(h) ==
    LET r == handle[h] IN
    /\ r.phase \in {"open", "stored"} /\ r.queue = <<>>
    /\ h = Creator \/ Marked(r.log)
    /\ Set(h, [r EXCEPT !.phase = "live", !.entered = TRUE])
    /\ UNCHANGED <<disk, lock, claim, promised, faults>>

(* A session event: routed into the buffer of the process's writer, which
   arms the timer unless it is armed or automatic drains are paused.  While
   close waits for the release of a lock, producers still run. *)
Publish(h) ==
    LET r == handle[h]
        event == [seq |-> Len(r.log) + 1, by |-> h, mark |-> FALSE] IN
    /\ r.entered /\ Len(r.log) < MaxEvents /\ claim[Home[h]] = h
    /\ r.phase \in {"releasing", "unlocked"} => r.lease
    /\ Set(h, [r EXCEPT !.log = Append(@, event), !.buffered = Append(@, event),
                        !.timer = @ \/ ~r.paused])
    /\ UNCHANGED <<disk, lock, claim, promised, faults>>

(* The batching timer: its failure is only logged.  Nothing stops it when
   the handle closes. *)
Fire(h) ==
    LET r == handle[h] IN
    /\ r.timer /\ ~Settling(r)
    /\ Left(r) => LateWork
    /\ Set(h, DrainLive([r EXCEPT !.timer = FALSE]))
    /\ UNCHANGED <<disk, lock, claim, promised, faults>>

(* session/flush, or the backend's flush: drain first.  An active drain takes
   all that is published, one that is over takes nothing more. *)
Flush(h) ==
    LET r == handle[h]
        d == DrainLive(r) IN
    /\ r.entered /\ r.flush \in {"idle", "drain"}
    /\ r.phase \in {"releasing", "unlocked"} => LateWork /\ r.lease
    /\ Set(h, [d EXCEPT !.flush = "drain", !.asked = Len(r.log),
                        !.want = IF d.draining = "active" THEN Len(r.log)
                                 ELSE Len(r.log) - Len(r.buffered)])
    /\ UNCHANGED <<disk, lock, claim, promised, faults>>

(* Mutant: the flush that joined a failed drain is forgotten. *)
FinallyForgets(h) ==
    LET r == handle[h]
        failed == r.failed \/ (r.phase = "closeDrain" /\ r.draining = "failed") IN
    /\ r.draining \in {"done", "failed"}
    /\ Set(h, [r EXCEPT
            !.draining = "none",
            !.flush = IF @ = "drain" /\ r.draining = "done" THEN "drained" ELSE @,
            !.phase = IF @ = "closeDrain" THEN "closeWake" ELSE @,
            !.failed = failed,
            !.owed = IF failed THEN 0 ELSE @])
    /\ UNCHANGED <<disk, lock, claim, promised, faults>>

(* A drain that is over is cleared, and then settles those that joined it: a
   failure rejects the flush, and a close that saw one rejects in the end. *)
Finally(h) ==
    LET r == handle[h]
        rejected == r.flush = "drain" /\ r.draining = "failed"
        failed == r.failed \/ (r.phase = "closeDrain" /\ r.draining = "failed") IN
    /\ r.draining \in {"done", "failed"}
    /\ Set(h, [r EXCEPT
            !.draining = "none",
            !.flush = IF rejected THEN "idle" ELSE IF @ = "drain" THEN "drained" ELSE @,
            !.asked = IF rejected THEN 0 ELSE @,
            !.want = IF rejected THEN 0 ELSE @,
            !.phase = IF @ = "closeDrain" THEN "closeWake" ELSE @,
            !.failed = failed,
            !.owed = IF failed THEN 0 ELSE @])
    /\ UNCHANGED <<disk, lock, claim, promised, faults>>

(* The flush goes on to the handle's own, which a closing handle refuses. *)
Resume(h) ==
    LET r == handle[h] IN
    /\ r.flush = "drained"
    /\ Set(h, IF Closing(r) THEN [r EXCEPT !.flush = "idle", !.asked = 0, !.want = 0]
              ELSE [r EXCEPT !.flush = "op", !.queue = Append(@, "flush")])
    /\ UNCHANGED <<disk, lock, claim, promised, faults>>

(* close: by the agent's teardown, by the session's disposal or by the
   backend's, memoised.  A failed creation closes too. *)
Close(h) ==
    LET r == handle[h] IN
    /\ r.phase \in {"open", "stored", "broken", "live"}
    /\ Set(h, DrainLive([r EXCEPT !.phase = "closeDrain", !.owed = Len(r.log)]))
    /\ UNCHANGED <<disk, lock, claim, promised, faults>>

-----------------------------------------------------------------------------
(* The chain of operations *)

(* The head operation is over. *)
Rest(r) == [r EXCEPT !.queue = Tail(@), !.stage = "rest", !.batch = <<>>,
                     !.ahead = IF @ = 0 THEN 0 ELSE @ - 1]
Flushed(r) == [Rest(r) EXCEPT !.flush = "idle", !.asked = 0, !.want = 0]

(* Mutant: a failed drain puts its batch behind what arrived meanwhile. *)
OpFailedBehind(r) ==
    CASE Head(r.queue) = "drain" ->
            [Rest(r) EXCEPT !.buffered = @ \o r.batch, !.paused = TRUE, !.draining = "failed"]
      [] Head(r.queue) = "append" -> [Rest(r) EXCEPT !.phase = IF Closing(r) THEN @ ELSE "broken"]
      [] OTHER -> Flushed(r)

(* The head operation failed: a drain puts its batch back in front of what
   arrived meanwhile and pauses the timer; a failed suffix ends creation. *)
OpFailed(r) ==
    CASE Head(r.queue) = "drain" ->
            [Rest(r) EXCEPT !.buffered = r.batch \o @, !.paused = TRUE, !.draining = "failed"]
      [] Head(r.queue) = "append" -> [Rest(r) EXCEPT !.phase = IF Closing(r) THEN @ ELSE "broken"]
      [] OTHER -> Flushed(r)

(* The head operation succeeded: a drain goes on while events are buffered,
   and is over with the last look at the buffer that finds it empty. *)
OpDone(r) ==
    LET done == [Rest(r) EXCEPT !.cursor = @ + Len(r.batch), !.materialized = TRUE] IN
    CASE Head(r.queue) = "drain" ->
            IF r.buffered # <<>> THEN [done EXCEPT !.queue = Append(@, "drain")]
            ELSE [done EXCEPT !.draining = "done"]
      [] Head(r.queue) = "append" ->
            [done EXCEPT !.log = @ \o r.batch, !.phase = IF Closing(r) THEN @ ELSE "stored"]
      [] OTHER -> [done EXCEPT !.flush = "idle", !.asked = 0, !.want = 0]

(* A resolved flush promises what its drain was to store, short of the events
   recovered from a torn tail, which the next append stores. *)
Promise(r) ==
    LET end == IF r.salvage = <<>> THEN r.want ELSE r.tornAt IN
    promised' = IF Head(r.queue) = "flush" /\ end > Len(promised)
                THEN SubSeq(r.log, 1, end) ELSE promised

(* The batch does not continue the events that are stored. *)
Gap(r) == \E i \in 1..Len(r.batch) : r.batch[i].seq # r.cursor + i

(* Where the repair of the file goes on, and the write after it. *)
Repair(r) ==
    IF r.torn THEN "truncate" ELSE IF r.salvage # <<>> THEN "rewrite" ELSE "write"

(* Mutant: the recovered events are not written again. *)
LockedNoRewrite(r) ==
    IF Head(r.queue) # "flush" /\ Gap(r) THEN OpFailed(r)
    ELSE IF Head(r.queue) # "flush" /\ r.torn
         THEN [r EXCEPT !.stage = "truncate", !.salvage = <<>>]
         ELSE [r EXCEPT !.stage = "write"]

(* Under the lock: contiguity is checked, and the repair of a torn tail
   comes before the batch. *)
Locked(r) ==
    IF Head(r.queue) # "flush" /\ Gap(r) THEN OpFailed(r)
    ELSE [r EXCEPT !.stage = IF Head(r.queue) = "flush" THEN "write" ELSE Repair(r)]

(* The head operation begins: a drain takes the whole buffer now, a flush
   of a stored session has nothing to do, and closing refuses both public
   operations.  A close that waits for the chain resumes before a drain
   that was queued behind its wait. *)
Begin(h) ==
    LET r == handle[h]
        taken == IF Head(r.queue) = "drain"
                 THEN [r EXCEPT !.batch = r.buffered, !.buffered = <<>>] ELSE r IN
    /\ r.queue # <<>> /\ r.stage = "rest" /\ r.phase # "dead"
    /\ r.phase = "closeChain" => r.ahead > 0
    /\ Left(r) => LateWork
    /\ CASE Closing(r) /\ Head(r.queue) # "drain" ->
                Set(h, OpFailed(r)) /\ UNCHANGED promised
         [] Head(r.queue) = "flush" /\ r.materialized /\ ~Closing(r) ->
                Set(h, Flushed(r)) /\ Promise(r)
         [] OTHER ->
                /\ Set(h, IF r.lease THEN Locked(taken) ELSE [taken EXCEPT !.stage = "lock"])
                /\ UNCHANGED promised
    /\ UNCHANGED <<disk, lock, claim, faults>>

(* ensureLease of a created session, right before its first write. *)
TakeLock(h) ==
    LET r == handle[h] IN
    /\ r.stage = "lock" /\ ~Settling(r)
    /\ \/ /\ lock = NoHandle /\ lock' = h
          /\ Set(h, Locked([r EXCEPT !.lease = TRUE]))
          /\ UNCHANGED faults
       \/ /\ IF lock = NoHandle THEN faults < MaxFaults /\ faults' = faults + 1
             ELSE UNCHANGED faults
          /\ Set(h, OpFailed(r)) /\ UNCHANGED lock
    /\ UNCHANGED <<disk, claim, promised>>

(* Mutant: the truncation point survives the repair. *)
TruncateAgain(h) ==
    LET r == handle[h] IN
    /\ r.stage = "truncate" /\ ~Settling(r)
    /\ stored' = SubSeq(stored, 1, r.tornAt) /\ torn' = FALSE /\ salvage' = <<>>
    /\ Set(h, [r EXCEPT !.stage = IF r.salvage = <<>> THEN "write" ELSE "rewrite"])
    /\ UNCHANGED <<exists, lock, claim, promised, faults>>

(* repair: the torn bytes go, durably, before anything is appended. *)
Truncate(h) ==
    LET r == handle[h] IN
    /\ r.stage = "truncate" /\ ~Settling(r)
    /\ stored' = SubSeq(stored, 1, r.tornAt) /\ torn' = FALSE /\ salvage' = <<>>
    /\ Set(h, [r EXCEPT !.torn = FALSE, !.tornAt = 0,
                        !.stage = IF r.salvage = <<>> THEN "write" ELSE "rewrite"])
    /\ UNCHANGED <<exists, lock, claim, promised, faults>>

(* Mutant: the rewritten events are counted a second time. *)
RewriteCounts(h) ==
    LET r == handle[h] IN
    /\ r.stage = "rewrite" /\ ~Settling(r)
    /\ stored' = stored \o r.salvage
    /\ Set(h, [r EXCEPT !.salvage = <<>>, !.stage = "write", !.cursor = @ + Len(r.salvage)])
    /\ UNCHANGED <<exists, torn, salvage, lock, claim, promised, faults>>

(* The events recovered from the torn bytes are written again. *)
Rewrite(h) ==
    LET r == handle[h] IN
    /\ r.stage = "rewrite" /\ ~Settling(r)
    /\ stored' = stored \o r.salvage
    /\ Set(h, [r EXCEPT !.salvage = <<>>, !.stage = "write"])
    /\ UNCHANGED <<exists, torn, salvage, lock, claim, promised, faults>>

(* persistBatch or persistHeader: append to the file, or publish a new one
   without ever replacing one that exists. *)
Write(h) ==
    LET r == handle[h] IN
    /\ r.stage = "write" /\ ~Settling(r) /\ (r.materialized \/ ~exists)
    /\ stored' = stored \o r.batch /\ exists' = TRUE
    /\ Set(h, OpDone(r)) /\ Promise(r)
    /\ UNCHANGED <<torn, salvage, lock, claim, faults>>

(* The write is refused by a log that exists, or it fails and a partial
   append is rolled back, or it fails after the new file was linked. *)
WriteFails(h) ==
    LET r == handle[h] IN
    /\ r.stage = "write" /\ ~Settling(r)
    /\ IF r.materialized \/ ~exists
       THEN faults < MaxFaults /\ faults' = faults + 1
       ELSE UNCHANGED faults
    /\ \/ UNCHANGED <<exists, stored>>
       \/ ~r.materialized /\ ~exists /\ exists' = TRUE /\ stored' = r.batch
    /\ Set(h, OpFailed(r))
    /\ UNCHANGED <<torn, salvage, lock, claim, promised>>

(* The repair fails: each part of it stays due until it has landed. *)
RepairFails(h) ==
    LET r == handle[h] IN
    /\ r.stage \in {"truncate", "rewrite"} /\ ~Settling(r) /\ faults < MaxFaults
    /\ faults' = faults + 1
    /\ \/ UNCHANGED <<torn, salvage>>
       \/ r.stage = "truncate" /\ torn' = FALSE /\ salvage' = <<>>
    /\ Set(h, OpFailed(r))
    /\ UNCHANGED <<exists, stored, lock, claim, promised>>

-----------------------------------------------------------------------------
(* The end of a handle *)

(* close resumes behind its drain and waits for the chain as it is now... *)
CloseWaits(h) ==
    LET r == handle[h] IN
    /\ r.phase = "closeWake"
    /\ Set(h, [r EXCEPT !.phase = "closeChain", !.ahead = Len(r.queue)])
    /\ UNCHANGED <<disk, lock, claim, promised, faults>>

(* ... and looks again, before anything that was queued behind its wait: it
   drains once more, unless the buffer is empty or a drain failed. *)
CloseAgain(h) ==
    LET r == handle[h] IN
    /\ r.phase = "closeChain" /\ r.ahead = 0
    /\ Set(h, IF r.failed \/ r.buffered = <<>> THEN [r EXCEPT !.phase = "releasing"]
              ELSE DrainLive([r EXCEPT !.phase = "closeDrain"]))
    /\ UNCHANGED <<disk, lock, claim, promised, faults>>

(* lease.release: the descriptor closes while close awaits it... *)
Unlock(h) ==
    /\ handle[h].phase = "releasing" /\ (handle[h].lease => ~Settling(handle[h]))
    /\ lock' = IF lock = h THEN NoHandle ELSE lock
    /\ Set(h, [handle[h] EXCEPT !.phase = "unlocked"])
    /\ UNCHANGED <<disk, claim, promised, faults>>

(* ... and then the handle leaves the tracker and the session its store. *)
Release(h) ==
    /\ handle[h].phase = "unlocked"
    /\ claim' = [claim EXCEPT ![Home[h]] = NoHandle]
    /\ Set(h, [handle[h] EXCEPT !.phase = "closed", !.entered = FALSE])
    /\ UNCHANGED <<disk, lock, promised, faults>>

(* What an interrupted append of events leaves in the file: all of it, a
   torn frame from which the first n events can be recovered (zstd), or n
   complete lines in front of a torn one (plain). *)
TornAppend(events) ==
    \/ stored' = stored \o events /\ UNCHANGED <<torn, salvage>>
    \/ \E n \in 0..Len(events) :
          /\ torn' = TRUE
          /\ \/ salvage' = SubSeq(events, 1, n) /\ UNCHANGED stored
             \/ n < Len(events) /\ UNCHANGED salvage
                /\ stored' = stored \o SubSeq(events, 1, n)

(* A process dies: the kernel drops its lock, and the write in flight may
   have reached the file in part.  A new file appears whole or not at all. *)
Crash(p) ==
    LET lives == {h \in Handles : Home[h] = p /\ handle[h].phase \notin {"unborn", "dead"}}
        busy == {h \in lives : handle[h].stage \in {"truncate", "rewrite", "write"}} IN
    /\ lives # {}
    /\ handle' = [h \in Handles |->
                    IF h \in lives THEN [Fresh EXCEPT !.phase = "dead"] ELSE handle[h]]
    /\ lock' = IF lock \in lives THEN NoHandle ELSE lock
    /\ claim' = [claim EXCEPT ![p] = NoHandle]
    /\ \/ UNCHANGED disk
       \/ \E h \in busy :
            LET r == handle[h] IN
            CASE r.stage = "truncate" ->
                    torn' = FALSE /\ salvage' = <<>> /\ UNCHANGED <<exists, stored>>
              [] r.stage = "rewrite" -> TornAppend(r.salvage) /\ UNCHANGED exists
              [] r.stage = "write" /\ r.materialized ->
                    TornAppend(r.batch) /\ UNCHANGED exists
              [] OTHER -> ~exists /\ exists' = TRUE /\ stored' = r.batch
                          /\ UNCHANGED <<torn, salvage>>
    /\ UNCHANGED <<promised, faults>>

-----------------------------------------------------------------------------
Next ==
    \/ \E h \in Handles :
          \/ Create(h) \/ ClaimWrite(h) \/ Lock(h) \/ Adopt(h) \/ OpenRefused(h)
          \/ AppendSuffix(h) \/ Enter(h) \/ Publish(h) \/ Fire(h) \/ Flush(h)
          \/ Finally(h) \/ Resume(h)
          \/ Begin(h) \/ TakeLock(h) \/ Truncate(h) \/ Rewrite(h)
          \/ Write(h) \/ WriteFails(h) \/ RepairFails(h)
          \/ Close(h) \/ CloseWaits(h) \/ CloseAgain(h) \/ Unlock(h) \/ Release(h)
    \/ \E p \in Processes : Crash(p)

Spec == Init /\ [][Next]_vars

-----------------------------------------------------------------------------
Operations == {"drain", "append", "flush"}
Stages == {"rest", "lock", "truncate", "rewrite", "write"}
Waits == {"idle", "drain", "drained", "op"}
DrainStates == {"none", "active", "done", "failed"}
Count == 0..MaxEvents
Events == Seq(Event)
Chain == Seq(Operations)

HandleState ==
    [phase : Phases, entered : BOOLEAN, log : Events, buffered : Events, batch : Events,
     queue : Chain, stage : Stages, draining : DrainStates, timer : BOOLEAN, paused : BOOLEAN,
     cursor : Count, materialized : BOOLEAN, torn : BOOLEAN, tornAt : Count,
     salvage : Events, lease : BOOLEAN, flush : Waits, asked : Count, want : Count,
     owed : Count, ahead : 0..2, failed : BOOLEAN]

(* Every variable keeps its type: no buffer, batch or cursor outgrows the
   session's log. *)
TypeOK ==
    /\ handle \in [Handles -> HandleState]
    /\ exists \in BOOLEAN /\ torn \in BOOLEAN
    /\ stored \in Seq(Event) /\ salvage \in Seq(Event) /\ promised \in Seq(Event)
    /\ lock \in Handles \cup {NoHandle}
    /\ claim \in [Processes -> Handles \cup {NoHandle}]
    /\ faults \in 0..MaxFaults

(* The file always scans: through crashes, failed writes, repairs and
   changes of owner its events, with those a reader recovers from a torn
   tail, carry consecutive sequence numbers. *)
Ordered == Contiguous(stored \o salvage)

(* What a resolved session/flush had drained is in the file, whatever happens
   later and whoever owns the session (drainLive joined with concurrent
   publications, retained batches, torn tails).  That may be less than what
   was published when it was called, see FlushTakesAll. *)
Acknowledged == IsPrefix(promised, stored)

(* The file is touched only by the holder of the kernel lock: the lock is
   held for the whole life of a write handle. *)
LockHeld ==
    \A h \in Handles :
        handle[h].stage \in {"truncate", "rewrite", "write"} => lock = h

(* The batch of a drain; that of an append is not in the log yet. *)
Drained(r) == IF r.queue = <<"append">> THEN <<>> ELSE r.batch

(* No event is lost or reordered on the way: the session's log is what the
   handle has stored, then the batch of a drain in flight, then the buffer;
   and the owner's idea of what is stored is the file with the recovered
   events it has still to write again. *)
Custody ==
    \A h \in Handles :
        LET r == handle[h]
            known == SubSeq(r.log, 1, r.cursor) IN
        /\ r.log = known \o Drained(r) \o r.buffered
        /\ lock = h /\ r.materialized => known = stored \o r.salvage

(* An event never waits in the buffer with nothing to move it: a timer, an
   active drain, or a pause after a failure that the next flush or close
   ends; and a pause always has events to retry. *)
Buffering ==
    \A h \in Handles :
        LET r == handle[h] IN
        /\ r.entered /\ r.buffered # <<>> => r.timer \/ r.draining = "active" \/ r.paused
        /\ r.paused => r.buffered # <<>>

(* Nobody waits for something that will not come: a flush or a close that
   waits for the drain has one that is active or about to be cleared, an active
   drain is in the chain, and so is the operation of a flush. *)
Attended ==
    \A h \in Handles :
        LET r == handle[h]
            queued(op) == \E i \in 1..Len(r.queue) : r.queue[i] = op IN
        /\ r.flush = "drain" \/ r.phase = "closeDrain" => r.draining # "none"
        /\ r.draining = "active" => queued("drain")
        /\ r.flush = "op" => queued("flush")

(* A close that does not reject has stored everything its session published
   before it was called, although producers, timers and flushes run beside
   it and other lives write after it. *)
CloseCovers ==
    \A h \in Handles :
        LET r == handle[h] IN
        r.phase \in {"unlocked", "closed"} /\ ~r.failed =>
            \A i \in 1..r.owed :
                r.log[i].by = h => i <= Len(stored) /\ stored[i] = r.log[i]

(* The file is kept: its events scan, a resolved flush or close finds its events
   in it, it is the log of its owner, and nobody else touches it; through
   crashes, torn tails, failed writes and changes of owner. *)
FileKept == Ordered /\ Acknowledged /\ CloseCovers /\ Custody /\ LockHeld

(* Nothing that waits is forgotten: neither an event in the buffer nor a caller
   behind a drain that fails or is joined by timer, flush and close. *)
NothingStuck == Buffering /\ Attended

(* Committed events are never rewritten or removed: the complete part of
   the file only grows. *)
AppendOnly == [][IsPrefix(stored, stored')]_vars

(* session/flush is "the immediate durability and error-observation barrier": a
   flush that goes on to resolve has stored all that was published before it. *)
FlushTakesAll ==
    \A h \in Handles :
        LET r == handle[h] IN r.flush = "op" /\ ~Closing(r) => r.asked <= r.cursor

-----------------------------------------------------------------------------
(* What makes FileKept and NothingStuck inductive, where no timer, flush or drain
   runs once close has left its loop (~LateWork). *)

(* The chain is one of five: a drain and a flush are queued once, a flush
   always in front, and appends are over before anything is published. *)
Chained(r) ==
    /\ r.queue \in {<<>>, <<"append">>, <<"drain">>, <<"flush">>, <<"flush", "drain">>}
    /\ r.draining = "active" <=> r.queue \in {<<"drain">>, <<"flush", "drain">>}
    /\ r.flush = "op" <=> r.queue \in {<<"flush">>, <<"flush", "drain">>}
    /\ r.flush = "drain" \/ r.phase = "closeDrain" => r.draining # "none"
    /\ r.flush = "drained" => Closing(r) \/ (r.draining = "none" /\ r.queue = <<>>)
    /\ r.queue # <<>> =>
          \/ r.phase \in {"open", "stored", "live", "closeDrain", "closeWake", "closeChain"}
          \/ r.queue = <<"drain">> /\ r.stage = "rest" /\ r.failed /\ Left(r)
    /\ r.queue = <<"append">> => ~r.entered
    /\ r.stage # "rest" => r.queue # <<>>

(* close waits for what was in the chain; behind that there is a drain at most. *)
Awaited(r) ==
    /\ r.ahead <= Len(r.queue)
    /\ r.ahead > 0 => r.phase = "closeChain"
    /\ r.phase = "closeChain" /\ r.ahead = 0 => r.queue \in {<<>>, <<"drain">>} /\ r.stage = "rest"

(* Where events are: a drain at rest has not taken the buffer, one that runs
   has a batch; a session nobody entered has published nothing. *)
Gathered(r) ==
    /\ r.batch # <<>> <=> r.queue = <<"append">> \/ (r.queue = <<"drain">> /\ r.stage # "rest")
    /\ r.draining = "active" /\ r.batch = <<>> => r.buffered # <<>>
    /\ r.paused => r.buffered # <<>> /\ r.draining \in {"none", "failed"}
    /\ r.entered => r.phase \in {"live", "closeDrain", "closeWake", "closeChain", "releasing", "unlocked"}
    /\ r.phase = "live" => r.entered
    /\ ~r.entered /\ r.phase # "closed" =>
          /\ r.buffered = <<>> /\ ~r.timer /\ ~r.paused
          /\ r.draining \in {"none", "done"} /\ r.flush = "idle"
    /\ r.entered /\ r.buffered # <<>> => r.timer \/ r.draining = "active" \/ r.paused

(* A log of which n events are stored, some are in a drain, and the rest wait;
   the handle h published those that are not stored. *)
Story(h, log, n, drained, buffered) ==
    /\ Len(log) = n + Len(drained) + Len(buffered) /\ Len(log) <= MaxEvents
    /\ \A i \in 1..Len(log) : log[i].seq = i
    /\ \A i \in 1..Len(drained) : drained[i] = log[n + i] /\ drained[i].by = h
    /\ \A i \in 1..Len(buffered) :
          buffered[i] = log[n + Len(drained) + i] /\ buffered[i].by = h

(* A batch that continues n stored events. *)
Batched(h, n, batch) ==
    /\ n + Len(batch) <= MaxEvents
    /\ \A i \in 1..Len(batch) : batch[i].seq = n + i /\ batch[i].by = h

(* The log of a session and how far its handle has stored it. *)
Recorded(h, r) ==
    /\ Story(h, r.log, r.cursor, Drained(r), r.buffered)
    /\ Batched(h, r.cursor, r.batch)
    /\ r.want <= Len(r.log) /\ r.asked <= Len(r.log) /\ r.owed <= Len(r.log)
    /\ r.flush \in {"drained", "op"} \/ (r.flush = "drain" /\ r.draining = "done") =>
          r.want <= r.cursor

(* What a handle knows of the file before and while it writes. *)
Primed(r) ==
    /\ ~r.materialized => r.cursor = 0 /\ ~r.torn /\ r.salvage = <<>>
    /\ r.materialized \/ r.stage \in {"truncate", "rewrite", "write"} => r.lease
    /\ r.phase \in {"unborn", "claimed", "locked", "dead"} =>
          ~r.materialized /\ r.log = <<>> /\ r.batch = <<>>
    /\ r.phase \in {"unborn", "claimed", "dead"} => ~r.lease
    /\ r.phase = "locked" => r.lease
    /\ r.stage = "truncate" <=> r.stage \in {"truncate", "rewrite", "write"} /\ r.torn
    /\ r.stage = "rewrite" => r.salvage # <<>>
    /\ r.stage = "write" => r.salvage = <<>>
    /\ r.salvage # <<>> /\ ~r.torn => r.tornAt = 0
    /\ r.stage # "rest" /\ r.flush = "op" => ~r.materialized

LocalInv(h, r) == Chained(r) /\ Awaited(r) /\ Gathered(r) /\ Recorded(h, r) /\ Primed(r)

(* The file scans, also with what a reader recovers, and keeps the promises. *)
DiskInv ==
    /\ \A i \in 1..Len(stored) : stored[i].seq = i
    /\ \A i \in 1..Len(salvage) : salvage[i].seq = Len(stored) + i
    /\ ~exists => stored = <<>> /\ salvage = <<>> /\ promised = <<>> /\ ~torn
    /\ salvage # <<>> => torn
    /\ Len(promised) <= Len(stored)
    /\ \A i \in 1..Len(promised) : promised[i] = stored[i]

(* The owner's log begins with the file and the events it still has to write
   again, and the torn tail is the one it has not repaired. *)
Owned(h, r) ==
    /\ lock = h <=> r.lease /\ r.phase \notin {"unlocked", "closed"}
    /\ r.materialized \/ r.phase = "locked" => exists
    /\ lock = h /\ r.materialized =>
          /\ r.cursor = Len(stored) + Len(r.salvage)
          /\ \A i \in 1..Len(stored) : stored[i] = r.log[i]
          /\ \A i \in 1..Len(r.salvage) : r.salvage[i] = r.log[Len(stored) + i]
          /\ r.torn => r.tornAt = Len(stored)
          /\ salvage # <<>> => r.torn /\ salvage = r.salvage

(* A life that has not opened the log has no event anywhere, so what it
   recovers from a torn tail is somebody else's. *)
Foreign(h, s) == \A i \in 1..Len(s) : s[i].by # h
Unheard(h, r) ==
    /\ Foreign(h, r.salvage)
    /\ r.phase \in {"unborn", "claimed", "locked"} =>
          /\ Foreign(h, stored) /\ Foreign(h, salvage)
          /\ \A g \in Handles : Foreign(h, handle[g].log)

(* CloseCovers, from the moment close gives up the lock. *)
Covered(h, r) ==
    Left(r) /\ ~r.failed =>
        \A i \in 1..r.owed :
            r.log[i].by = h => i <= Len(stored) /\ stored[i] = r.log[i]

KeptInv ==
    /\ DiskInv
    /\ \A h \in Handles :
          /\ LocalInv(h, handle[h])
          /\ Owned(h, handle[h]) /\ Unheard(h, handle[h]) /\ Covered(h, handle[h])
=============================================================================
