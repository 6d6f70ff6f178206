------------------------- MODULE JsonlHandleProofs -------------------------
(***************************************************************************)
(* Proofs about the write handles of a stored session, for any number of   *)
(* lives, processes, events, failed operations and crashes.                *)
(*                                                                         *)
(* KeptInv (JsonlHandle.tla) is the inductive invariant.  Its parts about  *)
(* one handle (LocalInv) are functions of the handle's state: the ...Keeps *)
(* lemmas prove them for every function the actions are made of, and the   *)
(* ...Fields lemmas before them say what those functions leave alone.  Its *)
(* parts about the file and the other lives (DiskInv, Owned, Unheard,      *)
(* Covered) are proved per action, in the ...Kept lemmas: Quiet is the     *)
(* step of a handle that touches nothing shared, Arrived that of one that  *)
(* opens, Wrote that of the holder of the lock, and Moved what all share.  *)
(***************************************************************************)
EXTENDS JsonlHandle, SequenceTheorems, TLAPS

(* The five chains differ, and what is in front and behind in each. *)
LEMMA Queues ==
    /\ <<>> \in Chain /\ <<"append">> \in Chain /\ <<"drain">> \in Chain
    /\ <<"flush">> \in Chain /\ <<"flush", "drain">> \in Chain
    /\ <<"append">> # <<>> /\ <<"drain">> # <<>> /\ <<"flush">> # <<>>
    /\ <<"flush", "drain">> # <<>>
    /\ <<"append">> # <<"drain">> /\ <<"append">> # <<"flush">> /\ <<"drain">> # <<"flush">>
    /\ <<"append">> # <<"flush", "drain">> /\ <<"drain">> # <<"flush", "drain">>
    /\ <<"flush">> # <<"flush", "drain">>
    /\ Head(<<"append">>) = "append" /\ Head(<<"drain">>) = "drain"
    /\ Head(<<"flush">>) = "flush" /\ Head(<<"flush", "drain">>) = "flush"
    /\ Tail(<<"append">>) = <<>> /\ Tail(<<"drain">>) = <<>> /\ Tail(<<"flush">>) = <<>>
    /\ Tail(<<"flush", "drain">>) = <<"drain">>
    /\ Append(<<>>, "drain") = <<"drain">> /\ Append(<<>>, "flush") = <<"flush">>
    /\ Append(<<"flush">>, "drain") = <<"flush", "drain">>
<1>1. /\ <<>> \in Chain /\ <<"append">> \in Chain /\ <<"drain">> \in Chain
      /\ <<"flush">> \in Chain /\ <<"flush", "drain">> \in Chain
    BY DEF Chain, Operations
<1>2. /\ <<"append">> # <<>> /\ <<"drain">> # <<>> /\ <<"flush">> # <<>>
      /\ <<"flush", "drain">> # <<>>
    OBVIOUS
<1>3. /\ <<"append">> # <<"drain">> /\ <<"append">> # <<"flush">> /\ <<"drain">> # <<"flush">>
      /\ <<"append">> # <<"flush", "drain">> /\ <<"drain">> # <<"flush", "drain">>
      /\ <<"flush">> # <<"flush", "drain">>
    OBVIOUS
<1>4. /\ Head(<<"append">>) = "append" /\ Head(<<"drain">>) = "drain"
      /\ Head(<<"flush">>) = "flush" /\ Head(<<"flush", "drain">>) = "flush"
    OBVIOUS
<1>5. Tail(<<"append">>) = <<>> /\ Tail(<<"drain">>) = <<>> /\ Tail(<<"flush">>) = <<>>
    OBVIOUS
<1>6. Tail(<<"flush", "drain">>) = <<"drain">>
    OBVIOUS
<1>7. Append(<<>>, "drain") = <<"drain">> /\ Append(<<>>, "flush") = <<"flush">>
    OBVIOUS
<1>8. Append(<<"flush">>, "drain") = <<"flush", "drain">>
    <2>1. <<"flush">> \in Seq(Operations) /\ "drain" \in Operations
          /\ <<"flush", "drain">> \in Seq(Operations)
        BY DEF Operations
    <2> DEFINE a == Append(<<"flush">>, "drain")
    <2>2. a \in Seq(Operations) /\ Len(a) = 2 /\ a[1] = "flush" /\ a[2] = "drain"
        BY <2>1, AppendProperties
    <2> HIDE DEF a
    <2>3. a = <<"flush", "drain">>
        BY <2>1, <2>2, SeqEqual
    <2> QED BY <2>3 DEF a
<1> QED BY <1>1, <1>2, <1>3, <1>4, <1>5, <1>6, <1>7, <1>8

(* The values that operations put into a handle. *)
LEMMA Typed ==
    /\ <<>> \in Events /\ 0 \in Count /\ 0 \in 0..2
    /\ "idle" \in Waits /\ "op" \in Waits /\ "drain" \in Waits /\ "drained" \in Waits
    /\ "none" \in DrainStates /\ "active" \in DrainStates
    /\ "done" \in DrainStates /\ "failed" \in DrainStates
    /\ "rest" \in Stages /\ "lock" \in Stages /\ "truncate" \in Stages
    /\ "rewrite" \in Stages /\ "write" \in Stages
    /\ "unborn" \in Phases /\ "claimed" \in Phases /\ "locked" \in Phases /\ "open" \in Phases
    /\ "stored" \in Phases /\ "broken" \in Phases /\ "live" \in Phases
    /\ "closeDrain" \in Phases /\ "closeWake" \in Phases /\ "closeChain" \in Phases
    /\ "releasing" \in Phases
    /\ "unlocked" \in Phases /\ "closed" \in Phases /\ "dead" \in Phases
    /\ TRUE \in BOOLEAN /\ FALSE \in BOOLEAN
BY HandlesAssumption DEF Events, Count, Waits, DrainStates, Stages, Phases

(* What a handle knows of the file, and the log of its session. *)
SameFile(r, s) ==
    /\ s.materialized = r.materialized /\ s.torn = r.torn /\ s.tornAt = r.tornAt
    /\ s.salvage = r.salvage /\ s.lease = r.lease
SameLog(r, s) ==
    /\ s.log = r.log /\ s.owed = r.owed /\ s.entered = r.entered
SameBuffer(r, s) ==
    /\ s.buffered = r.buffered /\ s.draining = r.draining /\ s.timer = r.timer
    /\ s.paused = r.paused
SameCallers(r, s) ==
    /\ s.phase = r.phase /\ s.flush = r.flush /\ s.asked = r.asked /\ s.want = r.want
    /\ s.failed = r.failed

(* What close still waits for when one operation of the chain is over. *)
Fewer(r) == IF r.ahead = 0 THEN 0 ELSE r.ahead - 1

(* The head of the chain ends: everything else stays. *)
LEMMA RestFields ==
    ASSUME NEW r \in HandleState, Tail(r.queue) \in Chain
    PROVE  LET s == Rest(r) IN
           /\ s \in HandleState
           /\ s.queue = Tail(r.queue) /\ s.stage = "rest" /\ s.batch = <<>>
           /\ s.cursor = r.cursor /\ s.ahead = Fewer(r)
           /\ SameFile(r, s) /\ SameLog(r, s) /\ SameBuffer(r, s) /\ SameCallers(r, s)
<1> DEFINE a == IF r.ahead = 0 THEN 0 ELSE r.ahead - 1
           s == [r EXCEPT !.queue = Tail(@), !.stage = "rest", !.batch = <<>>, !.ahead = a]
<1>1. Rest(r) = s
    <2>1. Rest(r) = [r EXCEPT !.queue = Tail(@), !.stage = "rest", !.batch = <<>>,
                              !.ahead = IF @ = 0 THEN 0 ELSE @ - 1]
        BY DEF Rest
    <2> QED BY <2>1
<1>2. a \in 0..2
    <2>1. r.ahead \in 0..2
        BY DEF HandleState
    <2> QED BY <2>1
<1>3. a = Fewer(r)
    BY DEF Fewer
<1> HIDE DEF a
<1>4. s \in HandleState
    BY <1>2, Typed, ZenonT(20) DEF HandleState
<1>5. /\ s.queue = Tail(r.queue) /\ s.stage = "rest" /\ s.batch = <<>>
      /\ s.cursor = r.cursor /\ s.ahead = a
      /\ SameFile(r, s) /\ SameLog(r, s) /\ SameBuffer(r, s) /\ SameCallers(r, s)
    BY DEF HandleState, SameFile, SameLog, SameBuffer, SameCallers
<1> HIDE DEF s
<1> QED BY <1>1, <1>3, <1>4, <1>5

(* drainLive joins the drain that is there or starts one, which is over at
   once if nothing is buffered. *)
LEMMA DrainLiveFields ==
    ASSUME NEW r \in HandleState, Append(r.queue, "drain") \in Chain
    PROVE  LET s == DrainLive(r)
               starts == r.draining = "none" /\ r.buffered # <<>> IN
           /\ s \in HandleState
           /\ s.stage = r.stage /\ s.batch = r.batch /\ s.cursor = r.cursor
           /\ s.ahead = r.ahead
           /\ SameFile(r, s) /\ SameLog(r, s) /\ SameCallers(r, s)
           /\ s.buffered = r.buffered
           /\ s.timer = (r.timer /\ r.draining # "none")
           /\ s.paused = (r.paused /\ r.draining # "none")
           /\ s.draining = IF r.draining # "none" THEN r.draining
                           ELSE IF r.buffered = <<>> THEN "done" ELSE "active"
           /\ s.queue = IF starts THEN Append(r.queue, "drain") ELSE r.queue
<1> DEFINE d == [r EXCEPT !.timer = FALSE, !.paused = FALSE,
                          !.draining = IF r.buffered = <<>> THEN "done" ELSE "active",
                          !.queue = IF r.buffered = <<>> THEN @ ELSE Append(@, "drain")]
<1>1. d \in HandleState
    BY Typed, ZenonT(20) DEF HandleState
<1>2. /\ d.stage = r.stage /\ d.batch = r.batch /\ d.cursor = r.cursor /\ d.ahead = r.ahead
      /\ SameFile(r, d) /\ SameLog(r, d) /\ SameCallers(r, d)
      /\ d.buffered = r.buffered /\ d.timer = FALSE /\ d.paused = FALSE
      /\ d.draining = IF r.buffered = <<>> THEN "done" ELSE "active"
      /\ d.queue = IF r.buffered = <<>> THEN r.queue ELSE Append(r.queue, "drain")
    BY DEF HandleState, SameFile, SameLog, SameCallers
<1>3. DrainLive(r) = IF r.draining # "none" THEN r ELSE d
    BY Zenon DEF DrainLive
<1>4. SameFile(r, r) /\ SameLog(r, r) /\ SameCallers(r, r)
      /\ r.timer \in BOOLEAN /\ r.paused \in BOOLEAN
    BY DEF SameFile, SameLog, SameCallers, HandleState
<1> HIDE DEF d
<1> QED BY <1>1, <1>2, <1>3, <1>4

(* A drain that fails gives its batch back and pauses. *)
LEMMA FailedDrainFields ==
    ASSUME NEW r \in HandleState, r.queue = <<"drain">>, r.batch \o r.buffered \in Events
    PROVE  LET s == OpFailed(r) IN
           /\ s \in HandleState
           /\ s.queue = <<>> /\ s.stage = "rest" /\ s.batch = <<>> /\ s.cursor = r.cursor
           /\ s.ahead = Fewer(r)
           /\ SameFile(r, s) /\ SameLog(r, s) /\ SameCallers(r, s)
           /\ s.buffered = r.batch \o r.buffered /\ s.draining = "failed"
           /\ s.timer = r.timer /\ s.paused = TRUE
<1> DEFINE q == Rest(r)
           d == [q EXCEPT !.buffered = r.batch \o @, !.paused = TRUE, !.draining = "failed"]
<1>1. OpFailed(r) = d
    BY Queues, Zenon DEF OpFailed
<1>2. /\ q \in HandleState
      /\ q.queue = <<>> /\ q.stage = "rest" /\ q.batch = <<>> /\ q.cursor = r.cursor
      /\ q.ahead = Fewer(r)
      /\ SameFile(r, q) /\ SameLog(r, q) /\ SameBuffer(r, q) /\ SameCallers(r, q)
    <2>1. Tail(r.queue) = <<>> /\ Tail(r.queue) \in Chain
        BY Queues
    <2> QED BY <2>1, RestFields
<1>3. d \in HandleState
    <2>1. q.buffered = r.buffered
        BY <1>2 DEF SameBuffer
    <2> HIDE DEF q
    <2> QED BY <1>2, <2>1, Typed, ZenonT(20) DEF HandleState
<1>4. /\ d.queue = q.queue /\ d.stage = q.stage /\ d.batch = q.batch /\ d.cursor = q.cursor
      /\ d.ahead = q.ahead
      /\ SameFile(q, d) /\ SameLog(q, d) /\ SameCallers(q, d) /\ d.timer = q.timer
      /\ d.buffered = r.batch \o q.buffered /\ d.paused = TRUE /\ d.draining = "failed"
    <2> HIDE DEF q
    <2> QED BY <1>2 DEF HandleState, SameFile, SameLog, SameCallers
<1> HIDE DEF q, d
<1> QED BY <1>1, <1>2, <1>3, <1>4 DEF SameFile, SameLog, SameBuffer, SameCallers

(* A suffix that fails ends the creation. *)
LEMMA FailedAppendFields ==
    ASSUME NEW r \in HandleState, r.queue = <<"append">>
    PROVE  LET s == OpFailed(r) IN
           /\ s \in HandleState
           /\ s.queue = <<>> /\ s.stage = "rest" /\ s.batch = <<>> /\ s.cursor = r.cursor
           /\ s.ahead = Fewer(r)
           /\ SameFile(r, s) /\ SameLog(r, s) /\ SameBuffer(r, s)
           /\ s.flush = r.flush /\ s.asked = r.asked /\ s.want = r.want
           /\ s.failed = r.failed
           /\ s.phase = IF Closing(r) THEN r.phase ELSE "broken"
<1> DEFINE q == Rest(r)
           p == IF Closing(r) THEN r.phase ELSE "broken"
           d == [q EXCEPT !.phase = p]
<1>1. /\ q \in HandleState
      /\ q.queue = <<>> /\ q.stage = "rest" /\ q.batch = <<>> /\ q.cursor = r.cursor
      /\ q.ahead = Fewer(r)
      /\ SameFile(r, q) /\ SameLog(r, q) /\ SameBuffer(r, q) /\ SameCallers(r, q)
    <2>1. Tail(r.queue) = <<>> /\ Tail(r.queue) \in Chain
        BY Queues
    <2> QED BY <2>1, RestFields
<1>2. OpFailed(r) = d
    BY Queues, <1>1, Zenon DEF OpFailed, SameCallers
<1>3. p \in Phases
    BY Typed DEF HandleState
<1> HIDE DEF q, p
<1>4. d \in HandleState
    BY <1>1, <1>3, ZenonT(20) DEF HandleState
<1>5. /\ d.queue = q.queue /\ d.stage = q.stage /\ d.batch = q.batch /\ d.cursor = q.cursor
      /\ d.ahead = q.ahead
      /\ SameFile(q, d) /\ SameLog(q, d) /\ SameBuffer(q, d)
      /\ d.flush = q.flush /\ d.asked = q.asked /\ d.want = q.want
      /\ d.failed = q.failed /\ d.phase = p
    BY <1>1 DEF HandleState, SameFile, SameLog, SameBuffer
<1>6. p = IF Closing(r) THEN r.phase ELSE "broken"
    BY DEF p
<1> HIDE DEF d
<1> QED
    BY <1>1, <1>2, <1>4, <1>5, <1>6 DEF SameFile, SameLog, SameBuffer, SameCallers

(* A flush that is refused is told, and so is one that is done. *)
LEMMA EndFlushFields ==
    ASSUME NEW r \in HandleState, Head(r.queue) = "flush", Tail(r.queue) \in Chain
    PROVE  LET s == Flushed(r) IN
           /\ OpFailed(r) = s
           /\ s \in HandleState
           /\ s.queue = Tail(r.queue) /\ s.stage = "rest" /\ s.batch = <<>>
           /\ s.cursor = r.cursor /\ s.ahead = Fewer(r)
           /\ SameFile(r, s) /\ SameLog(r, s) /\ SameBuffer(r, s)
           /\ s.flush = "idle" /\ s.asked = 0 /\ s.want = 0
           /\ s.failed = r.failed /\ s.phase = r.phase
<1> DEFINE q == Rest(r)
           d == [q EXCEPT !.flush = "idle", !.asked = 0, !.want = 0]
<1>1. /\ q \in HandleState
      /\ q.queue = Tail(r.queue) /\ q.stage = "rest" /\ q.batch = <<>> /\ q.cursor = r.cursor
      /\ q.ahead = Fewer(r)
      /\ SameFile(r, q) /\ SameLog(r, q) /\ SameBuffer(r, q) /\ SameCallers(r, q)
    BY RestFields
<1>2. Flushed(r) = d
    BY Zenon DEF Flushed
<1>3. OpFailed(r) = Flushed(r)
    BY Zenon DEF OpFailed
<1> HIDE DEF q
<1>4. d \in HandleState
    BY <1>1, Typed, ZenonT(20) DEF HandleState
<1>5. /\ d.queue = q.queue /\ d.stage = q.stage /\ d.batch = q.batch /\ d.cursor = q.cursor
      /\ d.ahead = q.ahead
      /\ SameFile(q, d) /\ SameLog(q, d) /\ SameBuffer(q, d)
      /\ d.flush = "idle" /\ d.asked = 0 /\ d.want = 0
      /\ d.failed = q.failed /\ d.phase = q.phase
    BY <1>1 DEF HandleState, SameFile, SameLog, SameBuffer
<1> HIDE DEF d
<1> QED
    BY <1>1, <1>2, <1>3, <1>4, <1>5 DEF SameFile, SameLog, SameBuffer, SameCallers

(* What a head operation leaves that stored its batch. *)
Stored(r) == [Rest(r) EXCEPT !.cursor = @ + Len(r.batch), !.materialized = TRUE]

(* The head operation succeeded: the cursor moves past its batch. *)
LEMMA StoredFields ==
    ASSUME NEW r \in HandleState, Tail(r.queue) \in Chain, r.cursor + Len(r.batch) \in Count
    PROVE  LET s == Stored(r) IN
           /\ s \in HandleState
           /\ s.queue = Tail(r.queue) /\ s.stage = "rest" /\ s.batch = <<>>
           /\ s.cursor = r.cursor + Len(r.batch) /\ s.materialized = TRUE
           /\ s.torn = r.torn /\ s.tornAt = r.tornAt /\ s.salvage = r.salvage
           /\ s.lease = r.lease /\ s.ahead = Fewer(r)
           /\ SameLog(r, s) /\ SameBuffer(r, s) /\ SameCallers(r, s)
<1> DEFINE q == Rest(r)
           d == [q EXCEPT !.cursor = @ + Len(r.batch), !.materialized = TRUE]
<1>1. /\ q \in HandleState
      /\ q.queue = Tail(r.queue) /\ q.stage = "rest" /\ q.batch = <<>> /\ q.cursor = r.cursor
      /\ q.ahead = Fewer(r)
      /\ SameFile(r, q) /\ SameLog(r, q) /\ SameBuffer(r, q) /\ SameCallers(r, q)
    BY RestFields
<1>2. d \in HandleState
    <2>1. q.cursor + Len(r.batch) \in Count
        BY <1>1
    <2> HIDE DEF q
    <2> QED BY <1>1, <2>1, Typed, ZenonT(20) DEF HandleState
<1> HIDE DEF q
<1>3. /\ d.queue = q.queue /\ d.stage = q.stage /\ d.batch = q.batch
      /\ d.cursor = q.cursor + Len(r.batch) /\ d.materialized = TRUE
      /\ d.torn = q.torn /\ d.tornAt = q.tornAt /\ d.salvage = q.salvage
      /\ d.lease = q.lease /\ d.ahead = q.ahead
      /\ SameLog(q, d) /\ SameBuffer(q, d) /\ SameCallers(q, d)
    BY <1>1 DEF HandleState, SameLog, SameBuffer, SameCallers
<1>4. Stored(r) = d
    BY DEF q, Stored
<1> HIDE DEF d
<1> QED
    BY <1>1, <1>2, <1>3, <1>4 DEF SameFile, SameLog, SameBuffer, SameCallers

(* A drain goes on with what was buffered meanwhile. *)
LEMMA DrainGoesOnFields ==
    ASSUME NEW r \in HandleState, r.queue = <<"drain">>, r.cursor + Len(r.batch) \in Count,
           r.buffered # <<>>
    PROVE  LET s == OpDone(r) IN
           /\ s \in HandleState
           /\ s.queue = <<"drain">> /\ s.stage = "rest" /\ s.batch = <<>>
           /\ s.cursor = r.cursor + Len(r.batch) /\ s.materialized = TRUE
           /\ s.torn = r.torn /\ s.tornAt = r.tornAt /\ s.salvage = r.salvage
           /\ s.lease = r.lease /\ s.ahead = Fewer(r)
           /\ SameLog(r, s) /\ SameBuffer(r, s) /\ SameCallers(r, s)
<1> DEFINE q == Stored(r)
           d == [q EXCEPT !.queue = Append(@, "drain")]
<1>1. /\ Tail(r.queue) = <<>> /\ Tail(r.queue) \in Chain /\ Head(r.queue) = "drain"
      /\ Append(<<>>, "drain") = <<"drain">> /\ <<"drain">> \in Chain
    BY Queues
<1>2. /\ q \in HandleState
      /\ q.queue = <<>> /\ q.stage = "rest" /\ q.batch = <<>>
      /\ q.cursor = r.cursor + Len(r.batch) /\ q.materialized = TRUE
      /\ q.torn = r.torn /\ q.tornAt = r.tornAt /\ q.salvage = r.salvage
      /\ q.lease = r.lease /\ q.ahead = Fewer(r)
      /\ SameLog(r, q) /\ SameBuffer(r, q) /\ SameCallers(r, q)
    BY <1>1, StoredFields
<1>3. OpDone(r) = d
    BY <1>1, Zenon DEF OpDone, Stored
<1> HIDE DEF q
<1>4. d \in HandleState
    <2>1. Append(q.queue, "drain") \in Chain
        BY <1>1, <1>2
    <2> QED BY <1>2, <2>1, ZenonT(20) DEF HandleState
<1>5. /\ d.queue = Append(q.queue, "drain") /\ d.stage = q.stage /\ d.batch = q.batch
      /\ d.cursor = q.cursor /\ d.ahead = q.ahead /\ SameFile(q, d)
      /\ SameLog(q, d) /\ SameBuffer(q, d) /\ SameCallers(q, d)
    BY <1>2 DEF HandleState, SameFile, SameLog, SameBuffer, SameCallers
<1> HIDE DEF d
<1> QED
    BY <1>1, <1>2, <1>3, <1>4, <1>5 DEF SameFile, SameLog, SameBuffer, SameCallers

(* A drain that finds nothing more to store is over, and not cleared yet. *)
LEMMA DrainOverFields ==
    ASSUME NEW r \in HandleState, r.queue = <<"drain">>, r.cursor + Len(r.batch) \in Count,
           r.buffered = <<>>
    PROVE  LET s == OpDone(r) IN
           /\ s \in HandleState
           /\ s.queue = <<>> /\ s.stage = "rest" /\ s.batch = <<>>
           /\ s.cursor = r.cursor + Len(r.batch) /\ s.materialized = TRUE
           /\ s.torn = r.torn /\ s.tornAt = r.tornAt /\ s.salvage = r.salvage
           /\ s.lease = r.lease /\ s.ahead = Fewer(r)
           /\ SameLog(r, s) /\ SameCallers(r, s)
           /\ s.buffered = <<>> /\ s.draining = "done" /\ s.timer = r.timer
           /\ s.paused = r.paused
<1> DEFINE q == Stored(r)
           d == [q EXCEPT !.draining = "done"]
<1>1. Tail(r.queue) = <<>> /\ Tail(r.queue) \in Chain /\ Head(r.queue) = "drain"
    BY Queues
<1>2. /\ q \in HandleState
      /\ q.queue = <<>> /\ q.stage = "rest" /\ q.batch = <<>>
      /\ q.cursor = r.cursor + Len(r.batch) /\ q.materialized = TRUE
      /\ q.torn = r.torn /\ q.tornAt = r.tornAt /\ q.salvage = r.salvage
      /\ q.lease = r.lease /\ q.ahead = Fewer(r)
      /\ SameLog(r, q) /\ SameBuffer(r, q) /\ SameCallers(r, q)
    BY <1>1, StoredFields
<1>3. OpDone(r) = d
    BY <1>1, Zenon DEF OpDone, Stored
<1> HIDE DEF q
<1>4. d \in HandleState
    BY <1>2, Typed, ZenonT(20) DEF HandleState
<1>5. /\ d.queue = q.queue /\ d.stage = q.stage /\ d.batch = q.batch
      /\ d.cursor = q.cursor /\ d.ahead = q.ahead
      /\ SameFile(q, d) /\ SameLog(q, d) /\ SameCallers(q, d)
      /\ d.buffered = q.buffered /\ d.draining = "done" /\ d.timer = q.timer
      /\ d.paused = q.paused
    BY <1>2 DEF HandleState, SameFile, SameLog, SameCallers
<1> HIDE DEF d
<1> QED
    BY <1>2, <1>3, <1>4, <1>5 DEF SameFile, SameLog, SameBuffer, SameCallers

(* A suffix that is stored joins the log. *)
LEMMA DoneAppendFields ==
    ASSUME NEW r \in HandleState, r.queue = <<"append">>, r.cursor + Len(r.batch) \in Count,
           r.log \o r.batch \in Events
    PROVE  LET s == OpDone(r) IN
           /\ s \in HandleState
           /\ s.queue = <<>> /\ s.stage = "rest" /\ s.batch = <<>>
           /\ s.cursor = r.cursor + Len(r.batch) /\ s.materialized = TRUE
           /\ s.torn = r.torn /\ s.tornAt = r.tornAt /\ s.salvage = r.salvage
           /\ s.lease = r.lease /\ s.ahead = Fewer(r)
           /\ s.log = r.log \o r.batch /\ s.owed = r.owed /\ s.entered = r.entered
           /\ SameBuffer(r, s)
           /\ s.flush = r.flush /\ s.asked = r.asked /\ s.want = r.want
           /\ s.failed = r.failed
           /\ s.phase = IF Closing(r) THEN r.phase ELSE "stored"
<1> DEFINE q == Stored(r)
           p == IF Closing(r) THEN r.phase ELSE "stored"
           d == [q EXCEPT !.log = @ \o r.batch, !.phase = p]
<1>1. Tail(r.queue) = <<>> /\ Tail(r.queue) \in Chain /\ Head(r.queue) = "append"
    BY Queues
<1>2. /\ q \in HandleState
      /\ q.queue = <<>> /\ q.stage = "rest" /\ q.batch = <<>>
      /\ q.cursor = r.cursor + Len(r.batch) /\ q.materialized = TRUE
      /\ q.torn = r.torn /\ q.tornAt = r.tornAt /\ q.salvage = r.salvage
      /\ q.lease = r.lease /\ q.ahead = Fewer(r)
      /\ SameLog(r, q) /\ SameBuffer(r, q) /\ SameCallers(r, q)
    BY <1>1, StoredFields
<1>3. OpDone(r) = d
    BY <1>1, <1>2, Zenon DEF OpDone, Stored, SameCallers
<1>4. p \in Phases
    BY Typed DEF HandleState
<1> HIDE DEF q, p
<1>5. d \in HandleState
    <2>1. q.log \o r.batch \in Events
        BY <1>2 DEF SameLog
    <2> QED BY <1>2, <1>4, <2>1, ZenonT(20) DEF HandleState
<1>6. /\ d.queue = q.queue /\ d.stage = q.stage /\ d.batch = q.batch
      /\ d.cursor = q.cursor /\ d.ahead = q.ahead /\ SameFile(q, d) /\ SameBuffer(q, d)
      /\ d.log = q.log \o r.batch /\ d.owed = q.owed /\ d.entered = q.entered
      /\ d.flush = q.flush /\ d.asked = q.asked /\ d.want = q.want
      /\ d.failed = q.failed /\ d.phase = p
    BY <1>2 DEF HandleState, SameFile, SameBuffer
<1>7. p = IF Closing(r) THEN r.phase ELSE "stored"
    BY DEF p
<1> HIDE DEF d
<1> QED
    BY <1>2, <1>3, <1>5, <1>6, <1>7 DEF SameFile, SameLog, SameBuffer, SameCallers

(* A flush that has published a header is over. *)
LEMMA DoneFlushFields ==
    ASSUME NEW r \in HandleState, Head(r.queue) = "flush", Tail(r.queue) \in Chain,
           r.cursor + Len(r.batch) \in Count
    PROVE  LET s == OpDone(r) IN
           /\ s \in HandleState
           /\ s.queue = Tail(r.queue) /\ s.stage = "rest" /\ s.batch = <<>>
           /\ s.cursor = r.cursor + Len(r.batch) /\ s.materialized = TRUE
           /\ s.torn = r.torn /\ s.tornAt = r.tornAt /\ s.salvage = r.salvage
           /\ s.lease = r.lease /\ s.ahead = Fewer(r)
           /\ SameLog(r, s) /\ SameBuffer(r, s)
           /\ s.flush = "idle" /\ s.asked = 0 /\ s.want = 0
           /\ s.failed = r.failed /\ s.phase = r.phase
<1> DEFINE q == Stored(r)
           d == [q EXCEPT !.flush = "idle", !.asked = 0, !.want = 0]
<1>1. /\ q \in HandleState
      /\ q.queue = Tail(r.queue) /\ q.stage = "rest" /\ q.batch = <<>>
      /\ q.cursor = r.cursor + Len(r.batch) /\ q.materialized = TRUE
      /\ q.torn = r.torn /\ q.tornAt = r.tornAt /\ q.salvage = r.salvage
      /\ q.lease = r.lease /\ q.ahead = Fewer(r)
      /\ SameLog(r, q) /\ SameBuffer(r, q) /\ SameCallers(r, q)
    BY StoredFields
<1>2. OpDone(r) = d
    BY Zenon DEF OpDone, Stored
<1> HIDE DEF q
<1>3. d \in HandleState
    BY <1>1, Typed, ZenonT(20) DEF HandleState
<1>4. /\ d.queue = q.queue /\ d.stage = q.stage /\ d.batch = q.batch
      /\ d.cursor = q.cursor /\ d.ahead = q.ahead
      /\ SameFile(q, d) /\ SameLog(q, d) /\ SameBuffer(q, d)
      /\ d.flush = "idle" /\ d.asked = 0 /\ d.want = 0
      /\ d.failed = q.failed /\ d.phase = q.phase
    BY <1>1 DEF HandleState, SameFile, SameLog, SameBuffer
<1> HIDE DEF d
<1> QED
    BY <1>1, <1>2, <1>3, <1>4 DEF SameFile, SameLog, SameBuffer, SameCallers

(* A contiguous batch goes to the file, through the repair if one is due. *)
LEMMA LockedFields ==
    ASSUME NEW r \in HandleState, Head(r.queue) = "flush" \/ ~Gap(r)
    PROVE  LET s == Locked(r) IN
           /\ s \in HandleState
           /\ s.queue = r.queue /\ s.batch = r.batch /\ s.cursor = r.cursor
           /\ s.ahead = r.ahead
           /\ s.stage = IF Head(r.queue) = "flush" THEN "write" ELSE Repair(r)
           /\ SameFile(r, s) /\ SameLog(r, s) /\ SameBuffer(r, s) /\ SameCallers(r, s)
<1> DEFINE p == IF Head(r.queue) = "flush" THEN "write" ELSE Repair(r)
           d == [r EXCEPT !.stage = p]
<1>1. Locked(r) = d
    BY Zenon DEF Locked
<1>2. p \in Stages
    BY Typed DEF Repair
<1>3. p = IF Head(r.queue) = "flush" THEN "write" ELSE Repair(r)
    OBVIOUS
<1> HIDE DEF p
<1>4. d \in HandleState
    BY <1>2, ZenonT(20) DEF HandleState
<1>5. /\ d.queue = r.queue /\ d.batch = r.batch /\ d.cursor = r.cursor /\ d.stage = p
      /\ d.ahead = r.ahead
      /\ SameFile(r, d) /\ SameLog(r, d) /\ SameBuffer(r, d) /\ SameCallers(r, d)
    BY DEF HandleState, SameFile, SameLog, SameBuffer, SameCallers
<1> HIDE DEF d
<1> QED BY <1>1, <1>3, <1>4, <1>5

-----------------------------------------------------------------------------
(* What a handle state keeps of LocalInv, one operation at a time *)

(* The types of the fields. *)
LEMMA Fields ==
    ASSUME NEW r \in HandleState
    PROVE  /\ r.log \in Events /\ r.buffered \in Events /\ r.batch \in Events
           /\ r.salvage \in Events /\ r.queue \in Chain
           /\ Len(r.log) \in Nat /\ Len(r.buffered) \in Nat /\ Len(r.batch) \in Nat
           /\ Len(r.salvage) \in Nat
           /\ r.cursor \in Count /\ r.tornAt \in Count /\ r.want \in Count /\ r.owed \in Count
           /\ r.asked \in Count /\ r.asked \in Nat /\ r.ahead \in 0..2
           /\ r.cursor \in Nat /\ r.tornAt \in Nat /\ r.want \in Nat /\ r.owed \in Nat
           /\ r.cursor <= MaxEvents /\ MaxEvents \in Nat
           /\ r.phase \in Phases /\ r.stage \in Stages /\ r.flush \in Waits
           /\ r.draining \in DrainStates /\ r.timer \in BOOLEAN /\ r.paused \in BOOLEAN
           /\ r.entered \in BOOLEAN /\ r.materialized \in BOOLEAN /\ r.torn \in BOOLEAN
           /\ r.lease \in BOOLEAN /\ r.failed \in BOOLEAN
<1>1. /\ r.log \in Events /\ r.buffered \in Events /\ r.batch \in Events
      /\ r.salvage \in Events /\ r.queue \in Chain
      /\ r.cursor \in Count /\ r.tornAt \in Count /\ r.want \in Count /\ r.owed \in Count
      /\ r.asked \in Count /\ r.ahead \in 0..2
      /\ r.phase \in Phases /\ r.stage \in Stages /\ r.flush \in Waits
      /\ r.draining \in DrainStates /\ r.timer \in BOOLEAN /\ r.paused \in BOOLEAN
      /\ r.entered \in BOOLEAN /\ r.materialized \in BOOLEAN /\ r.torn \in BOOLEAN
      /\ r.lease \in BOOLEAN /\ r.failed \in BOOLEAN
    BY DEF HandleState
<1>2. \A e \in Events : Len(e) \in Nat
    BY DEF Events
<1>3. MaxEvents \in Nat /\ \A n \in Count : n \in Nat /\ n <= MaxEvents
    BY HandlesAssumption DEF Count
<1> QED BY <1>1, <1>2, <1>3

(* Nothing in a row. *)
LEMMA NoEvents ==
    /\ <<>> \in Events /\ Len(<<>>) = 0
    /\ \A a \in Events : Len(a) \in Nat /\ (Len(a) = 0 <=> a = <<>>)
BY DEF Events

(* A handle has stored no more than its session published. *)
LEMMA Reached ==
    ASSUME NEW h, NEW r \in HandleState, LocalInv(h, r)
    PROVE  /\ r.cursor <= Len(r.log) /\ r.owed <= Len(r.log) /\ r.want <= Len(r.log)
           /\ r.asked <= Len(r.log)
<1>1. Len(Drained(r)) \in Nat /\ Len(r.buffered) \in Nat /\ Len(r.log) \in Nat
      /\ r.cursor \in Nat
    BY Fields, NoEvents DEF Drained
<1>2. Len(r.log) = r.cursor + Len(Drained(r)) + Len(r.buffered)
    BY DEF LocalInv, Recorded, Story
<1>3. r.owed <= Len(r.log) /\ r.want <= Len(r.log) /\ r.asked <= Len(r.log)
    BY DEF LocalInv, Recorded
<1> QED BY <1>1, <1>2, <1>3

(* Events in a row. *)
LEMMA Joined ==
    ASSUME NEW a \in Events, NEW b \in Events
    PROVE  /\ a \o b \in Events /\ Len(a \o b) = Len(a) + Len(b)
           /\ \A i \in 1..Len(a) : (a \o b)[i] = a[i]
           /\ \A i \in 1..Len(b) : (a \o b)[Len(a) + i] = b[i]
           /\ Len(a) \in Nat /\ Len(b) \in Nat /\ Len(a \o b) \in Nat
           /\ Len(a) <= Len(a \o b) /\ \A n \in 0..Len(a) : n <= Len(a \o b)
<1>1. Len(a) \in Nat /\ Len(b) \in Nat /\ a \in Seq(Event) /\ b \in Seq(Event)
    BY DEF Events
<1>2. /\ a \o b \in Events /\ Len(a \o b) = Len(a) + Len(b)
      /\ \A i \in 1..Len(a) + Len(b) :
            (a \o b)[i] = IF i <= Len(a) THEN a[i] ELSE b[i - Len(a)]
    BY <1>1, ConcatProperties DEF Events
<1> QED BY <1>1, <1>2

(* The batch of a drain comes back in front of the buffer. *)
LEMMA StoryBack ==
    ASSUME NEW h, NEW log \in Events, NEW n \in Nat, NEW batch \in Events,
           NEW buffered \in Events, Story(h, log, n, batch, buffered)
    PROVE  Story(h, log, n, <<>>, batch \o buffered)
<1> DEFINE b == batch \o buffered
<1>1. /\ Len(b) = Len(batch) + Len(buffered)
      /\ \A i \in 1..Len(batch) : b[i] = batch[i]
      /\ \A i \in 1..Len(buffered) : b[Len(batch) + i] = buffered[i]
      /\ Len(batch) \in Nat /\ Len(buffered) \in Nat /\ Len(<<>>) = 0
    BY Joined, NoEvents
<1> HIDE DEF b
<1>2. ASSUME NEW i \in 1..Len(b)
      PROVE  b[i] = log[n + i] /\ b[i].by = h
    <2>1. CASE i \in 1..Len(batch)
        BY <2>1, <1>1 DEF Story
    <2>2. CASE i \notin 1..Len(batch)
        <3>1. PICK j \in 1..Len(buffered) : i = Len(batch) + j
            <4>1. i - Len(batch) \in 1..Len(buffered) /\ i = Len(batch) + (i - Len(batch))
                BY <2>2, <1>1
            <4> QED BY <4>1
        <3>2. n + i = n + Len(batch) + j
            BY <3>1, <1>1
        <3> QED BY <3>1, <3>2, <1>1 DEF Story
    <2> QED BY <2>1, <2>2
<1>3. Len(log) = n + Len(<<>>) + Len(b)
    BY <1>1 DEF Story
<1>4. /\ \A i \in 1..Len(b) : n + Len(<<>>) + i = n + i
      /\ \A i \in 1..Len(<<>>) : FALSE
    BY <1>1
<1>5. Story(h, log, n, <<>>, b)
    BY <1>1, <1>2, <1>3, <1>4 DEF Story
<1> QED BY <1>5 DEF b

(* A drain takes the whole buffer. *)
LEMMA StoryTake ==
    ASSUME NEW h, NEW log \in Events, NEW n \in Nat, NEW buffered \in Events,
           Story(h, log, n, <<>>, buffered)
    PROVE  Story(h, log, n, buffered, <<>>) /\ Batched(h, n, buffered)
<1>1. Len(<<>>) = 0 /\ Len(buffered) \in Nat /\ Len(log) \in Nat /\ MaxEvents \in Nat
    BY NoEvents, HandlesAssumption
<1>2. Len(log) = n + Len(buffered) /\ Len(log) <= MaxEvents
      /\ \A i \in 1..Len(log) : log[i].seq = i
    BY <1>1 DEF Story
<1>3. ASSUME NEW i \in 1..Len(buffered)
      PROVE  buffered[i] = log[n + i] /\ buffered[i].by = h /\ buffered[i].seq = n + i
    <2>1. n + Len(<<>>) + i = n + i /\ n + i \in 1..Len(log)
        BY <1>1, <1>2
    <2>2. buffered[i] = log[n + i] /\ buffered[i].by = h
        BY <2>1 DEF Story
    <2> QED BY <2>1, <2>2, <1>2
<1>4. Story(h, log, n, buffered, <<>>)
    BY <1>1, <1>2, <1>3 DEF Story
<1>5. Batched(h, n, buffered)
    BY <1>1, <1>2, <1>3 DEF Batched
<1> QED BY <1>4, <1>5

(* The batch of a drain is stored. *)
LEMMA StoryStored ==
    ASSUME NEW h, NEW log \in Events, NEW n \in Nat, NEW batch \in Events,
           NEW buffered \in Events, Story(h, log, n, batch, buffered)
    PROVE  Story(h, log, n + Len(batch), <<>>, buffered)
<1>1. Len(<<>>) = 0 /\ Len(batch) \in Nat /\ Len(buffered) \in Nat
    BY NoEvents
<1>2. \A i \in 1..Len(buffered) : n + Len(batch) + Len(<<>>) + i = n + Len(batch) + i
    BY <1>1
<1>3. n + Len(batch) + Len(<<>>) + Len(buffered) = n + Len(batch) + Len(buffered)
    BY <1>1
<1> QED BY <1>1, <1>2, <1>3 DEF Story

(* A published event waits behind the others. *)
LEMMA StoryPublish ==
    ASSUME NEW h, NEW log \in Events, NEW n \in Nat, NEW batch \in Events,
           NEW buffered \in Events, Story(h, log, n, batch, buffered),
           NEW e \in Event, e.seq = Len(log) + 1, e.by = h, Len(log) < MaxEvents
    PROVE  Story(h, Append(log, e), n, batch, Append(buffered, e))
<1> DEFINE l == Append(log, e)
           b == Append(buffered, e)
<1>1. Len(batch) \in Nat /\ Len(buffered) \in Nat /\ Len(log) \in Nat /\ MaxEvents \in Nat
    BY NoEvents, HandlesAssumption
<1>2. /\ l \in Events /\ b \in Events /\ b # <<>>
      /\ Len(l) = Len(log) + 1 /\ Len(b) = Len(buffered) + 1
      /\ \A i \in 1..Len(log) : l[i] = log[i]
      /\ l[Len(log) + 1] = e
      /\ \A i \in 1..Len(buffered) : b[i] = buffered[i]
      /\ b[Len(buffered) + 1] = e
    BY AppendProperties DEF Events
<1> HIDE DEF l, b
<1>3. Len(log) = n + Len(batch) + Len(buffered)
    BY DEF Story
<1>4. ASSUME NEW i \in 1..Len(l)
      PROVE  l[i].seq = i
    <2>1. CASE i \in 1..Len(log)
        <3>1. log[i].seq = i
            BY <2>1 DEF Story
        <3> QED BY <2>1, <3>1, <1>2
    <2>2. CASE i = Len(log) + 1
        BY <2>2, <1>2
    <2> QED BY <1>1, <1>2, <2>1, <2>2
<1>5. ASSUME NEW i \in 1..Len(batch)
      PROVE  batch[i] = l[n + i] /\ batch[i].by = h
    <2>1. n + i \in 1..Len(log)
        BY <1>1, <1>3
    <2> QED BY <2>1, <1>2 DEF Story
<1>6. ASSUME NEW i \in 1..Len(b)
      PROVE  b[i] = l[n + Len(batch) + i] /\ b[i].by = h
    <2>1. CASE i \in 1..Len(buffered)
        <3>1. n + Len(batch) + i \in 1..Len(log)
            BY <2>1, <1>1, <1>3
        <3> QED BY <2>1, <3>1, <1>2 DEF Story
    <2>2. CASE i = Len(buffered) + 1
        <3>1. n + Len(batch) + i = Len(log) + 1
            BY <2>2, <1>1, <1>3
        <3> QED BY <2>2, <3>1, <1>2
    <2> QED BY <2>1, <2>2, <1>1, <1>2
<1>7. Len(l) = n + Len(batch) + Len(b) /\ Len(l) <= MaxEvents
    BY <1>1, <1>2, <1>3
<1>8. Story(h, l, n, batch, b)
    BY <1>4, <1>5, <1>6, <1>7 DEF Story
<1> QED BY <1>8 DEF l, b

(* A suffix that is stored joins the log. *)
LEMMA StoryAppend ==
    ASSUME NEW h, NEW log \in Events, NEW n \in Nat, NEW batch \in Events,
           Story(h, log, n, <<>>, <<>>), Batched(h, n, batch)
    PROVE  Story(h, log \o batch, n + Len(batch), <<>>, <<>>)
<1> DEFINE l == log \o batch
<1>1. Len(batch) \in Nat /\ Len(log) \in Nat /\ MaxEvents \in Nat /\ Len(<<>>) = 0
    BY NoEvents, HandlesAssumption
<1>2. /\ Len(l) = Len(log) + Len(batch)
      /\ \A i \in 1..Len(log) : l[i] = log[i]
      /\ \A i \in 1..Len(batch) : l[Len(log) + i] = batch[i]
    BY Joined
<1> HIDE DEF l
<1>3. Len(log) = n /\ \A i \in 1..Len(log) : log[i].seq = i
    BY <1>1 DEF Story
<1>4. ASSUME NEW i \in 1..Len(l)
      PROVE  l[i].seq = i
    <2>1. CASE i \in 1..Len(log)
        BY <2>1, <1>2, <1>3
    <2>2. CASE i \notin 1..Len(log)
        <3>1. PICK j \in 1..Len(batch) : i = Len(log) + j
            <4>1. i - Len(log) \in 1..Len(batch) /\ i = Len(log) + (i - Len(log))
                BY <2>2, <1>1, <1>2
            <4> QED BY <4>1
        <3> QED BY <3>1, <1>2, <1>3 DEF Batched
    <2> QED BY <2>1, <2>2
<1>5. Len(l) = n + Len(batch) + Len(<<>>) + Len(<<>>) /\ Len(l) <= MaxEvents
    BY <1>1, <1>2, <1>3 DEF Batched
<1>6. Story(h, l, n + Len(batch), <<>>, <<>>)
    BY <1>1, <1>4, <1>5 DEF Story
<1> QED BY <1>6 DEF l

(* Nothing is in a batch of nothing. *)
LEMMA NoBatch == ASSUME NEW h, NEW n \in Count PROVE Batched(h, n, <<>>)
BY HandlesAssumption, NoEvents DEF Batched, Count

(* How long a chain is. *)
LEMMA Lengths ==
    /\ Len(<<>>) = 0 /\ Len(<<"append">>) = 1 /\ Len(<<"drain">>) = 1
    /\ Len(<<"flush">>) = 1 /\ Len(<<"flush", "drain">>) = 2
OBVIOUS

(* Behind an operation that is over there is a drain at most, so close has
   less to wait for. *)
LEMMA RestAwaited ==
    ASSUME NEW h, NEW r \in HandleState, LocalInv(h, r), r.queue # <<>>,
           NEW s \in HandleState, s.ahead = Fewer(r), s.stage = "rest",
           s.queue = Tail(r.queue) \/ s.queue = <<"drain">>,
           s.phase = "closeChain" <=> r.phase = "closeChain"
    PROVE  Awaited(s)
<1>1. /\ r.queue \in {<<"append">>, <<"drain">>, <<"flush">>, <<"flush", "drain">>}
      /\ r.ahead \in 0..2 /\ r.ahead <= Len(r.queue) /\ (r.ahead > 0 => r.phase = "closeChain")
    BY Fields DEF LocalInv, Chained, Awaited
<1>2. s.queue \in {<<>>, <<"drain">>}
    BY <1>1, Queues
<1>3. s.ahead <= Len(s.queue)
    <2>1. CASE r.queue \in {<<"append">>, <<"drain">>, <<"flush">>}
        <3>1. Len(r.queue) = 1
            BY <2>1, Lengths
        <3>2. s.ahead = 0
            BY <1>1, <3>1 DEF Fewer
        <3>3. Len(s.queue) >= 0
            BY <1>2, Lengths
        <3> QED BY <3>2, <3>3
    <2>2. CASE r.queue = <<"flush", "drain">>
        <3>1. s.queue = <<"drain">> /\ Len(s.queue) = 1
            BY <2>2, Queues, Lengths
        <3>2. s.ahead <= 1
            BY <1>1, <2>2, Lengths DEF Fewer
        <3> QED BY <3>1, <3>2
    <2> QED BY <1>1, <2>1, <2>2
<1>4. s.ahead > 0 => s.phase = "closeChain"
    BY <1>1 DEF Fewer
<1> QED BY <1>2, <1>3, <1>4 DEF Awaited

(* A drain in flight that fails. *)
LEMMA FailedDrainKeeps ==
    ASSUME NEW h \in Handles, NEW r \in HandleState, LocalInv(h, r),
           r.queue = <<"drain">>, r.stage # "rest"
    PROVE  LET s == OpFailed(r) IN
           /\ LocalInv(h, s) /\ s \in HandleState
           /\ SameFile(r, s) /\ SameLog(r, s) /\ s.cursor = r.cursor
           /\ s.phase = r.phase /\ s.failed = r.failed
<1> DEFINE s == OpFailed(r)
<1>1. /\ r.batch \o r.buffered \in Events
      /\ Len(r.batch \o r.buffered) = Len(r.batch) + Len(r.buffered)
    BY Joined, Fields
<1>2. /\ s \in HandleState
      /\ s.queue = <<>> /\ s.stage = "rest" /\ s.batch = <<>> /\ s.cursor = r.cursor
      /\ s.ahead = Fewer(r)
      /\ SameFile(r, s) /\ SameLog(r, s) /\ SameCallers(r, s)
      /\ s.buffered = r.batch \o r.buffered /\ s.draining = "failed"
      /\ s.timer = r.timer /\ s.paused = TRUE
    BY <1>1, FailedDrainFields
<1> HIDE DEF s
<1>3. /\ r.batch # <<>> /\ r.draining = "active" /\ r.flush # "op" /\ r.entered
      /\ r.flush = "drained" => Closing(r)
      /\ r.phase \in {"open", "stored", "live", "closeDrain", "closeWake", "closeChain"}
    BY Queues DEF LocalInv, Chained, Gathered
<1>4. Chained(s)
    <2>1. s.flush = "drained" => Closing(s)
        BY <1>2, <1>3 DEF SameCallers, Closing, Left
    <2> QED BY <1>2, <1>3, <2>1, Queues DEF Chained, SameCallers
<1>5. Len(r.batch) # 0
    BY <1>3, NoEvents, Fields
<1>6. s.buffered # <<>>
    BY <1>1, <1>2, <1>5, NoEvents, Fields
<1>7. Gathered(s)
    BY <1>2, <1>3, <1>6, Queues DEF LocalInv, Gathered, SameLog, SameCallers
<1>8. Recorded(h, s)
    <2>1. Drained(r) = r.batch /\ Drained(s) = <<>>
        BY <1>2, Queues DEF Drained
    <2>2. Story(h, s.log, s.cursor, Drained(s), s.buffered)
        BY <1>2, <2>1, StoryBack, Fields DEF LocalInv, Recorded, SameLog
    <2>3. Batched(h, s.cursor, s.batch)
        BY <1>2, NoBatch, Fields
    <2>4. /\ s.want <= Len(s.log) /\ s.asked <= Len(s.log) /\ s.owed <= Len(s.log)
          /\ s.flush \in {"drained", "op"} => s.want <= s.cursor
        BY <1>2, <1>3 DEF LocalInv, Recorded, SameLog, SameCallers
    <2> QED BY <1>2, <2>2, <2>3, <2>4 DEF Recorded
<1>9. Primed(s)
    BY <1>2, <1>3 DEF LocalInv, Primed, SameFile, SameLog, SameCallers
<1>10. Awaited(s)
    BY <1>2, Queues, RestAwaited DEF SameCallers
<1> QED BY <1>2, <1>4, <1>7, <1>8, <1>9, <1>10 DEF LocalInv, SameCallers, s

(* A suffix that fails, or that a closing handle refuses. *)
LEMMA FailedAppendKeeps ==
    ASSUME NEW h \in Handles, NEW r \in HandleState, LocalInv(h, r), r.queue = <<"append">>
    PROVE  LET s == OpFailed(r) IN
           /\ LocalInv(h, s) /\ s \in HandleState
           /\ SameFile(r, s) /\ SameLog(r, s) /\ s.cursor = r.cursor
           /\ s.phase = r.phase \/ (s.phase = "broken" /\ r.phase \in {"open", "stored"})
           /\ s.failed = r.failed
<1> DEFINE s == OpFailed(r)
<1>1. /\ s \in HandleState
      /\ s.queue = <<>> /\ s.stage = "rest" /\ s.batch = <<>> /\ s.cursor = r.cursor
      /\ s.ahead = Fewer(r)
      /\ SameFile(r, s) /\ SameLog(r, s) /\ SameBuffer(r, s)
      /\ s.flush = r.flush /\ s.asked = r.asked /\ s.want = r.want /\ s.failed = r.failed
      /\ s.phase = IF Closing(r) THEN r.phase ELSE "broken"
    BY FailedAppendFields
<1> HIDE DEF s
<1>2. /\ r.draining \in {"none", "done"} /\ ~r.entered /\ r.flush = "idle"
      /\ r.phase \in {"open", "stored", "closeDrain", "closeWake", "closeChain"}
    BY Queues DEF LocalInv, Chained, Gathered
<1>3. /\ s.phase = r.phase \/ (s.phase = "broken" /\ r.phase \in {"open", "stored"})
      /\ s.phase \in {"closeDrain", "closeWake", "closeChain", "broken"}
      /\ s.phase \in {"closeDrain", "closeChain"} => s.phase = r.phase
      /\ r.phase = "closeChain" => s.phase = "closeChain"
    <2>1. CASE r.phase \in {"closeDrain", "closeWake", "closeChain"}
        <3>1. Closing(r)
            BY <2>1 DEF Closing
        <3> QED BY <1>1, <2>1, <3>1
    <2>2. CASE r.phase \in {"open", "stored"}
        <3>1. ~Closing(r)
            BY <2>2 DEF Closing, Left
        <3> QED BY <1>1, <2>2, <3>1
    <2> QED BY <1>2, <2>1, <2>2
<1>4. Chained(s)
    BY <1>1, <1>2, <1>3, Queues DEF LocalInv, Chained, SameBuffer, SameLog
<1>5. Gathered(s)
    BY <1>1, <1>2, <1>3, Queues DEF LocalInv, Gathered, SameBuffer, SameLog
<1>6. Recorded(h, s)
    <2>1. Drained(r) = <<>> /\ Drained(s) = <<>>
        BY <1>1, Queues DEF Drained
    <2> QED BY <1>1, <2>1, NoBatch, Fields DEF LocalInv, Recorded, SameLog, SameBuffer
<1>7. Primed(s)
    BY <1>1, <1>2, <1>3 DEF LocalInv, Primed, SameFile, SameLog
<1>8. Awaited(s)
    BY <1>1, <1>3, Queues, RestAwaited
<1> QED BY <1>1, <1>3, <1>4, <1>5, <1>6, <1>7, <1>8 DEF LocalInv, s

(* The flush in front of the chain ends, and a drain may be behind it. *)
LEMMA EndFlushKeeps ==
    ASSUME NEW h \in Handles, NEW r \in HandleState, LocalInv(h, r),
           r.queue \in {<<"flush">>, <<"flush", "drain">>}
    PROVE  LET s == Flushed(r) IN
           /\ OpFailed(r) = s
           /\ LocalInv(h, s) /\ s \in HandleState
           /\ SameFile(r, s) /\ SameLog(r, s) /\ s.cursor = r.cursor
           /\ s.phase = r.phase /\ s.failed = r.failed
<1> DEFINE s == Flushed(r)
<1>1. /\ Head(r.queue) = "flush" /\ Tail(r.queue) \in Chain
      /\ Tail(r.queue) = IF r.queue = <<"flush">> THEN <<>> ELSE <<"drain">>
    BY Queues
<1>2. /\ OpFailed(r) = s
      /\ s \in HandleState
      /\ s.queue = Tail(r.queue) /\ s.stage = "rest" /\ s.batch = <<>> /\ s.cursor = r.cursor
      /\ s.ahead = Fewer(r)
      /\ SameFile(r, s) /\ SameLog(r, s) /\ SameBuffer(r, s)
      /\ s.flush = "idle" /\ s.asked = 0 /\ s.want = 0
      /\ s.failed = r.failed /\ s.phase = r.phase
    BY <1>1, EndFlushFields
<1> HIDE DEF s
<1>3. /\ r.batch = <<>> /\ r.queue # <<>> /\ r.entered
      /\ r.phase \in {"open", "stored", "live", "closeDrain", "closeWake", "closeChain"}
    BY Queues DEF LocalInv, Chained, Gathered
<1>4. /\ s.queue \in {<<>>, <<"drain">>}
      /\ r.draining = "active" <=> s.queue = <<"drain">>
    BY <1>1, <1>2, Queues DEF LocalInv, Chained
<1>8. Chained(s)
    <2>1. /\ s.draining = "active" <=> s.queue = <<"drain">>
          /\ s.phase = "closeDrain" => s.draining # "none"
          /\ s.phase \in {"open", "stored", "live", "closeDrain", "closeWake", "closeChain"}
        BY <1>2, <1>3, <1>4 DEF LocalInv, Chained, SameBuffer
    <2> QED BY <1>2, <1>4, <2>1, Queues DEF Chained
<1>5. Gathered(s)
    <2>1. s.batch = <<>> /\ s.queue # <<"append">> /\ s.stage = "rest"
        BY <1>2, <1>4, Queues
    <2>2. s.entered /\ r.entered /\ (s.draining = "active" => s.buffered # <<>>)
        BY <1>2, <1>3 DEF LocalInv, Gathered, SameBuffer, SameLog
    <2> QED BY <1>2, <2>1, <2>2 DEF LocalInv, Gathered, SameBuffer, SameLog
<1>6. Recorded(h, s)
    <2>1. Drained(r) = <<>> /\ Drained(s) = <<>>
        BY <1>2, <1>3 DEF Drained
    <2> QED BY <1>2, <2>1, NoBatch, Fields DEF LocalInv, Recorded, SameLog, SameBuffer
<1>7. Primed(s)
    BY <1>2, <1>3 DEF LocalInv, Primed, SameFile, SameLog
<1>9. Awaited(s)
    BY <1>2, <1>3, RestAwaited
<1> QED BY <1>2, <1>5, <1>6, <1>7, <1>8, <1>9 DEF LocalInv, s

(* A head operation that fails: one under way, or one that is refused. *)
LEMMA OpFailedKeeps ==
    ASSUME NEW h \in Handles, NEW r \in HandleState, LocalInv(h, r), r.queue # <<>>,
           r.stage # "rest" \/ Head(r.queue) # "drain"
    PROVE  LET s == OpFailed(r) IN
           /\ LocalInv(h, s) /\ s \in HandleState
           /\ SameFile(r, s) /\ SameLog(r, s) /\ s.cursor = r.cursor
           /\ s.failed = r.failed
           /\ s.phase = r.phase \/ (s.phase = "broken" /\ r.phase \in {"open", "stored"})
<1>1. CASE r.queue = <<"append">>
    BY <1>1, FailedAppendKeeps
<1>2. CASE r.queue = <<"drain">>
    <2>1. r.stage # "rest"
        BY <1>2, Queues
    <2> QED BY <1>2, <2>1, FailedDrainKeeps
<1>3. CASE r.queue \in {<<"flush">>, <<"flush", "drain">>}
    BY <1>3, EndFlushKeeps
<1> QED BY <1>1, <1>2, <1>3 DEF LocalInv, Chained

(* The log after a write: the events that were stored, then the batch. *)
Extended(h, r, s) ==
    /\ s.cursor = r.cursor + Len(r.batch) /\ s.materialized = TRUE
    /\ s.torn = r.torn /\ s.tornAt = r.tornAt /\ s.salvage = r.salvage
    /\ s.lease = r.lease /\ s.owed = r.owed
    /\ s.cursor <= Len(s.log)
    /\ \A i \in 1..Len(r.log) : i <= Len(s.log) /\ s.log[i] = r.log[i]
    /\ \A i \in 1..Len(r.batch) : s.log[r.cursor + i] = r.batch[i]
    /\ \A i \in 1..Len(s.log) : i \in 1..Len(r.log) \/ s.log[i].by = h

(* The batch of a drain is in the log already. *)
LEMMA DrainExtends ==
    ASSUME NEW h \in Handles, NEW r \in HandleState, LocalInv(h, r),
           r.queue # <<"append">>,
           NEW s, s.log = r.log, s.owed = r.owed,
           s.cursor = r.cursor + Len(r.batch), s.materialized = TRUE,
           s.torn = r.torn, s.tornAt = r.tornAt, s.salvage = r.salvage, s.lease = r.lease
    PROVE  Extended(h, r, s)
<1>1. Drained(r) = r.batch
    BY DEF Drained
<1>2. Len(r.log) = r.cursor + Len(r.batch) + Len(r.buffered)
      /\ \A i \in 1..Len(r.batch) : r.batch[i] = r.log[r.cursor + i]
    BY <1>1 DEF LocalInv, Recorded, Story
<1>3. s.cursor <= Len(s.log)
    BY <1>2, Fields
<1>4. \A i \in 1..Len(r.log) : i <= Len(s.log)
    BY Fields
<1> QED BY <1>2, <1>3, <1>4 DEF Extended

(* A handle that writes knows the file is not torn. *)
LEMMA Writing ==
    ASSUME NEW h \in Handles, NEW r \in HandleState, LocalInv(h, r), r.stage = "write"
    PROVE  /\ r.queue # <<>> /\ r.lease /\ ~r.torn /\ r.salvage = <<>>
           /\ r.cursor + Len(r.batch) \in Count /\ Len(r.batch) \in Nat
           /\ r.phase \in {"open", "stored", "live", "closeDrain", "closeWake", "closeChain"}
<1>1. r.queue # <<>> /\ r.lease /\ ~r.torn /\ r.salvage = <<>>
    BY DEF LocalInv, Chained, Primed
<1>2. r.cursor + Len(r.batch) \in Count /\ Len(r.batch) \in Nat
    BY Fields DEF LocalInv, Recorded, Batched, Count
<1>3. r.phase \in {"open", "stored", "live", "closeDrain", "closeWake", "closeChain"}
    BY <1>1 DEF LocalInv, Chained
<1> QED BY <1>1, <1>2, <1>3

(* A drain stores its batch and goes on. *)
LEMMA DrainGoesOnKeeps ==
    ASSUME NEW h \in Handles, NEW r \in HandleState, LocalInv(h, r), r.stage = "write",
           r.queue = <<"drain">>, r.buffered # <<>>
    PROVE  LET s == OpDone(r) IN
           /\ LocalInv(h, s) /\ s \in HandleState /\ Extended(h, r, s)
           /\ s.phase = r.phase /\ s.failed = r.failed
<1> DEFINE s == OpDone(r)
<1>1. /\ r.lease /\ ~r.torn /\ r.salvage = <<>>
      /\ r.cursor + Len(r.batch) \in Count /\ Len(r.batch) \in Nat
    BY Writing
<1>2. /\ s \in HandleState
      /\ s.queue = <<"drain">> /\ s.stage = "rest" /\ s.batch = <<>>
      /\ s.cursor = r.cursor + Len(r.batch) /\ s.materialized = TRUE
      /\ s.torn = r.torn /\ s.tornAt = r.tornAt /\ s.salvage = r.salvage
      /\ s.lease = r.lease /\ s.ahead = Fewer(r)
      /\ SameLog(r, s) /\ SameBuffer(r, s) /\ SameCallers(r, s)
    BY <1>1, DrainGoesOnFields
<1> HIDE DEF s
<1>3. /\ r.queue # <<"append">> /\ r.queue # <<>> /\ r.draining = "active" /\ r.flush # "op"
      /\ r.flush = "drained" => Closing(r)
      /\ r.phase \in {"open", "stored", "live", "closeDrain", "closeWake", "closeChain"}
    BY Queues DEF LocalInv, Chained
<1>4. Chained(s)
    <2>1. s.flush = "drained" => Closing(s)
        BY <1>2, <1>3 DEF SameCallers, Closing, Left
    <2> QED BY <1>2, <1>3, <2>1, Queues DEF LocalInv, Chained, SameLog, SameBuffer, SameCallers
<1>5. Gathered(s)
    BY <1>2, <1>3, Queues DEF LocalInv, Gathered, SameLog, SameBuffer, SameCallers
<1>6. Recorded(h, s)
    <2>1. Drained(r) = r.batch /\ Drained(s) = <<>>
        BY <1>2, <1>3 DEF Drained
    <2>2. Story(h, s.log, s.cursor, Drained(s), s.buffered)
        <3>1. Story(h, r.log, r.cursor, r.batch, r.buffered)
            BY <2>1 DEF LocalInv, Recorded
        <3>2. r.log \in Events /\ r.batch \in Events /\ r.buffered \in Events /\ r.cursor \in Nat
            BY Fields
        <3>3. Story(h, r.log, r.cursor + Len(r.batch), <<>>, r.buffered)
            BY <3>1, <3>2, StoryStored
        <3> QED BY <1>2, <2>1, <3>3 DEF SameLog, SameBuffer
    <2>3. Batched(h, s.cursor, s.batch)
        BY <1>1, <1>2, NoBatch
    <2>4. s.draining = "active"
        BY <1>2, <1>3 DEF SameBuffer
    <2>5. s.flush = "drained" => s.want <= s.cursor
        BY <1>1, <1>2, Fields DEF LocalInv, Recorded, SameCallers
    <2> QED
        BY <1>2, <1>3, <2>2, <2>3, <2>4, <2>5 DEF LocalInv, Recorded, SameLog, SameCallers
<1>7. Primed(s)
    BY <1>1, <1>2, <1>3 DEF LocalInv, Primed, SameCallers
<1>8. Extended(h, r, s)
    BY <1>2, <1>3, DrainExtends DEF SameLog
<1>9. Awaited(s)
    BY <1>2, <1>3, RestAwaited DEF SameCallers
<1> QED BY <1>2, <1>4, <1>5, <1>6, <1>7, <1>8, <1>9 DEF LocalInv, SameCallers, s

(* A drain stores its batch and is over: all that was published is stored. *)
LEMMA DrainOverKeeps ==
    ASSUME NEW h \in Handles, NEW r \in HandleState, LocalInv(h, r), r.stage = "write",
           r.queue = <<"drain">>, r.buffered = <<>>
    PROVE  LET s == OpDone(r) IN
           /\ LocalInv(h, s) /\ s \in HandleState /\ Extended(h, r, s)
           /\ s.phase = r.phase /\ s.failed = r.failed
<1> DEFINE s == OpDone(r)
<1>1. /\ r.lease /\ ~r.torn /\ r.salvage = <<>>
      /\ r.cursor + Len(r.batch) \in Count /\ Len(r.batch) \in Nat
    BY Writing
<1>2. /\ s \in HandleState
      /\ s.queue = <<>> /\ s.stage = "rest" /\ s.batch = <<>>
      /\ s.cursor = r.cursor + Len(r.batch) /\ s.materialized = TRUE
      /\ s.torn = r.torn /\ s.tornAt = r.tornAt /\ s.salvage = r.salvage
      /\ s.lease = r.lease /\ s.ahead = Fewer(r)
      /\ SameLog(r, s) /\ SameCallers(r, s)
      /\ s.buffered = <<>> /\ s.draining = "done" /\ s.timer = r.timer
      /\ s.paused = r.paused
    BY <1>1, DrainOverFields
<1> HIDE DEF s
<1>3. /\ r.queue # <<"append">> /\ r.queue # <<>> /\ r.draining = "active" /\ r.flush # "op"
      /\ r.entered /\ ~r.paused
      /\ r.flush = "drained" => Closing(r)
      /\ r.phase \in {"live", "closeDrain", "closeWake", "closeChain"}
    BY Queues DEF LocalInv, Chained, Gathered
<1>6. Chained(s)
    <2>1. s.flush = "drained" => Closing(s)
        BY <1>2, <1>3 DEF SameCallers, Closing, Left
    <2> QED BY <1>2, <1>3, <2>1, Queues DEF Chained, SameCallers
<1>7. Gathered(s)
    BY <1>2, <1>3, Queues DEF LocalInv, Gathered, SameLog, SameCallers
<1>8. /\ Len(r.log) = r.cursor + Len(r.batch) /\ Len(r.log) \in Nat
      /\ Drained(r) = r.batch
    <2>1. Drained(r) = r.batch
        BY <1>3 DEF Drained
    <2> QED BY <1>1, <2>1, NoEvents, Fields DEF LocalInv, Recorded, Story
<1>9. Recorded(h, s)
    <2>1. Drained(s) = <<>>
        BY <1>2 DEF Drained
    <2>2. Story(h, s.log, s.cursor, Drained(s), s.buffered)
        <3>1. Story(h, r.log, r.cursor, r.batch, r.buffered)
            BY <1>8 DEF LocalInv, Recorded
        <3>2. r.log \in Events /\ r.batch \in Events /\ r.buffered \in Events /\ r.cursor \in Nat
            BY Fields
        <3>3. Story(h, r.log, r.cursor + Len(r.batch), <<>>, r.buffered)
            BY <3>1, <3>2, StoryStored
        <3> QED BY <1>2, <2>1, <3>3 DEF SameLog, SameBuffer
    <2>3. Batched(h, s.cursor, s.batch)
        BY <1>1, <1>2, NoBatch
    <2>4. /\ s.want <= Len(s.log) /\ s.asked <= Len(s.log) /\ s.owed <= Len(s.log)
          /\ s.want <= s.cursor
        BY <1>2, <1>8 DEF LocalInv, Recorded, SameLog, SameCallers
    <2> QED BY <2>2, <2>3, <2>4 DEF Recorded
<1>10. Primed(s)
    BY <1>1, <1>2, <1>3 DEF LocalInv, Primed, SameCallers
<1>11. Extended(h, r, s)
    BY <1>2, <1>3, DrainExtends DEF SameLog
<1>12. Awaited(s)
    BY <1>2, <1>3, Queues, RestAwaited DEF SameCallers
<1> QED BY <1>2, <1>6, <1>7, <1>9, <1>10, <1>11, <1>12 DEF LocalInv, SameCallers, s

(* A suffix is stored and joins the log. *)
LEMMA DoneAppendKeeps ==
    ASSUME NEW h \in Handles, NEW r \in HandleState, LocalInv(h, r), r.stage = "write",
           r.queue = <<"append">>
    PROVE  LET s == OpDone(r) IN
           /\ LocalInv(h, s) /\ s \in HandleState /\ Extended(h, r, s)
           /\ s.phase = r.phase \/ (s.phase = "stored" /\ r.phase \in {"open", "stored"})
           /\ s.failed = r.failed
<1> DEFINE s == OpDone(r)
           l == r.log \o r.batch
<1>1. /\ r.lease /\ ~r.torn /\ r.salvage = <<>>
      /\ r.cursor + Len(r.batch) \in Count /\ Len(r.batch) \in Nat
    BY Writing
<1>2. /\ r.log \in Events /\ r.batch \in Events /\ l \in Events
      /\ Len(r.log) \in Nat /\ r.cursor \in Nat
      /\ Len(l) = Len(r.log) + Len(r.batch)
      /\ \A i \in 1..Len(r.log) : l[i] = r.log[i]
      /\ \A i \in 1..Len(r.batch) : l[Len(r.log) + i] = r.batch[i]
      /\ \A n \in 0..Len(r.log) : n <= Len(l)
    BY Fields, Joined
<1>3. /\ s \in HandleState
      /\ s.queue = <<>> /\ s.stage = "rest" /\ s.batch = <<>>
      /\ s.cursor = r.cursor + Len(r.batch) /\ s.materialized = TRUE
      /\ s.torn = r.torn /\ s.tornAt = r.tornAt /\ s.salvage = r.salvage
      /\ s.lease = r.lease /\ s.ahead = Fewer(r)
      /\ s.log = l /\ s.owed = r.owed /\ s.entered = r.entered
      /\ SameBuffer(r, s)
      /\ s.flush = r.flush /\ s.asked = r.asked /\ s.want = r.want /\ s.failed = r.failed
      /\ s.phase = IF Closing(r) THEN r.phase ELSE "stored"
    BY <1>1, <1>2, DoneAppendFields
<1> HIDE DEF s
<1>4. /\ r.draining \in {"none", "done"} /\ ~r.entered /\ r.flush = "idle"
      /\ r.phase \in {"open", "stored", "closeDrain", "closeWake", "closeChain"}
      /\ r.buffered = <<>>
    BY Queues DEF LocalInv, Chained, Gathered
<1>5. /\ s.phase = r.phase \/ (s.phase = "stored" /\ r.phase \in {"open", "stored"})
      /\ s.phase \in {"closeDrain", "closeWake", "closeChain", "stored"}
      /\ s.phase \in {"closeDrain", "closeChain"} => s.phase = r.phase
      /\ r.phase = "closeChain" => s.phase = "closeChain"
    <2>1. CASE r.phase \in {"closeDrain", "closeWake", "closeChain"}
        <3>1. Closing(r)
            BY <2>1 DEF Closing
        <3> QED BY <1>3, <2>1, <3>1
    <2>2. CASE r.phase \in {"open", "stored"}
        <3>1. ~Closing(r)
            BY <2>2 DEF Closing, Left
        <3> QED BY <1>3, <2>2, <3>1
    <2> QED BY <1>4, <2>1, <2>2
<1>6. Chained(s)
    BY <1>3, <1>4, <1>5, Queues DEF LocalInv, Chained, SameBuffer
<1>7. Gathered(s)
    BY <1>3, <1>4, <1>5, Queues DEF LocalInv, Gathered, SameBuffer
<1>8. Drained(r) = <<>> /\ Drained(s) = <<>>
    BY <1>3 DEF Drained
<1>9. Story(h, r.log, r.cursor, <<>>, <<>>) /\ Batched(h, r.cursor, r.batch)
    BY <1>4, <1>8 DEF LocalInv, Recorded
<1>10. Story(h, l, r.cursor + Len(r.batch), <<>>, <<>>)
    BY <1>2, <1>9, StoryAppend
<1> HIDE DEF l
<1>11. Len(r.log) = r.cursor /\ s.cursor = Len(s.log)
    <2>1. Len(r.log) = r.cursor
        BY <1>2, <1>9, NoEvents DEF Story
    <2> QED BY <1>2, <1>3, <2>1
<1>15. /\ s.log = l /\ Len(s.log) = Len(r.log) + Len(r.batch)
       /\ \A n \in 0..Len(r.log) : n <= Len(s.log)
    BY <1>1, <1>2, <1>3
<1>12. Recorded(h, s)
    <2>1. Batched(h, s.cursor, s.batch)
        BY <1>1, <1>3, NoBatch
    <2>2. s.want <= Len(s.log) /\ s.asked <= Len(s.log) /\ s.owed <= Len(s.log)
        <3>1. /\ r.want \in 0..Len(r.log) /\ r.asked \in 0..Len(r.log)
              /\ r.owed \in 0..Len(r.log)
            BY <1>2, Fields DEF LocalInv, Recorded
        <3>2. s.want = r.want /\ s.asked = r.asked /\ s.owed = r.owed
            BY <1>3
        <3> QED BY <1>15, <3>1, <3>2, Zenon
    <2> QED BY <1>3, <1>4, <1>8, <1>10, <2>1, <2>2 DEF Recorded, SameBuffer
<1>13. Primed(s)
    BY <1>1, <1>3, <1>4, <1>5 DEF LocalInv, Primed
<1>14. Extended(h, r, s)
    <2>1. \A i \in 1..Len(r.log) : i <= Len(s.log) /\ s.log[i] = r.log[i]
        <3> TAKE i \in 1..Len(r.log)
        <3>1. i \in 0..Len(r.log)
            BY <1>2
        <3> QED BY <1>2, <1>15, <3>1, Zenon
    <2>2. \A i \in 1..Len(r.batch) : s.log[r.cursor + i] = r.batch[i] /\ s.log[r.cursor + i].by = h
        BY <1>2, <1>3, <1>9, <1>11 DEF Batched
    <2>3. ASSUME NEW i \in 1..Len(s.log)
          PROVE  i \in 1..Len(r.log) \/ s.log[i].by = h
        <3>1. CASE i \notin 1..Len(r.log)
            <4>1. /\ i \in 1..(r.cursor + Len(r.batch)) /\ i \notin 1..r.cursor
                  /\ r.cursor \in Nat /\ Len(r.batch) \in Nat
                BY <1>1, <1>2, <3>1, <1>11, <1>15
            <4>2. i - r.cursor \in 1..Len(r.batch) /\ r.cursor + (i - r.cursor) = i
                BY <4>1
            <4> QED BY <4>2, <2>2
        <3> QED BY <3>1
    <2>4. s.cursor <= Len(s.log)
        BY <1>1, <1>2, <1>3, <1>11
    <2> QED BY <1>3, <2>1, <2>2, <2>3, <2>4 DEF Extended
<1>16. Awaited(s)
    BY <1>3, <1>5, Queues, RestAwaited
<1> QED BY <1>3, <1>5, <1>6, <1>7, <1>12, <1>13, <1>14, <1>16 DEF LocalInv, s

(* A flush that publishes the header of an empty log. *)
LEMMA DoneFlushKeeps ==
    ASSUME NEW h \in Handles, NEW r \in HandleState, LocalInv(h, r), r.stage = "write",
           r.queue \in {<<"flush">>, <<"flush", "drain">>}
    PROVE  LET s == OpDone(r) IN
           /\ LocalInv(h, s) /\ s \in HandleState /\ Extended(h, r, s)
           /\ s.phase = r.phase /\ s.failed = r.failed
<1> DEFINE s == OpDone(r)
<1>1. /\ r.lease /\ ~r.torn /\ r.salvage = <<>>
      /\ r.cursor + Len(r.batch) \in Count /\ Len(r.batch) \in Nat
    BY Writing
<1>2. /\ Head(r.queue) = "flush" /\ Tail(r.queue) \in Chain
      /\ Tail(r.queue) = IF r.queue = <<"flush">> THEN <<>> ELSE <<"drain">>
    BY Queues
<1>3. /\ s \in HandleState
      /\ s.queue = Tail(r.queue) /\ s.stage = "rest" /\ s.batch = <<>>
      /\ s.cursor = r.cursor + Len(r.batch) /\ s.materialized = TRUE
      /\ s.torn = r.torn /\ s.tornAt = r.tornAt /\ s.salvage = r.salvage
      /\ s.lease = r.lease /\ s.ahead = Fewer(r)
      /\ SameLog(r, s) /\ SameBuffer(r, s)
      /\ s.flush = "idle" /\ s.asked = 0 /\ s.want = 0
      /\ s.failed = r.failed /\ s.phase = r.phase
    BY <1>1, <1>2, DoneFlushFields
<1> HIDE DEF s
<1>4. r.batch = <<>> /\ r.queue # <<>> /\ r.entered /\ r.queue # <<"append">>
      /\ r.phase \in {"open", "stored", "live", "closeDrain", "closeWake", "closeChain"}
    BY Queues DEF LocalInv, Chained, Gathered
<1>5. /\ s.queue \in {<<>>, <<"drain">>}
      /\ r.draining = "active" <=> s.queue = <<"drain">>
    <2>1. s.queue = IF r.queue = <<"flush">> THEN <<>> ELSE <<"drain">>
        BY <1>2, <1>3
    <2>2. r.draining = "active" <=> r.queue = <<"flush", "drain">>
        BY Queues DEF LocalInv, Chained
    <2> QED BY <2>1, <2>2, Queues
<1>6. Chained(s)
    <2>1. /\ s.draining = "active" <=> s.queue = <<"drain">>
          /\ s.phase = "closeDrain" => s.draining # "none"
        BY <1>3, <1>4, <1>5 DEF LocalInv, Chained, SameBuffer
    <2> QED BY <1>3, <1>4, <1>5, <2>1, Queues DEF Chained
<1>7. Gathered(s)
    <2>1. s.queue # <<"append">>
        BY <1>5, Queues
    <2>2. s.entered /\ r.entered /\ (s.draining = "active" => s.buffered # <<>>)
        BY <1>3, <1>4 DEF LocalInv, Gathered, SameBuffer, SameLog
    <2> QED BY <1>3, <2>1, <2>2 DEF LocalInv, Gathered, SameBuffer, SameLog
<1>8. s.cursor = r.cursor
    BY <1>3, <1>4, NoEvents, Fields
<1>9. Recorded(h, s)
    <2>1. Drained(r) = <<>> /\ Drained(s) = <<>>
        BY <1>3, <1>4 DEF Drained
    <2> QED BY <1>3, <1>8, <2>1, NoBatch, Fields DEF LocalInv, Recorded, SameLog, SameBuffer
<1>10. Primed(s)
    BY <1>1, <1>3, <1>4 DEF LocalInv, Primed
<1>11. Extended(h, r, s)
    BY <1>3, <1>4, DrainExtends DEF SameLog
<1>12. Awaited(s)
    BY <1>3, <1>4, RestAwaited
<1> QED BY <1>3, <1>6, <1>7, <1>9, <1>10, <1>11, <1>12 DEF LocalInv, s

(* A head operation that succeeds. *)
LEMMA OpDoneKeeps ==
    ASSUME NEW h \in Handles, NEW r \in HandleState, LocalInv(h, r), r.stage = "write"
    PROVE  LET s == OpDone(r) IN
           /\ LocalInv(h, s) /\ s \in HandleState /\ Extended(h, r, s)
           /\ s.failed = r.failed
           /\ s.phase = r.phase \/ (s.phase = "stored" /\ r.phase \in {"open", "stored"})
<1>1. r.queue # <<>>
    BY Writing
<1>2. CASE r.queue = <<"append">>
    BY <1>2, DoneAppendKeeps
<1>3. CASE r.queue = <<"drain">> /\ r.buffered # <<>>
    BY <1>3, DrainGoesOnKeeps
<1>4. CASE r.queue = <<"drain">> /\ r.buffered = <<>>
    BY <1>4, DrainOverKeeps
<1>5. CASE r.queue \in {<<"flush">>, <<"flush", "drain">>}
    BY <1>5, DoneFlushKeeps
<1> QED BY <1>1, <1>2, <1>3, <1>4, <1>5 DEF LocalInv, Chained

(* The head operation begins, or goes on once it has the lock. *)
LEMMA StartKeeps ==
    ASSUME NEW h \in Handles, NEW r \in HandleState, LocalInv(h, r),
           r.queue # <<>>, r.stage \in {"rest", "lock"},
           ~Left(r), r.phase = "closeChain" => r.ahead > 0,
           Head(r.queue) = "flush" => ~r.materialized,
           NEW s \in HandleState, SameLog(r, s), SameCallers(r, s),
           s.queue = r.queue, s.draining = r.draining, s.timer = r.timer, s.paused = r.paused,
           s.cursor = r.cursor, s.ahead = r.ahead, s.materialized = r.materialized, s.torn = r.torn,
           s.tornAt = r.tornAt, s.salvage = r.salvage, r.lease => s.lease,
           LET takes == r.queue = <<"drain">> /\ r.stage = "rest" IN
           /\ s.batch = IF takes THEN r.buffered ELSE r.batch
           /\ s.buffered = IF takes THEN <<>> ELSE r.buffered,
           \/ s.stage = "lock"
           \/ s.lease /\ s.stage = IF Head(r.queue) = "flush" THEN "write" ELSE Repair(r)
    PROVE  LocalInv(h, s)
<1> DEFINE takes == r.queue = <<"drain">> /\ r.stage = "rest"
<1>1. /\ r.phase \in {"open", "stored", "live", "closeDrain", "closeWake", "closeChain"}
      /\ s.stage # "rest" /\ s.stage \in {"lock", "truncate", "rewrite", "write"}
    BY DEF LocalInv, Chained, Repair
<1>2. /\ s.batch = IF takes THEN r.buffered ELSE r.batch
      /\ s.buffered = IF takes THEN <<>> ELSE r.buffered
    OBVIOUS
<1> HIDE DEF takes
<1>3. Chained(s)
    <2>1. s.flush = "drained" => Closing(s) \/ (s.draining = "none" /\ s.queue = <<>>)
        BY DEF LocalInv, Chained, SameCallers, Closing, Left
    <2> QED BY <1>1, <2>1 DEF LocalInv, Chained, SameLog, SameCallers
<1>4. Gathered(s)
    <2>1. CASE takes
        <3>1. r.queue = <<"drain">> /\ r.draining = "active" /\ r.batch = <<>> /\ r.buffered # <<>>
              /\ r.queue # <<"append">> /\ r.entered /\ ~r.paused
            BY <2>1, Queues DEF LocalInv, Chained, Gathered, takes
        <3> QED BY <1>1, <1>2, <2>1, <3>1 DEF LocalInv, Gathered, SameLog, SameCallers
    <2>2. CASE ~takes
        <3>1. s.batch # <<>>
                <=> s.queue = <<"append">> \/ (s.queue = <<"drain">> /\ s.stage # "rest")
            BY <1>1, <1>2, <2>2 DEF LocalInv, Gathered, takes
        <3> QED BY <1>1, <1>2, <2>2, <3>1 DEF LocalInv, Gathered, SameLog, SameCallers
    <2> QED BY <2>1, <2>2
<1>5. Recorded(h, s)
    <2>1. /\ s.want <= Len(s.log) /\ s.asked <= Len(s.log) /\ s.owed <= Len(s.log)
          /\ s.flush \in {"drained", "op"} \/ (s.flush = "drain" /\ s.draining = "done") =>
                s.want <= s.cursor
        BY DEF LocalInv, Recorded, SameLog, SameCallers
    <2>2. CASE takes
        <3>1. Drained(r) = <<>> /\ Drained(s) = r.buffered /\ s.buffered = <<>>
              /\ s.batch = r.buffered
            BY <1>2, <2>2, Queues DEF LocalInv, Gathered, Drained, takes
        <3>2. Story(h, r.log, r.cursor, <<>>, r.buffered)
            BY <3>1 DEF LocalInv, Recorded
        <3>3. r.log \in Events /\ r.cursor \in Nat /\ r.buffered \in Events
            BY Fields
        <3>4. Story(h, r.log, r.cursor, r.buffered, <<>>) /\ Batched(h, r.cursor, r.buffered)
            BY <3>2, <3>3, StoryTake
        <3> QED BY <2>1, <3>1, <3>4 DEF Recorded, SameLog
    <2>3. CASE ~takes
        <3>1. Drained(s) = Drained(r) /\ s.batch = r.batch /\ s.buffered = r.buffered
            BY <1>2, <2>3 DEF Drained
        <3> QED BY <2>1, <3>1 DEF LocalInv, Recorded, SameLog
    <2> QED BY <2>2, <2>3
<1>6. Primed(s)
    <2>1. CASE s.stage = "lock"
        BY <1>1, <2>1 DEF LocalInv, Primed, SameLog, SameCallers, Chained
    <2>2. CASE s.lease /\ Head(r.queue) = "flush" /\ s.stage = "write"
        BY <1>1, <2>2 DEF LocalInv, Primed, SameLog, SameCallers
    <2>3. CASE s.lease /\ Head(r.queue) # "flush" /\ s.stage = Repair(r)
        <3>1. r.flush # "op"
            BY <2>3, Queues DEF LocalInv, Chained
        <3>2. /\ s.stage = "truncate" <=> r.torn
              /\ s.stage = "rewrite" => r.salvage # <<>>
              /\ s.stage = "write" => r.salvage = <<>>
              /\ s.stage \in {"truncate", "rewrite", "write"}
            BY <2>3, Fields DEF Repair
        <3> QED BY <1>1, <2>3, <3>1, <3>2 DEF LocalInv, Primed, SameLog, SameCallers
    <2> QED BY <2>1, <2>2, <2>3
<1>7. Awaited(s)
    BY DEF LocalInv, Awaited, SameCallers
<1> QED BY <1>3, <1>4, <1>5, <1>6, <1>7 DEF LocalInv

(* What drainLive makes of a handle, whatever else its caller changes. *)
Drains(r, s) ==
    /\ s.stage = r.stage /\ s.batch = r.batch /\ s.cursor = r.cursor /\ s.ahead = r.ahead
    /\ SameFile(r, s) /\ s.log = r.log /\ s.entered = r.entered
    /\ s.buffered = r.buffered
    /\ s.timer => r.timer
    /\ r.draining \in {"done", "failed"} => s.timer = r.timer
    /\ s.paused = (r.paused /\ r.draining # "none")
    /\ s.draining = IF r.draining # "none" THEN r.draining
                    ELSE IF r.buffered = <<>> THEN "done" ELSE "active"
    /\ s.queue = IF r.draining = "none" /\ r.buffered # <<>>
                 THEN Append(r.queue, "drain") ELSE r.queue

(* drainLive itself does. *)
LEMMA DrainLiveDrains ==
    ASSUME NEW r \in HandleState
    PROVE  LET s == DrainLive(r) IN
           s \in HandleState /\ Drains(r, s) /\ SameCallers(r, s) /\ SameLog(r, s)
<1> DEFINE s == DrainLive(r)
<1>1. Append(r.queue, "drain") \in Chain
    <2>1. r.queue \in Chain /\ "drain" \in Operations
        BY Fields DEF Operations
    <2> QED BY <2>1, AppendProperties DEF Chain
<1>2. /\ s \in HandleState
      /\ s.stage = r.stage /\ s.batch = r.batch /\ s.cursor = r.cursor
      /\ s.ahead = r.ahead
      /\ SameFile(r, s) /\ SameLog(r, s) /\ SameCallers(r, s)
      /\ s.buffered = r.buffered
      /\ s.timer = (r.timer /\ r.draining # "none")
      /\ s.paused = (r.paused /\ r.draining # "none")
      /\ s.draining = IF r.draining # "none" THEN r.draining
                      ELSE IF r.buffered = <<>> THEN "done" ELSE "active"
      /\ s.queue = IF r.draining = "none" /\ r.buffered # <<>>
                   THEN Append(r.queue, "drain") ELSE r.queue
    BY <1>1, DrainLiveFields
<1> HIDE DEF s
<1>3. (s.timer => r.timer) /\ (r.draining \in {"done", "failed"} => s.timer = r.timer)
    BY <1>2, Fields
<1>4. Drains(r, s)
    BY <1>2, <1>3 DEF Drains, SameLog
<1> QED BY <1>2, <1>4 DEF s

(* A drain is joined, or it is queued behind a flush at most. *)
LEMMA DrainsChain ==
    ASSUME NEW h, NEW r \in HandleState, LocalInv(h, r),
           r.phase # "closed", NEW s, Drains(r, s)
    PROVE  /\ s.queue \in {<<>>, <<"append">>, <<"drain">>, <<"flush">>, <<"flush", "drain">>}
           /\ s.draining = "active" <=> s.queue \in {<<"drain">>, <<"flush", "drain">>}
           /\ r.queue \in {<<"flush">>, <<"flush", "drain">>}
                <=> s.queue \in {<<"flush">>, <<"flush", "drain">>}
           /\ s.queue = <<"drain">> => r.queue \in {<<>>, <<"drain">>}
           /\ s.queue = <<"append">> => r.queue = <<"append">>
           /\ s.queue = <<>> => r.queue = <<>>
           /\ s.queue # <<"append">> \/ ~s.entered
           /\ s.queue # r.queue => r.entered
           /\ Len(r.queue) <= Len(s.queue)
<1>1. CASE r.draining = "none" /\ r.buffered # <<>>
    <2>1. r.entered /\ r.queue \in {<<>>, <<"flush">>}
        BY <1>1, Queues DEF LocalInv, Chained, Gathered
    <2>2. s.queue = Append(r.queue, "drain") /\ s.draining = "active"
        BY <1>1 DEF Drains
    <2>3. CASE r.queue = <<>>
        BY <2>1, <2>2, <2>3, Queues, Lengths
    <2>4. CASE r.queue = <<"flush">>
        BY <2>1, <2>2, <2>4, Queues, Lengths
    <2> QED BY <2>1, <2>3, <2>4
<1>2. CASE ~(r.draining = "none" /\ r.buffered # <<>>)
    <2>1. /\ s.queue = r.queue /\ s.entered = r.entered
          /\ s.draining = "active" <=> r.draining = "active"
        BY <1>2 DEF Drains
    <2>2. Len(r.queue) <= Len(s.queue)
        BY <2>1, Lengths DEF LocalInv, Chained
    <2> QED BY <2>1, <2>2, Queues DEF LocalInv, Chained
<1> QED BY <1>1, <1>2

(* Starting or joining a drain keeps a handle, for a caller that is still
   served or a close that waits for it. *)
LEMMA DrainsKeeps ==
    ASSUME NEW h \in Handles, NEW r \in HandleState, LocalInv(h, r),
           r.phase \in {"open", "stored", "broken", "live", "closeDrain", "closeWake",
                        "closeChain"},
           NEW s \in HandleState, Drains(r, s),
           s.flush = "op" <=> r.flush = "op",
           s.flush = "drained" => s.phase = "closeDrain",
           s.flush # "idle" => s.entered,
           s.want <= Len(s.log), s.asked <= Len(s.log), s.owed <= Len(s.log),
           s.flush \in {"drained", "op"} \/ (s.flush = "drain" /\ s.draining = "done") =>
                s.want <= s.cursor,
           \/ s.phase = r.phase /\ r.entered
           \/ s.phase = "closeDrain" /\ r.ahead = 0
    PROVE  LocalInv(h, s)
<1>1. /\ s.queue \in {<<>>, <<"append">>, <<"drain">>, <<"flush">>, <<"flush", "drain">>}
      /\ s.draining = "active" <=> s.queue \in {<<"drain">>, <<"flush", "drain">>}
      /\ r.queue \in {<<"flush">>, <<"flush", "drain">>}
            <=> s.queue \in {<<"flush">>, <<"flush", "drain">>}
      /\ s.queue = <<"drain">> => r.queue \in {<<>>, <<"drain">>}
      /\ s.queue = <<"append">> => r.queue = <<"append">>
      /\ s.queue = <<>> => r.queue = <<>>
      /\ s.queue # <<"append">> \/ ~s.entered
      /\ s.queue # r.queue => r.entered
      /\ Len(r.queue) <= Len(s.queue)
    BY DrainsChain
<1>2. /\ r.entered => r.phase \in {"live", "closeDrain", "closeWake", "closeChain"}
      /\ r.paused \in BOOLEAN /\ r.timer \in BOOLEAN /\ s.timer \in BOOLEAN
      /\ r.draining \in {"none", "active", "done", "failed"} /\ s.draining # "none"
    BY Fields DEF LocalInv, Gathered, Drains, DrainStates
<1>3. Chained(s)
    <2>1. s.flush = "drained" => Closing(s)
        BY DEF Closing
    <2>2. s.queue # <<>> =>
            s.phase \in {"open", "stored", "live", "closeDrain", "closeWake", "closeChain"}
        BY <1>1, <1>2
    <2>3. s.stage # "rest" => s.queue # <<>>
        <3>1. r.stage # "rest" => r.queue # <<>>
            BY DEF LocalInv, Chained
        <3>2. s.stage = r.stage
            BY DEF Drains
        <3> QED BY <1>1, <3>1, <3>2
    <2>4. s.flush = "op" <=> s.queue \in {<<"flush">>, <<"flush", "drain">>}
        BY <1>1 DEF LocalInv, Chained
    <2> QED BY <1>1, <1>2, <2>1, <2>2, <2>3, <2>4 DEF Chained
<1>4. Gathered(s)
    <2>1. s.batch # <<>> <=> s.queue = <<"append">> \/ (s.queue = <<"drain">> /\ s.stage # "rest")
        <3>1. s.batch = r.batch /\ s.stage = r.stage
            BY DEF Drains
        <3>2. r.stage # "rest" => (s.queue = <<"drain">> <=> r.queue = <<"drain">>)
            BY <1>1, Queues DEF LocalInv, Chained, Drains
        <3>3. s.queue = <<"append">> <=> r.queue = <<"append">>
            BY <1>1, Queues DEF LocalInv, Chained
        <3> QED BY <3>1, <3>2, <3>3 DEF LocalInv, Gathered
    <2>2. s.draining = "active" /\ s.batch = <<>> => s.buffered # <<>>
        BY <1>2 DEF LocalInv, Gathered, Drains
    <2>3. s.paused => s.buffered # <<>> /\ s.draining \in {"none", "failed"}
        BY <1>2 DEF LocalInv, Gathered, Drains
    <2>4. s.entered =>
            s.phase \in {"live", "closeDrain", "closeWake", "closeChain", "releasing", "unlocked"}
        BY <1>2 DEF Drains
    <2>5. s.phase = "live" => s.entered
        BY <1>2 DEF Drains
    <2>6. ~s.entered =>
            /\ s.buffered = <<>> /\ ~s.timer /\ ~s.paused
            /\ s.draining \in {"none", "done"} /\ s.flush = "idle"
        <3>1. ~s.entered => /\ r.buffered = <<>> /\ ~r.timer /\ ~r.paused
                            /\ r.draining \in {"none", "done"}
            BY DEF LocalInv, Gathered, Drains
        <3> QED BY <1>2, <3>1 DEF Drains
    <2>7. s.entered /\ s.buffered # <<>> => s.timer \/ s.draining = "active" \/ s.paused
        <3>1. CASE r.draining \in {"none", "active"}
            BY <3>1 DEF Drains
        <3>2. CASE r.draining \in {"done", "failed"}
            BY <1>2, <3>2 DEF LocalInv, Gathered, Drains
        <3> QED BY <1>2, <3>1, <3>2
    <2> QED BY <2>1, <2>2, <2>3, <2>4, <2>5, <2>6, <2>7 DEF Gathered
<1>5. Recorded(h, s)
    <2>1. Drained(s) = Drained(r)
        <3>1. s.queue = <<"append">> <=> r.queue = <<"append">>
            BY <1>1, Queues DEF LocalInv, Chained
        <3> QED BY <3>1 DEF Drained, Drains
    <2> QED BY <2>1 DEF LocalInv, Recorded, Drains
<1>6. Primed(s)
    <2>1. s.phase \notin {"unborn", "claimed", "locked", "dead"}
        BY <1>2
    <2>2. s.stage # "rest" /\ s.flush = "op" => ~s.materialized
        BY DEF LocalInv, Primed, Drains, SameFile
    <2> QED BY <2>1, <2>2 DEF LocalInv, Primed, Drains, SameFile
<1>7. Awaited(s)
    <2>1. /\ r.ahead <= Len(r.queue) /\ (r.ahead > 0 => r.phase = "closeChain")
          /\ r.phase = "closeChain" /\ r.ahead = 0 =>
                r.queue \in {<<>>, <<"drain">>} /\ r.stage = "rest"
          /\ s.ahead = r.ahead /\ s.stage = r.stage /\ r.ahead \in 0..2
        BY Fields DEF LocalInv, Awaited, Drains
    <2>2. Len(r.queue) \in Nat /\ Len(s.queue) \in Nat
        BY Fields DEF Chain
    <2>3. s.ahead <= Len(s.queue)
        BY <1>1, <2>1, <2>2
    <2>4. s.ahead > 0 => s.phase = "closeChain"
        BY <2>1
    <2>5. s.phase = "closeChain" /\ s.ahead = 0 =>
            s.queue \in {<<>>, <<"drain">>} /\ s.stage = "rest"
        <3>1. r.queue \in {<<>>, <<"drain">>} => s.queue \in {<<>>, <<"drain">>}
            BY <1>1, Queues DEF LocalInv, Chained
        <3> QED BY <2>1, <3>1
    <2> QED BY <2>3, <2>4, <2>5 DEF Awaited
<1> QED BY <1>3, <1>4, <1>5, <1>6, <1>7 DEF LocalInv

(* Nothing of a drain is under way once it is over, or before it begins. *)
LEMMA NoDrain ==
    ASSUME NEW h \in Handles, NEW r \in HandleState, LocalInv(h, r), r.draining # "active"
    PROVE  Drained(r) = <<>> /\ Len(r.log) = r.cursor + Len(r.buffered)
<1>1. Drained(r) = <<>>
    BY Queues DEF LocalInv, Chained, Gathered, Drained
<1> QED BY <1>1, NoEvents, Fields DEF LocalInv, Recorded, Story

(* The batching timer. *)
LEMMA FireKeeps ==
    ASSUME NEW h \in Handles, NEW r \in HandleState, LocalInv(h, r), r.entered, ~Settling(r),
           r.phase \in {"live", "closeDrain", "closeWake", "closeChain"}
    PROVE  LET s == DrainLive([r EXCEPT !.timer = FALSE]) IN
           /\ LocalInv(h, s) /\ s \in HandleState
           /\ SameFile(r, s) /\ SameLog(r, s) /\ SameCallers(r, s) /\ s.cursor = r.cursor
<1> DEFINE t == [r EXCEPT !.timer = FALSE]
           s == DrainLive(t)
<1>1. t \in HandleState
    BY Typed, ZenonT(20) DEF HandleState
<1>2. /\ t.queue = r.queue /\ t.stage = r.stage /\ t.batch = r.batch /\ t.cursor = r.cursor
      /\ t.ahead = r.ahead
      /\ SameFile(r, t) /\ SameLog(r, t) /\ SameCallers(r, t)
      /\ t.buffered = r.buffered /\ t.draining = r.draining /\ t.paused = r.paused
      /\ t.timer = FALSE
    BY DEF HandleState, SameFile, SameLog, SameCallers
<1> HIDE DEF t
<1>3. s \in HandleState /\ Drains(t, s) /\ SameCallers(t, s) /\ SameLog(t, s)
    BY <1>1, DrainLiveDrains
<1> HIDE DEF s
<1>4. r.draining \notin {"done", "failed"} /\ r.flush # "drained"
    BY DEF Settling
<1>5. Drains(r, s)
    <2>1. s.timer => r.timer
        BY <1>2, <1>3 DEF Drains
    <2> QED BY <1>2, <1>3, <1>4, <2>1 DEF Drains, SameFile, SameLog
<1>6. SameFile(r, s) /\ SameLog(r, s) /\ SameCallers(r, s)
    BY <1>2, <1>3, <1>5 DEF Drains, SameLog, SameCallers
<1>7. s.flush \in {"drained", "op"} \/ (s.flush = "drain" /\ s.draining = "done") =>
            s.want <= s.cursor
    <2>1. s.flush = "drain" => r.draining = "active"
        BY <1>4, <1>6, Fields DEF LocalInv, Chained, SameCallers, DrainStates
    <2>2. s.draining = "done" => r.draining = "none"
        BY <1>4, <1>5 DEF Drains
    <2> QED BY <1>5, <1>6, <2>1, <2>2 DEF LocalInv, Recorded, Drains, SameCallers
<1>8. LocalInv(h, s)
    <2>1. /\ s.want <= Len(s.log) /\ s.asked <= Len(s.log) /\ s.owed <= Len(s.log)
          /\ s.flush = r.flush /\ s.phase = r.phase /\ s.entered
        BY <1>6 DEF LocalInv, Recorded, SameLog, SameCallers
    <2> QED BY <1>3, <1>4, <1>5, <1>7, <2>1, DrainsKeeps
<1>9. s.cursor = r.cursor
    BY <1>5 DEF Drains
<1>10. DrainLive([r EXCEPT !.timer = FALSE]) = s
    BY DEF s, t
<1> QED BY <1>3, <1>6, <1>8, <1>9, <1>10

(* What is left of a, within the bound m. *)
LEMMA Difference ==
    ASSUME NEW a \in Nat, NEW b \in Nat, NEW c \in Nat, NEW m \in Nat, b <= a, a <= m
    PROVE  /\ a \in 0..m /\ a - b \in 0..m /\ a - b <= a /\ a <= a
           /\ a = c + b => a - b = c
OBVIOUS

(* A flush waits for the drain it starts or joins.  One that is over has
   stored what its flush wants; an active one still will. *)
LEMMA FlushKeeps ==
    ASSUME NEW h \in Handles, NEW r \in HandleState, LocalInv(h, r), r.entered,
           r.flush \in {"idle", "drain"},
           r.phase \in {"live", "closeDrain", "closeWake", "closeChain"}
    PROVE  LET d == DrainLive(r)
               s == [d EXCEPT !.flush = "drain", !.asked = Len(r.log),
                              !.want = IF d.draining = "active" THEN Len(r.log)
                                       ELSE Len(r.log) - Len(r.buffered)] IN
           /\ LocalInv(h, s) /\ s \in HandleState
           /\ SameFile(r, s) /\ SameLog(r, s) /\ s.cursor = r.cursor
           /\ s.phase = r.phase /\ s.failed = r.failed
<1> DEFINE d == DrainLive(r)
           w == IF d.draining = "active" THEN Len(r.log) ELSE Len(r.log) - Len(r.buffered)
           s == [d EXCEPT !.flush = "drain", !.asked = Len(r.log), !.want = w]
<1>1. /\ Len(r.log) \in Nat /\ Len(r.buffered) \in Nat /\ r.cursor \in Nat
      /\ Len(r.buffered) <= Len(r.log) /\ Len(r.log) <= MaxEvents
    <2>1. Len(Drained(r)) \in Nat
        BY Fields, NoEvents DEF Drained
    <2>2. Len(r.log) = r.cursor + Len(Drained(r)) + Len(r.buffered) /\ Len(r.log) <= MaxEvents
        BY DEF LocalInv, Recorded, Story
    <2> QED BY <2>1, <2>2, Fields
<1>2. d \in HandleState /\ Drains(r, d) /\ SameCallers(r, d) /\ SameLog(r, d)
    BY DrainLiveDrains
<1> HIDE DEF d
<1>3. /\ w \in Count /\ w <= Len(r.log) /\ Len(r.log) \in Count
      /\ d.draining = "done" => w = r.cursor
    <2>1. d.draining = "done" => Len(r.log) = r.cursor + Len(r.buffered)
        <3>1. d.draining = "done" => r.draining # "active"
            BY <1>2 DEF Drains
        <3> QED BY <3>1, NoDrain
    <2>2. w = Len(r.log) \/ w = Len(r.log) - Len(r.buffered)
        OBVIOUS
    <2>3. d.draining = "done" => w = Len(r.log) - Len(r.buffered)
        OBVIOUS
    <2>4. /\ Len(r.log) \in 0..MaxEvents /\ Len(r.log) - Len(r.buffered) \in 0..MaxEvents
          /\ Len(r.log) - Len(r.buffered) <= Len(r.log) /\ Len(r.log) <= Len(r.log)
          /\ Len(r.log) = r.cursor + Len(r.buffered) =>
                Len(r.log) - Len(r.buffered) = r.cursor
        <3> DEFINE a == Len(r.log)
                   b == Len(r.buffered)
                   c == r.cursor
        <3>1. a \in Nat /\ b \in Nat /\ c \in Nat /\ MaxEvents \in Nat /\ b <= a /\ a <= MaxEvents
            BY <1>1, HandlesAssumption
        <3> HIDE DEF a, b, c
        <3>2. /\ a \in 0..MaxEvents /\ a - b \in 0..MaxEvents /\ a - b <= a /\ a <= a
              /\ a = c + b => a - b = c
            BY <3>1, Difference, Zenon
        <3> QED BY <3>2 DEF a, b, c
    <2>5. d.draining = "done" => Len(r.log) - Len(r.buffered) = r.cursor
        BY <2>1, <2>4
    <2> HIDE DEF w
    <2>6. w \in 0..MaxEvents /\ w <= Len(r.log)
        BY <2>2, <2>4
    <2> QED BY <2>3, <2>4, <2>5, <2>6 DEF Count
<1> HIDE DEF w
<1>4. s \in HandleState
    BY <1>2, <1>3, Typed, ZenonT(20) DEF HandleState
<1>5. /\ s.stage = d.stage /\ s.batch = d.batch /\ s.cursor = d.cursor /\ s.ahead = d.ahead
      /\ s.queue = d.queue /\ SameFile(d, s) /\ SameLog(d, s) /\ SameBuffer(d, s)
      /\ s.phase = d.phase /\ s.failed = d.failed
      /\ s.flush = "drain" /\ s.asked = Len(r.log) /\ s.want = w
    BY <1>2 DEF HandleState, SameFile, SameLog, SameBuffer
<1>6. s = [DrainLive(r) EXCEPT !.flush = "drain", !.asked = Len(r.log),
                !.want = IF DrainLive(r).draining = "active" THEN Len(r.log)
                         ELSE Len(r.log) - Len(r.buffered)]
    BY DEF w, d
<1> HIDE DEF s
<1>7. Drains(r, s)
    BY <1>2, <1>5 DEF Drains, SameFile, SameLog, SameBuffer
<1>8. s.phase = r.phase /\ s.failed = r.failed /\ SameLog(r, s) /\ SameFile(r, s)
    BY <1>2, <1>5, <1>7 DEF SameLog, SameCallers, Drains
<1>9. LocalInv(h, s)
    <2>1. r.flush # "op" /\ s.entered
        BY <1>8 DEF SameLog
    <2>2. /\ s.want <= Len(s.log) /\ s.asked <= Len(s.log) /\ s.owed <= Len(s.log)
        BY <1>1, <1>3, <1>5, <1>8 DEF LocalInv, Recorded, SameLog
    <2>3. s.draining = "done" => s.want <= s.cursor
        BY <1>1, <1>3, <1>5, <1>7 DEF SameBuffer, Drains
    <2> QED BY <1>4, <1>5, <1>7, <1>8, <2>1, <2>2, <2>3, DrainsKeeps
<1>10. s.cursor = r.cursor
    BY <1>7 DEF Drains
<1> QED BY <1>4, <1>6, <1>8, <1>9, <1>10

(* Close remembers what its session had published and drains. *)
LEMMA CloseKeeps ==
    ASSUME NEW h \in Handles, NEW r \in HandleState, LocalInv(h, r),
           r.phase \in {"open", "stored", "broken", "live"}
    PROVE  LET s == DrainLive([r EXCEPT !.phase = "closeDrain", !.owed = Len(r.log)]) IN
           /\ LocalInv(h, s) /\ s \in HandleState
           /\ SameFile(r, s) /\ s.cursor = r.cursor /\ s.phase = "closeDrain"
           /\ s.log = r.log /\ s.entered = r.entered
<1> DEFINE t == [r EXCEPT !.phase = "closeDrain", !.owed = Len(r.log)]
           s == DrainLive(t)
<1>0. Len(r.log) \in Count /\ Len(r.log) \in Nat
    <2>1. Len(r.log) <= MaxEvents
        BY DEF LocalInv, Recorded, Story
    <2> QED BY <2>1, Fields DEF Count
<1>1. t \in HandleState
    BY <1>0, Typed, ZenonT(20) DEF HandleState
<1>2. /\ t.stage = r.stage /\ t.batch = r.batch /\ t.cursor = r.cursor /\ t.queue = r.queue
      /\ t.ahead = r.ahead
      /\ SameFile(r, t) /\ SameBuffer(r, t)
      /\ t.log = r.log /\ t.owed = Len(r.log) /\ t.entered = r.entered
      /\ t.phase = "closeDrain" /\ t.flush = r.flush /\ t.want = r.want /\ t.asked = r.asked
    BY DEF HandleState, SameFile, SameBuffer
<1> HIDE DEF t
<1>3. s \in HandleState /\ Drains(t, s) /\ SameCallers(t, s) /\ SameLog(t, s)
    BY <1>1, DrainLiveDrains
<1> HIDE DEF s
<1>4. Drains(r, s)
    BY <1>2, <1>3 DEF Drains, SameFile, SameBuffer, SameLog
<1>5. /\ s.flush = r.flush /\ s.want = r.want /\ s.asked = r.asked /\ s.phase = "closeDrain"
      /\ s.owed = Len(r.log) /\ s.log = r.log /\ s.entered = r.entered /\ s.cursor = r.cursor
    BY <1>2, <1>3 DEF SameCallers, SameLog, Drains
<1>6. r.ahead = 0
    BY Fields DEF LocalInv, Awaited
<1>7. s.flush # "idle" => s.entered
    BY <1>5 DEF LocalInv, Gathered
<1>8. s.flush \in {"drained", "op"} \/ (s.flush = "drain" /\ s.draining = "done") =>
            s.want <= s.cursor
    <2>1. s.flush = "drain" => r.draining # "none"
        BY <1>5 DEF LocalInv, Chained
    <2>2. r.draining # "none" => s.draining = r.draining
        BY <1>4 DEF Drains
    <2> QED BY <1>5, <2>1, <2>2 DEF LocalInv, Recorded
<1>9. LocalInv(h, s)
    <2>1. s.want <= Len(s.log) /\ s.asked <= Len(s.log) /\ s.owed <= Len(s.log)
        BY <1>0, <1>5 DEF LocalInv, Recorded
    <2> QED BY <1>3, <1>4, <1>5, <1>6, <1>7, <1>8, <2>1, DrainsKeeps
<1>10. s = DrainLive([r EXCEPT !.phase = "closeDrain", !.owed = Len(r.log)])
    BY DEF s, t
<1>11. SameFile(r, s)
    BY <1>4 DEF Drains
<1> QED BY <1>3, <1>5, <1>9, <1>10, <1>11

(* A drain that is over is cleared, and those who joined it go on or are told. *)
LEMMA FinallyKeeps ==
    ASSUME NEW h \in Handles, NEW r \in HandleState, LocalInv(h, r),
           r.draining \in {"done", "failed"}
    PROVE  LET rejected == r.flush = "drain" /\ r.draining = "failed"
               failed == r.failed \/ (r.phase = "closeDrain" /\ r.draining = "failed")
               s == [r EXCEPT
                        !.draining = "none",
                        !.flush = IF rejected THEN "idle" ELSE IF @ = "drain" THEN "drained" ELSE @,
                        !.asked = IF rejected THEN 0 ELSE @,
                        !.want = IF rejected THEN 0 ELSE @,
                        !.phase = IF @ = "closeDrain" THEN "closeWake" ELSE @,
                        !.failed = failed,
                        !.owed = IF failed THEN 0 ELSE @] IN
           /\ LocalInv(h, s) /\ s \in HandleState
           /\ SameFile(r, s) /\ s.cursor = r.cursor /\ s.log = r.log
           /\ s.phase = IF r.phase = "closeDrain" THEN "closeWake" ELSE r.phase
           /\ ~s.failed => ~r.failed /\ s.owed = r.owed
<1> DEFINE rejected == r.flush = "drain" /\ r.draining = "failed"
           failed == r.failed \/ (r.phase = "closeDrain" /\ r.draining = "failed")
           flush == IF rejected THEN "idle" ELSE IF r.flush = "drain" THEN "drained" ELSE r.flush
           asked == IF rejected THEN 0 ELSE r.asked
           want == IF rejected THEN 0 ELSE r.want
           phase == IF r.phase = "closeDrain" THEN "closeWake" ELSE r.phase
           owed == IF failed THEN 0 ELSE r.owed
           s == [r EXCEPT !.draining = "none", !.flush = flush, !.asked = asked,
                          !.want = want, !.phase = phase, !.failed = failed, !.owed = owed]
<1>1. /\ flush \in Waits /\ asked \in Count /\ want \in Count /\ phase \in Phases
      /\ owed \in Count /\ failed \in BOOLEAN
    BY Typed, Fields
<1>2. /\ flush = IF rejected THEN "idle" ELSE IF r.flush = "drain" THEN "drained" ELSE r.flush
      /\ asked = IF rejected THEN 0 ELSE r.asked
      /\ want = IF rejected THEN 0 ELSE r.want
      /\ phase = IF r.phase = "closeDrain" THEN "closeWake" ELSE r.phase
      /\ owed = IF failed THEN 0 ELSE r.owed
      /\ ~failed => ~r.failed
      /\ r.failed => failed
    OBVIOUS
<1>3. s = [r EXCEPT
             !.draining = "none",
             !.flush = IF rejected THEN "idle" ELSE IF @ = "drain" THEN "drained" ELSE @,
             !.asked = IF rejected THEN 0 ELSE @,
             !.want = IF rejected THEN 0 ELSE @,
             !.phase = IF @ = "closeDrain" THEN "closeWake" ELSE @,
             !.failed = failed,
             !.owed = IF failed THEN 0 ELSE @]
    OBVIOUS
<1> HIDE DEF flush, asked, want, phase, owed, failed
<1>4. s \in HandleState
    BY <1>1, Typed, ZenonT(20) DEF HandleState
<1>5. /\ s.stage = r.stage /\ s.batch = r.batch /\ s.cursor = r.cursor /\ s.queue = r.queue
      /\ s.ahead = r.ahead /\ SameFile(r, s) /\ s.log = r.log /\ s.entered = r.entered
      /\ s.buffered = r.buffered /\ s.timer = r.timer /\ s.paused = r.paused
      /\ s.draining = "none" /\ s.flush = flush /\ s.asked = asked /\ s.want = want
      /\ s.phase = phase /\ s.failed = failed /\ s.owed = owed
    BY DEF HandleState, SameFile
<1> HIDE DEF s
<1>6. /\ r.queue \in {<<>>, <<"append">>, <<"flush">>}
      /\ r.flush \in {"idle", "drain", "drained", "op"}
    BY Queues, Fields DEF LocalInv, Chained, Waits
<1>7. Chained(s)
    <2>1. s.flush = "op" <=> s.queue \in {<<"flush">>, <<"flush", "drain">>}
        BY <1>2, <1>5 DEF LocalInv, Chained
    <2>2. s.flush # "drain" /\ s.phase # "closeDrain"
        BY <1>2, <1>5
    <2>3. s.flush = "drained" => Closing(s) \/ (s.draining = "none" /\ s.queue = <<>>)
        <3>1. CASE r.flush = "drained"
            <4>1. Closing(r)
                BY <3>1 DEF LocalInv, Chained
            <4> QED BY <1>2, <1>5, <4>1 DEF Closing, Left
        <3>2. CASE r.flush = "drain"
            <4>1. r.queue = <<>> \/ r.phase = "closed"
                BY <1>6, <3>2, Queues DEF LocalInv, Chained, Gathered
            <4> QED BY <1>2, <1>5, <4>1 DEF Closing, Left
        <3> QED BY <1>2, <1>5, <3>1, <3>2
    <2>4. s.queue # <<>> =>
            s.phase \in {"open", "stored", "live", "closeDrain", "closeWake", "closeChain"}
        BY <1>2, <1>5, <1>6, Queues DEF LocalInv, Chained
    <2>5. s.queue = <<"append">> => ~s.entered
        BY <1>5 DEF LocalInv, Chained
    <2>6. s.stage # "rest" => s.queue # <<>>
        BY <1>5 DEF LocalInv, Chained
    <2> QED BY <1>5, <1>6, <2>1, <2>2, <2>3, <2>4, <2>5, <2>6, Queues DEF Chained
<1>8. Gathered(s)
    BY <1>2, <1>5 DEF LocalInv, Gathered
<1>9. Recorded(h, s)
    <2>1. Drained(s) = Drained(r)
        BY <1>5 DEF Drained
    <2>2. Len(s.log) \in Nat
        BY <1>4, Fields
    <2>3. s.want <= Len(s.log) /\ s.asked <= Len(s.log) /\ s.owed <= Len(s.log)
        BY <1>2, <1>5, <2>2 DEF LocalInv, Recorded
    <2>4. s.flush \in {"drained", "op"} => s.want <= s.cursor
        BY <1>2, <1>5 DEF LocalInv, Recorded
    <2> QED BY <1>5, <2>1, <2>3, <2>4 DEF LocalInv, Recorded
<1>10. Primed(s)
    <2>1. s.flush = "op" <=> r.flush = "op"
        BY <1>2, <1>5
    <2>2. \A p \in {"unborn", "claimed", "locked", "dead"} : s.phase = p <=> r.phase = p
        BY <1>2, <1>5
    <2> QED BY <1>5, <2>1, <2>2 DEF LocalInv, Primed, SameFile
<1>11. Awaited(s)
    BY <1>2, <1>5 DEF LocalInv, Awaited
<1>12. LocalInv(h, s)
    BY <1>7, <1>8, <1>9, <1>10, <1>11 DEF LocalInv
<1>13. ~s.failed => ~r.failed /\ s.owed = r.owed
    BY <1>2, <1>5
<1>14. s.phase = IF r.phase = "closeDrain" THEN "closeWake" ELSE r.phase
    BY <1>2, <1>5
<1> QED BY <1>3, <1>4, <1>5, <1>12, <1>13, <1>14 DEF failed

(* A flush behind its drain has its own operation, which a closing handle
   refuses. *)
LEMMA ResumeKeeps ==
    ASSUME NEW h \in Handles, NEW r \in HandleState, LocalInv(h, r), r.flush = "drained"
    PROVE  LET s == IF Closing(r) THEN [r EXCEPT !.flush = "idle", !.asked = 0, !.want = 0]
                    ELSE [r EXCEPT !.flush = "op", !.queue = Append(@, "flush")] IN
           /\ LocalInv(h, s) /\ s \in HandleState
           /\ SameFile(r, s) /\ SameLog(r, s) /\ s.cursor = r.cursor
           /\ s.phase = r.phase /\ s.failed = r.failed
<1> DEFINE a == [r EXCEPT !.flush = "idle", !.asked = 0, !.want = 0]
           b == [r EXCEPT !.flush = "op", !.queue = <<"flush">>]
           Good(x) == /\ LocalInv(h, x) /\ x \in HandleState
                      /\ SameFile(r, x) /\ SameLog(r, x) /\ x.cursor = r.cursor
                      /\ x.phase = r.phase /\ x.failed = r.failed
<1>1. CASE Closing(r)
    <2>1. a \in HandleState
        BY Typed, ZenonT(20) DEF HandleState
    <2>2. /\ a.stage = r.stage /\ a.batch = r.batch /\ a.cursor = r.cursor /\ a.queue = r.queue
          /\ a.ahead = r.ahead /\ SameFile(r, a) /\ SameLog(r, a) /\ SameBuffer(r, a)
          /\ a.phase = r.phase /\ a.failed = r.failed
          /\ a.flush = "idle" /\ a.asked = 0 /\ a.want = 0
        BY DEF HandleState, SameFile, SameLog, SameBuffer
    <2> HIDE DEF a
    <2>3. Chained(a)
        BY <2>2 DEF LocalInv, Chained, SameLog, SameBuffer, Left
    <2>4. Gathered(a)
        BY <2>2 DEF LocalInv, Gathered, SameLog, SameBuffer
    <2>5. Recorded(h, a)
        <3>1. Drained(a) = Drained(r)
            BY <2>2 DEF Drained
        <3> QED BY <2>1, <2>2, <3>1, Fields DEF LocalInv, Recorded, SameLog, SameBuffer
    <2>6. Primed(a)
        BY <2>2 DEF LocalInv, Primed, SameFile, SameLog
    <2>7. Awaited(a)
        BY <2>2 DEF LocalInv, Awaited
    <2>8. Good(a)
        BY <2>1, <2>2, <2>3, <2>4, <2>5, <2>6, <2>7 DEF LocalInv
    <2> HIDE DEF Good
    <2>9. Good([r EXCEPT !.flush = "idle", !.asked = 0, !.want = 0])
        BY <2>8 DEF a
    <2> QED BY <1>1, <2>9 DEF Good
<1>2. CASE ~Closing(r)
    <2>1. /\ r.queue = <<>> /\ r.draining = "none" /\ r.phase = "live" /\ r.entered
          /\ r.stage = "rest" /\ r.batch = <<>>
        <3>1. r.queue = <<>> /\ r.draining = "none" /\ r.stage = "rest"
            BY <1>2 DEF LocalInv, Chained
        <3>2. r.phase \notin {"closeDrain", "closeWake", "closeChain", "releasing", "unlocked",
                              "closed"}
            BY <1>2 DEF Closing, Left
        <3> QED BY <3>1, <3>2, Queues DEF LocalInv, Gathered
    <2>2. b \in HandleState
        BY Typed, Queues, ZenonT(20) DEF HandleState
    <2>3. /\ b.stage = "rest" /\ b.batch = <<>> /\ b.cursor = r.cursor /\ b.queue = <<"flush">>
          /\ b.ahead = r.ahead /\ SameFile(r, b) /\ SameLog(r, b) /\ SameBuffer(r, b)
          /\ b.phase = "live" /\ b.failed = r.failed
          /\ b.flush = "op" /\ b.asked = r.asked /\ b.want = r.want
        BY <2>1 DEF HandleState, SameFile, SameLog, SameBuffer
    <2> HIDE DEF b
    <2>4. Chained(b)
        BY <2>1, <2>3, Queues DEF Chained, SameLog, SameBuffer
    <2>5. Gathered(b)
        BY <2>1, <2>3, Queues DEF LocalInv, Gathered, SameLog, SameBuffer
    <2>6. Recorded(h, b)
        <3>1. Drained(b) = <<>> /\ Drained(r) = <<>>
            BY <2>1, <2>3 DEF Drained
        <3> QED BY <2>1, <2>3, <3>1 DEF LocalInv, Recorded, SameLog, SameBuffer
    <2>7. Primed(b)
        BY <2>1, <2>3 DEF LocalInv, Primed, SameFile, SameLog
    <2>8. Awaited(b)
        BY <2>1, <2>3, Fields, Lengths DEF LocalInv, Awaited
    <2>9. Good(b)
        BY <2>1, <2>2, <2>3, <2>4, <2>5, <2>6, <2>7, <2>8 DEF LocalInv
    <2>10. [r EXCEPT !.flush = "op", !.queue = Append(@, "flush")] = b
        <3>1. Append(r.queue, "flush") = <<"flush">>
            BY <2>1, Queues
        <3> QED BY <3>1 DEF b
    <2> HIDE DEF Good
    <2>11. Good([r EXCEPT !.flush = "op", !.queue = Append(@, "flush")])
        BY <2>9, <2>10
    <2> QED BY <1>2, <2>11 DEF Good
<1> QED BY <1>1, <1>2

(* close waits for the chain as it is. *)
LEMMA CloseWaitsKeeps ==
    ASSUME NEW h \in Handles, NEW r \in HandleState, LocalInv(h, r), r.phase = "closeWake"
    PROVE  LET s == [r EXCEPT !.phase = "closeChain", !.ahead = Len(r.queue)] IN
           /\ LocalInv(h, s) /\ s \in HandleState
           /\ SameFile(r, s) /\ SameLog(r, s) /\ s.cursor = r.cursor
           /\ s.phase = "closeChain"
<1> DEFINE s == [r EXCEPT !.phase = "closeChain", !.ahead = Len(r.queue)]
<1>1. /\ Len(r.queue) \in 0..2 /\ (Len(r.queue) = 0 => r.queue = <<>>)
      /\ r.queue = <<>> => r.stage = "rest"
    BY Lengths DEF LocalInv, Chained
<1>2. s \in HandleState
    BY <1>1, Typed, ZenonT(20) DEF HandleState
<1>3. /\ s.stage = r.stage /\ s.batch = r.batch /\ s.cursor = r.cursor /\ s.queue = r.queue
      /\ SameFile(r, s) /\ SameLog(r, s) /\ SameBuffer(r, s)
      /\ s.flush = r.flush /\ s.asked = r.asked /\ s.want = r.want /\ s.failed = r.failed
      /\ s.phase = "closeChain" /\ s.ahead = Len(r.queue)
    BY DEF HandleState, SameFile, SameLog, SameBuffer
<1> HIDE DEF s
<1>4. Chained(s)
    BY <1>3, Queues DEF LocalInv, Chained, SameLog, SameBuffer, Closing, Left
<1>5. Gathered(s)
    BY <1>3 DEF LocalInv, Gathered, SameLog, SameBuffer
<1>6. Recorded(h, s)
    <2>1. Drained(s) = Drained(r)
        BY <1>3 DEF Drained
    <2> QED BY <1>3, <2>1 DEF LocalInv, Recorded, SameLog, SameBuffer
<1>7. Primed(s)
    BY <1>3 DEF LocalInv, Primed, SameFile, SameLog
<1>8. Awaited(s)
    BY <1>1, <1>3 DEF Awaited
<1> QED BY <1>2, <1>3, <1>4, <1>5, <1>6, <1>7, <1>8 DEF LocalInv, s

(* close leaves its loop: with nothing in the buffer, or after a failure. *)
LEMMA LeavesLoopKeeps ==
    ASSUME NEW h \in Handles, NEW r \in HandleState, LocalInv(h, r), r.phase = "closeChain",
           r.ahead = 0, r.failed \/ r.buffered = <<>>
    PROVE  LET s == [r EXCEPT !.phase = "releasing"] IN
           /\ LocalInv(h, s) /\ s \in HandleState
           /\ SameFile(r, s) /\ SameLog(r, s) /\ s.cursor = r.cursor
           /\ s.phase = "releasing" /\ s.failed = r.failed
           /\ ~s.failed => s.cursor = Len(s.log)
<1> DEFINE s == [r EXCEPT !.phase = "releasing"]
<1>1. s \in HandleState
    BY Typed, ZenonT(20) DEF HandleState
<1>2. /\ s.stage = r.stage /\ s.batch = r.batch /\ s.cursor = r.cursor /\ s.queue = r.queue
      /\ SameFile(r, s) /\ SameLog(r, s) /\ SameBuffer(r, s) /\ s.ahead = r.ahead
      /\ s.flush = r.flush /\ s.asked = r.asked /\ s.want = r.want /\ s.failed = r.failed
      /\ s.phase = "releasing"
    BY DEF HandleState, SameFile, SameLog, SameBuffer
<1> HIDE DEF s
<1>3. r.queue \in {<<>>, <<"drain">>} /\ r.stage = "rest"
    BY DEF LocalInv, Awaited
<1>4. r.batch = <<>> /\ (r.queue = <<"drain">> => r.failed)
    BY <1>3, Queues DEF LocalInv, Chained, Gathered
<1>5. Chained(s)
    <2>1. Left(s) /\ Closing(s)
        BY <1>2 DEF Left, Closing
    <2> QED BY <1>2, <1>3, <1>4, <2>1, Queues DEF LocalInv, Chained, SameLog, SameBuffer
<1>6. Gathered(s)
    BY <1>2 DEF LocalInv, Gathered, SameLog, SameBuffer
<1>7. Recorded(h, s)
    <2>1. Drained(s) = Drained(r)
        BY <1>2 DEF Drained
    <2> QED BY <1>2, <2>1 DEF LocalInv, Recorded, SameLog, SameBuffer
<1>8. Primed(s)
    BY <1>2 DEF LocalInv, Primed, SameFile, SameLog
<1>9. Awaited(s)
    BY <1>2 DEF LocalInv, Awaited
<1>10. ~s.failed => s.cursor = Len(s.log)
    <2>1. ~r.failed => Drained(r) = <<>> /\ r.buffered = <<>>
        BY <1>4 DEF Drained
    <2> QED BY <1>2, <2>1, NoEvents, Fields DEF LocalInv, Recorded, Story, SameLog
<1> QED BY <1>1, <1>2, <1>5, <1>6, <1>7, <1>8, <1>9, <1>10 DEF LocalInv, s

(* ... or it drains once more. *)
LEMMA DrainsAgainKeeps ==
    ASSUME NEW h \in Handles, NEW r \in HandleState, LocalInv(h, r), r.phase = "closeChain",
           r.ahead = 0
    PROVE  LET s == DrainLive([r EXCEPT !.phase = "closeDrain"]) IN
           /\ LocalInv(h, s) /\ s \in HandleState
           /\ SameFile(r, s) /\ SameLog(r, s) /\ s.cursor = r.cursor /\ s.phase = "closeDrain"
<1> DEFINE t == [r EXCEPT !.phase = "closeDrain"]
           s == DrainLive(t)
<1>1. t \in HandleState
    BY Typed, ZenonT(20) DEF HandleState
<1>2. /\ t.stage = r.stage /\ t.batch = r.batch /\ t.cursor = r.cursor /\ t.queue = r.queue
      /\ t.ahead = r.ahead
      /\ SameFile(r, t) /\ SameBuffer(r, t) /\ SameLog(r, t)
      /\ t.phase = "closeDrain" /\ t.flush = r.flush /\ t.want = r.want /\ t.asked = r.asked
    BY DEF HandleState, SameFile, SameBuffer, SameLog
<1> HIDE DEF t
<1>3. s \in HandleState /\ Drains(t, s) /\ SameCallers(t, s) /\ SameLog(t, s)
    BY <1>1, DrainLiveDrains
<1> HIDE DEF s
<1>4. Drains(r, s)
    BY <1>2, <1>3 DEF Drains, SameFile, SameBuffer, SameLog
<1>5. /\ s.flush = r.flush /\ s.want = r.want /\ s.asked = r.asked /\ s.phase = "closeDrain"
      /\ SameLog(r, s) /\ SameFile(r, s) /\ s.cursor = r.cursor
    BY <1>2, <1>3, <1>4 DEF SameCallers, SameLog, Drains
<1>6. s.flush # "idle" => s.entered
    BY <1>5 DEF LocalInv, Gathered, SameLog
<1>7. s.flush \in {"drained", "op"} \/ (s.flush = "drain" /\ s.draining = "done") =>
            s.want <= s.cursor
    <2>1. s.flush = "drain" => r.draining # "none"
        BY <1>5 DEF LocalInv, Chained
    <2>2. r.draining # "none" => s.draining = r.draining
        BY <1>4 DEF Drains
    <2> QED BY <1>5, <2>1, <2>2 DEF LocalInv, Recorded
<1>8. LocalInv(h, s)
    <2>1. s.want <= Len(s.log) /\ s.asked <= Len(s.log) /\ s.owed <= Len(s.log)
        BY <1>5 DEF LocalInv, Recorded, SameLog
    <2> QED BY <1>3, <1>4, <1>5, <1>6, <1>7, <2>1, DrainsKeeps
<1>9. s = DrainLive([r EXCEPT !.phase = "closeDrain"])
    BY DEF s, t
<1> QED BY <1>3, <1>5, <1>8, <1>9

(* A life that has not begun, or has ended without a trace. *)
LEMMA FreshKeeps ==
    ASSUME NEW h \in Handles, NEW p \in {"unborn", "open", "dead"}
    PROVE  LET s == [Fresh EXCEPT !.phase = p] IN
           /\ LocalInv(h, s) /\ s \in HandleState
           /\ s.phase = p /\ s.log = <<>> /\ s.salvage = <<>> /\ s.owed = 0
           /\ s.cursor = 0 /\ ~s.materialized /\ ~s.lease /\ s.stage = "rest" /\ ~s.entered
<1> DEFINE s == [Fresh EXCEPT !.phase = p]
<1>1. Fresh \in HandleState
    BY Typed, Queues DEF Fresh, HandleState
<1>2. s \in HandleState
    BY <1>1, Typed, ZenonT(20) DEF HandleState
<1>3. /\ s.phase = p /\ s.entered = FALSE /\ s.log = <<>> /\ s.buffered = <<>>
      /\ s.batch = <<>> /\ s.queue = <<>> /\ s.stage = "rest" /\ s.draining = "none"
      /\ s.timer = FALSE /\ s.paused = FALSE /\ s.cursor = 0 /\ s.materialized = FALSE
      /\ s.torn = FALSE /\ s.tornAt = 0 /\ s.salvage = <<>> /\ s.lease = FALSE
      /\ s.flush = "idle" /\ s.want = 0 /\ s.owed = 0 /\ s.asked = 0 /\ s.ahead = 0
    BY DEF Fresh
<1> HIDE DEF s
<1>4. Chained(s)
    BY <1>3, Queues DEF Chained
<1>5. Gathered(s)
    BY <1>3, Queues DEF Gathered
<1>6. Recorded(h, s)
    <2>1. Drained(s) = <<>>
        BY <1>3 DEF Drained
    <2>2. Story(h, <<>>, 0, <<>>, <<>>)
        BY NoEvents, Fields, <1>2 DEF Story
    <2> QED BY <1>3, <2>1, <2>2, NoEvents, NoBatch, Typed DEF Recorded
<1>7. Primed(s)
    BY <1>3 DEF Primed
<1>8. Awaited(s)
    BY <1>3, Lengths DEF Awaited
<1> QED BY <1>2, <1>3, <1>4, <1>5, <1>6, <1>7, <1>8 DEF LocalInv, s

(* Claim and lock, before the log is read. *)
LEMMA ArrivesKeeps ==
    ASSUME NEW h \in Handles, NEW r \in HandleState, LocalInv(h, r),
           r.phase \in {"unborn", "claimed"},
           NEW s \in HandleState, s.phase \in {"claimed", "locked"},
           s.lease <=> s.phase = "locked",
           s.stage = r.stage, s.batch = r.batch, s.cursor = r.cursor, s.queue = r.queue,
           SameLog(r, s), SameBuffer(r, s), s.flush = r.flush,
           s.asked = r.asked, s.ahead = r.ahead,
           s.want = r.want, s.materialized = r.materialized, s.torn = r.torn,
           s.tornAt = r.tornAt, s.salvage = r.salvage
    PROVE  LocalInv(h, s)
<1>1. /\ r.queue = <<>> /\ r.stage = "rest" /\ ~r.entered /\ r.flush = "idle"
      /\ r.draining \in {"none", "done"} /\ r.ahead = 0
    BY Queues, Fields DEF LocalInv, Chained, Gathered, Awaited, Left
<1>2. Chained(s)
    BY <1>1, Queues DEF LocalInv, Chained, SameLog, SameBuffer
<1>3. Gathered(s)
    BY <1>1, Queues DEF LocalInv, Gathered, SameLog, SameBuffer
<1>4. Recorded(h, s)
    <2>1. Drained(s) = Drained(r)
        BY DEF Drained
    <2> QED BY <2>1 DEF LocalInv, Recorded, SameLog, SameBuffer
<1>5. Primed(s)
    BY <1>1 DEF LocalInv, Primed, SameLog
<1>6. Awaited(s)
    BY <1>1, Lengths DEF Awaited
<1> QED BY <1>2, <1>3, <1>4, <1>5, <1>6 DEF LocalInv

(* The lock goes back, then the claim. *)
LEMMA LeavesKeeps ==
    ASSUME NEW h \in Handles, NEW r \in HandleState, LocalInv(h, r),
           r.phase \in {"releasing", "unlocked"}, NEW p \in {"unlocked", "closed"},
           NEW s \in HandleState, s.phase = p,
           s.stage = r.stage, s.batch = r.batch, s.cursor = r.cursor, s.queue = r.queue,
           s.log = r.log, s.owed = r.owed, s.want = r.want, s.flush = r.flush,
           s.asked = r.asked, s.ahead = r.ahead, s.failed = r.failed,
           SameBuffer(r, s), SameFile(r, s),
           s.entered = IF p = "closed" THEN FALSE ELSE r.entered
    PROVE  LocalInv(h, s)
<1>1. /\ r.queue = <<>> \/ (r.queue = <<"drain">> /\ r.failed)
      /\ r.stage = "rest" /\ r.ahead = 0
    BY Queues, Fields DEF LocalInv, Chained, Awaited
<1>2. Chained(s)
    <2>1. Left(s) /\ Closing(s) /\ s.phase # "closeDrain"
        BY DEF Left, Closing
    <2> QED BY <1>1, <2>1, Queues DEF LocalInv, Chained, SameBuffer
<1>3. Gathered(s)
    BY <1>1, Queues DEF LocalInv, Gathered, SameBuffer
<1>4. Recorded(h, s)
    <2>1. Drained(s) = Drained(r)
        BY DEF Drained
    <2> QED BY <2>1 DEF LocalInv, Recorded, SameBuffer
<1>5. Primed(s)
    BY <1>1 DEF LocalInv, Primed, SameFile
<1>6. Awaited(s)
    BY <1>1, Lengths DEF Awaited
<1> QED BY <1>2, <1>3, <1>4, <1>5, <1>6 DEF LocalInv

(* The session enters its store with everything stored. *)
LEMMA EnterKeeps ==
    ASSUME NEW h \in Handles, NEW r \in HandleState, LocalInv(h, r),
           r.phase \in {"open", "stored"}, r.queue = <<>>
    PROVE  LET s == [r EXCEPT !.phase = "live", !.entered = TRUE] IN
           LocalInv(h, s) /\ s \in HandleState /\ SameFile(r, s)
<1> DEFINE s == [r EXCEPT !.phase = "live", !.entered = TRUE]
<1>1. s \in HandleState
    BY Typed, ZenonT(20) DEF HandleState
<1>2. /\ s.stage = r.stage /\ s.batch = r.batch /\ s.cursor = r.cursor /\ s.queue = r.queue
      /\ SameFile(r, s) /\ SameBuffer(r, s) /\ s.phase = "live" /\ s.entered = TRUE
      /\ s.log = r.log /\ s.owed = r.owed /\ s.want = r.want /\ s.flush = r.flush
      /\ s.asked = r.asked /\ s.ahead = r.ahead
    BY DEF HandleState, SameFile, SameBuffer
<1> HIDE DEF s
<1>3. /\ ~r.entered /\ r.draining \in {"none", "done"} /\ r.buffered = <<>> /\ ~r.paused
      /\ r.stage = "rest" /\ r.flush = "idle" /\ r.ahead = 0
    BY Queues, Fields DEF LocalInv, Chained, Gathered, Awaited
<1>4. Chained(s)
    BY <1>2, <1>3, Queues DEF LocalInv, Chained, SameBuffer
<1>5. Gathered(s)
    BY <1>2, <1>3, Queues DEF LocalInv, Gathered, SameBuffer
<1>6. Recorded(h, s)
    <2>1. Drained(s) = Drained(r)
        BY <1>2 DEF Drained
    <2> QED BY <1>2, <2>1 DEF LocalInv, Recorded, SameBuffer
<1>7. Primed(s)
    BY <1>2 DEF LocalInv, Primed, SameFile
<1>8. Awaited(s)
    BY <1>2, <1>3, Lengths DEF Awaited
<1> QED BY <1>1, <1>2, <1>4, <1>5, <1>6, <1>7, <1>8 DEF LocalInv, s

(* An explicit append, before the session is published. *)
LEMMA SuffixKeeps ==
    ASSUME NEW h \in Handles, NEW r \in HandleState, LocalInv(h, r),
           r.phase \in {"open", "stored"}, r.queue = <<>>,
           NEW b \in Events, b # <<>>, Batched(h, r.cursor, b)
    PROVE  LET s == [r EXCEPT !.batch = b, !.queue = <<"append">>] IN
           /\ LocalInv(h, s) /\ s \in HandleState
           /\ SameFile(r, s) /\ SameLog(r, s) /\ SameCallers(r, s) /\ s.cursor = r.cursor
<1> DEFINE s == [r EXCEPT !.batch = b, !.queue = <<"append">>]
<1>1. s \in HandleState
    BY Queues, ZenonT(20) DEF HandleState
<1>2. /\ s.stage = r.stage /\ s.batch = b /\ s.cursor = r.cursor /\ s.queue = <<"append">>
      /\ s.ahead = r.ahead
      /\ SameFile(r, s) /\ SameBuffer(r, s) /\ SameLog(r, s) /\ SameCallers(r, s)
    BY DEF HandleState, SameFile, SameBuffer, SameLog, SameCallers
<1> HIDE DEF s
<1>3. /\ ~r.entered /\ r.draining \in {"none", "done"} /\ r.buffered = <<>> /\ ~r.paused
      /\ r.stage = "rest" /\ r.flush = "idle" /\ r.ahead = 0
    BY Queues, Fields DEF LocalInv, Chained, Gathered, Awaited
<1>4. Chained(s)
    BY <1>2, <1>3, Queues DEF LocalInv, Chained, SameBuffer, SameLog, SameCallers
<1>5. Gathered(s)
    BY <1>2, <1>3, Queues DEF LocalInv, Gathered, SameBuffer, SameLog, SameCallers
<1>6. Recorded(h, s)
    <2>1. Drained(s) = <<>>
        BY <1>2 DEF Drained
    <2>2. Drained(r) = <<>>
        BY <1>3, Queues DEF LocalInv, Gathered, Drained
    <2> QED BY <1>2, <2>1, <2>2 DEF LocalInv, Recorded, SameBuffer, SameLog, SameCallers
<1>7. Primed(s)
    BY <1>2, <1>3 DEF LocalInv, Primed, SameFile, SameLog, SameCallers
<1>8. Awaited(s)
    BY <1>2, <1>3, Lengths DEF Awaited, SameCallers
<1> QED BY <1>1, <1>2, <1>4, <1>5, <1>6, <1>7, <1>8 DEF LocalInv, s

(* A published event waits in the buffer, with a timer or a pause. *)
LEMMA PublishKeeps ==
    ASSUME NEW h \in Handles, NEW r \in HandleState, LocalInv(h, r), r.entered,
           Len(r.log) < MaxEvents
    PROVE  LET e == [seq |-> Len(r.log) + 1, by |-> h, mark |-> FALSE]
               s == [r EXCEPT !.log = Append(@, e), !.buffered = Append(@, e),
                              !.timer = @ \/ ~r.paused] IN
           /\ LocalInv(h, s) /\ s \in HandleState
           /\ SameFile(r, s) /\ SameCallers(r, s) /\ s.cursor = r.cursor /\ s.owed = r.owed
           /\ Len(s.log) = Len(r.log) + 1
           /\ \A i \in 1..Len(r.log) : s.log[i] = r.log[i]
           /\ s.log[Len(r.log) + 1].by = h
<1> DEFINE e == [seq |-> Len(r.log) + 1, by |-> h, mark |-> FALSE]
           l == Append(r.log, e)
           b == Append(r.buffered, e)
           t == (r.timer \/ ~r.paused)
           s == [r EXCEPT !.log = l, !.buffered = b, !.timer = t]
<1>1. e \in Event /\ e.seq = Len(r.log) + 1 /\ e.by = h
    BY Fields DEF Event
<1> HIDE DEF e
<1>2. r.queue # <<"append">>
    BY DEF LocalInv, Chained
<1>3. /\ Story(h, l, r.cursor, Drained(r), b)
      /\ l \in Events /\ b \in Events /\ b # <<>>
      /\ Len(l) = Len(r.log) + 1
      /\ \A i \in 1..Len(r.log) : l[i] = r.log[i]
      /\ l[Len(r.log) + 1] = e
    <2>1. Drained(r) = r.batch
        BY <1>2 DEF Drained
    <2>2. Story(h, r.log, r.cursor, r.batch, r.buffered)
        BY <2>1 DEF LocalInv, Recorded
    <2>3. r.log \in Events /\ r.batch \in Events /\ r.buffered \in Events /\ r.cursor \in Nat
        BY Fields
    <2> DEFINE lg == r.log
               bt == r.batch
               bf == r.buffered
               n == r.cursor
    <2>4. /\ lg \in Events /\ bt \in Events /\ bf \in Events /\ n \in Nat
          /\ Story(h, lg, n, bt, bf) /\ e.seq = Len(lg) + 1 /\ Len(lg) < MaxEvents
        BY <1>1, <2>2, <2>3
    <2> HIDE DEF lg, bt, bf, n
    <2>5. Story(h, Append(lg, e), n, bt, Append(bf, e))
        BY <1>1, <2>4, StoryPublish, Zenon
    <2>6. /\ Append(lg, e) \in Events /\ Append(bf, e) \in Events
          /\ Append(bf, e) # <<>>
          /\ Len(Append(lg, e)) = Len(lg) + 1
          /\ \A i \in 1..Len(lg) : Append(lg, e)[i] = lg[i]
          /\ Append(lg, e)[Len(lg) + 1] = e
        BY <1>1, <2>4, AppendProperties DEF Events
    <2> QED BY <2>1, <2>5, <2>6 DEF lg, bt, bf, n
<1>4. t \in BOOLEAN /\ (t <=> r.timer \/ ~r.paused)
    BY Fields
<1> HIDE DEF l, b, t
<1>5. s \in HandleState
    BY <1>3, <1>4, ZenonT(20) DEF HandleState
<1>6. /\ s.stage = r.stage /\ s.batch = r.batch /\ s.cursor = r.cursor /\ s.queue = r.queue
      /\ SameFile(r, s) /\ SameCallers(r, s) /\ s.log = l /\ s.buffered = b /\ s.timer = t
      /\ s.draining = r.draining /\ s.paused = r.paused /\ s.owed = r.owed
      /\ s.entered = r.entered /\ s.ahead = r.ahead
    BY DEF HandleState, SameFile, SameCallers
<1>7. s = [r EXCEPT !.log = Append(@, e), !.buffered = Append(@, e), !.timer = @ \/ ~r.paused]
    BY DEF l, b, t
<1> HIDE DEF s
<1>8. Chained(s)
    BY <1>6 DEF LocalInv, Chained, SameCallers, Closing, Left
<1>9. Gathered(s)
    BY <1>3, <1>4, <1>6 DEF LocalInv, Gathered, SameCallers
<1>10. Recorded(h, s)
    <2>1. Drained(s) = Drained(r)
        BY <1>6 DEF Drained
    <2>2. r.want <= Len(l) /\ r.asked <= Len(l) /\ r.owed <= Len(l)
        BY <1>3, Fields DEF LocalInv, Recorded
    <2> QED BY <1>3, <1>6, <2>1, <2>2 DEF LocalInv, Recorded, SameCallers
<1>11. Primed(s)
    <2>1. s.phase \notin {"unborn", "claimed", "locked", "dead"}
        BY <1>6 DEF LocalInv, Gathered, SameCallers
    <2> QED BY <1>6, <2>1 DEF LocalInv, Primed, SameFile, SameCallers
<1>13. Awaited(s)
    BY <1>6 DEF LocalInv, Awaited, SameCallers
<1>12. LocalInv(h, s)
    BY <1>8, <1>9, <1>10, <1>11, <1>13 DEF LocalInv
<1> QED BY <1>1, <1>3, <1>5, <1>6, <1>7, <1>12 DEF e

(* A log that was read primes the handle and the session. *)
LEMMA AdoptKeeps ==
    ASSUME NEW h \in Handles, NEW r \in HandleState, LocalInv(h, r), r.phase = "locked",
           NEW s \in HandleState, s.phase = "open", Contiguous(s.log),
           s.cursor = Len(s.log), s.materialized, s.salvage # <<>> => s.torn,
           s.stage = r.stage, s.batch = r.batch, s.queue = r.queue, SameBuffer(r, s),
           s.lease = r.lease, s.entered = r.entered, s.flush = r.flush,
           s.asked = r.asked, s.ahead = r.ahead, s.want = r.want, s.owed = r.owed
    PROVE  LocalInv(h, s)
<1>3. /\ ~r.entered /\ r.draining \in {"none", "done"} /\ r.buffered = <<>> /\ ~r.paused
      /\ r.stage = "rest" /\ r.ahead = 0
      /\ r.flush = "idle" /\ r.queue = <<>> /\ r.batch = <<>> /\ r.log = <<>> /\ r.lease
    BY Queues, Fields DEF LocalInv, Chained, Gathered, Primed, Awaited, Left
<1>4. Chained(s)
    BY <1>3, Queues DEF LocalInv, Chained, SameBuffer
<1>5. Gathered(s)
    BY <1>3, Queues DEF LocalInv, Gathered, SameBuffer
<1>6. Recorded(h, s)
    <2>1. Drained(s) = <<>>
        BY <1>3 DEF Drained
    <2>2. Story(h, s.log, s.cursor, <<>>, <<>>)
        BY NoEvents, Fields, HandlesAssumption DEF Story, Contiguous, Count
    <2>3. Batched(h, s.cursor, <<>>)
        BY Fields, NoBatch
    <2>4. r.want = 0 /\ r.asked = 0 /\ r.owed = 0 /\ 0 <= Len(s.log)
        BY <1>3, Fields, NoEvents DEF LocalInv, Recorded
    <2> QED BY <1>3, <2>1, <2>2, <2>3, <2>4 DEF Recorded, SameBuffer
<1>7. Primed(s)
    BY <1>3 DEF Primed
<1>8. Awaited(s)
    BY <1>3, Lengths DEF Awaited
<1> QED BY <1>4, <1>5, <1>6, <1>7, <1>8 DEF LocalInv
-----------------------------------------------------------------------------
(* One handle moves *)

(* The others stay as they are. *)
LEMMA Moves ==
    ASSUME TypeOK, NEW h \in Handles, NEW s \in HandleState, Set(h, s)
    PROVE  /\ handle' \in [Handles -> HandleState]
           /\ handle'[h] = s
           /\ \A g \in Handles \ {h} : handle'[g] = handle[g]
BY DEF TypeOK, Set

(* Everything its session published before close is in the file, when a handle
   has nothing left to store: what it recovered from a torn tail is not its own. *)
LEMMA Settled ==
    ASSUME NEW h \in Handles, NEW s \in HandleState, LocalInv(h, s), Foreign(h, s.salvage),
           NEW st \in Events, s.cursor = Len(s.log),
           s.materialized =>
                /\ s.cursor = Len(st) + Len(s.salvage)
                /\ \A i \in 1..Len(st) : st[i] = s.log[i]
                /\ \A i \in 1..Len(s.salvage) : s.salvage[i] = s.log[Len(st) + i]
    PROVE  \A i \in 1..s.owed : s.log[i].by = h => i <= Len(st) /\ st[i] = s.log[i]
<1> SUFFICES ASSUME NEW i \in 1..s.owed, s.log[i].by = h
             PROVE  i <= Len(st) /\ st[i] = s.log[i]
    OBVIOUS
<1>1. Len(st) \in Nat /\ Len(s.log) \in Nat /\ Len(s.salvage) \in Nat /\ s.owed \in Nat
      /\ s.owed <= Len(s.log)
    BY NoEvents, Fields DEF LocalInv, Recorded
<1>2. s.materialized
    <2>1. ~s.materialized => s.cursor = 0
        BY DEF LocalInv, Primed
    <2> QED BY <1>1, <2>1
<1>3. CASE i <= Len(st)
    BY <1>1, <1>2, <1>3
<1>4. CASE ~(i <= Len(st))
    <2> DEFINE j == i - Len(st)
    <2>1. j \in 1..Len(s.salvage) /\ Len(st) + j = i
        BY <1>1, <1>2, <1>4
    <2> HIDE DEF j
    <2>2. s.salvage[j] = s.log[i]
        BY <1>2, <2>1
    <2> QED BY <2>1, <2>2 DEF Foreign
<1> QED BY <1>3, <1>4

(* One handle moves: the file only grows, and only under its lock. *)
LEMMA Moved ==
    ASSUME TypeOK, TypeOK', KeptInv, NEW h \in Handles,
           \A g \in Handles \ {h} : handle'[g] = handle[g],
           LocalInv(h, handle'[h]), DiskInv',
           exists => exists', Len(stored) <= Len(stored'),
           \A i \in 1..Len(stored) : stored'[i] = stored[i],
           disk' = disk \/ lock = h,
           \A g \in Handles \ {h} : lock = g <=> lock' = g,
           \A g \in Handles \ {h} :
                Foreign(g, stored) /\ Foreign(g, salvage) /\ Foreign(g, handle[h].log)
                    => /\ Foreign(g, stored') /\ Foreign(g, salvage')
                       /\ Foreign(g, handle'[h].log),
           Owned(h, handle[h])', Unheard(h, handle[h])', Covered(h, handle[h])'
    PROVE  KeptInv'
<1>1. Len(stored) \in Nat /\ Len(stored') \in Nat
    BY DEF TypeOK
<1> SUFFICES ASSUME NEW g \in Handles \ {h}
             PROVE  /\ LocalInv(g, handle'[g])
                    /\ Owned(g, handle[g])' /\ Unheard(g, handle[g])' /\ Covered(g, handle[g])'
    BY DEF KeptInv
<1>2. handle'[g] = handle[g] /\ g \in Handles /\ (lock = g <=> lock' = g)
    OBVIOUS
<1>3. /\ LocalInv(g, handle[g]) /\ Owned(g, handle[g]) /\ Unheard(g, handle[g])
      /\ Covered(g, handle[g])
    BY DEF KeptInv
<1>4. LocalInv(g, handle'[g])
    BY <1>2, <1>3
<1>5. Owned(g, handle[g])'
    <2>1. CASE lock' = g
        <3>1. disk' = disk
            BY <1>2, <2>1
        <3>2. stored' = stored /\ salvage' = salvage /\ exists' = exists
            BY <3>1 DEF disk
        <3> QED BY <1>2, <1>3, <2>1, <3>2 DEF Owned
    <2>2. CASE lock' # g
        BY <1>2, <1>3, <2>2 DEF Owned
    <2> QED BY <2>1, <2>2
<1>6. Unheard(g, handle[g])'
    <2> SUFFICES ASSUME handle[g].phase \in {"unborn", "claimed", "locked"}
                 PROVE  /\ Foreign(g, stored') /\ Foreign(g, salvage')
                        /\ \A x \in Handles : Foreign(g, handle'[x].log)
        BY <1>2, <1>3 DEF Unheard
    <2>1. /\ Foreign(g, stored) /\ Foreign(g, salvage)
          /\ \A x \in Handles : Foreign(g, handle[x].log)
        BY <1>3 DEF Unheard
    <2> QED BY <2>1
<1>7. Covered(g, handle[g])'
    BY <1>1, <1>2, <1>3 DEF Covered
<1> QED BY <1>4, <1>5, <1>6, <1>7

(* What a handle that neither writes nor opens nor gives up the lock keeps. *)
LEMMA Quiet ==
    ASSUME TypeOK, TypeOK', KeptInv, NEW h \in Handles, NEW r \in HandleState,
           r = handle[h], NEW s \in HandleState, Set(h, s), LocalInv(h, s),
           UNCHANGED <<disk, lock>>, UNCHANGED promised \/ DiskInv',
           SameFile(r, s), s.cursor = r.cursor,
           \A i \in 1..Len(r.log) : i <= Len(s.log) /\ s.log[i] = r.log[i],
           \A i \in 1..Len(s.log) : i \in 1..Len(r.log) \/ s.log[i].by = h,
           \/ /\ r.phase \notin {"unborn", "claimed", "locked"}
              /\ s.phase \notin {"unborn", "claimed", "locked"}
           \/ s.phase = r.phase /\ s.log = r.log,
           s.phase \in {"unlocked", "closed"} <=> r.phase \in {"unlocked", "closed"},
           s.phase \in {"releasing", "unlocked", "closed"} /\ ~s.failed =>
                \/ /\ r.phase \in {"releasing", "unlocked", "closed"} /\ ~r.failed
                   /\ s.owed = r.owed
                \/ s.phase = "releasing" /\ s.cursor = Len(s.log)
    PROVE  KeptInv'
<1>1. /\ handle' \in [Handles -> HandleState] /\ handle'[h] = s
      /\ \A g \in Handles \ {h} : handle'[g] = handle[g]
    BY Moves
<1>2. /\ LocalInv(h, r) /\ Owned(h, r) /\ Unheard(h, r) /\ Covered(h, r) /\ DiskInv
    BY DEF KeptInv
<1>3. /\ stored' = stored /\ salvage' = salvage /\ torn' = torn /\ exists' = exists
      /\ lock' = lock /\ disk' = disk
    BY DEF disk
<1>4. /\ Len(stored) \in Nat /\ Len(r.log) \in Nat /\ r.cursor <= Len(r.log)
      /\ Len(r.salvage) \in Nat /\ r.cursor \in Nat /\ Len(s.log) \in Nat
      /\ r.owed <= Len(r.log) /\ r.owed \in Nat
    <2>1. r.cursor <= Len(r.log) /\ r.owed <= Len(r.log)
        BY <1>2, Reached
    <2>2. Len(stored) \in Nat
        BY DEF TypeOK
    <2> QED BY <2>1, <2>2, Fields
<1>5. DiskInv'
    BY <1>2, <1>3 DEF DiskInv
<1>61. ASSUME lock' = h, s.materialized
      PROVE  /\ s.cursor = Len(stored') + Len(s.salvage)
             /\ \A i \in 1..Len(stored') : stored'[i] = s.log[i]
             /\ \A i \in 1..Len(s.salvage) : s.salvage[i] = s.log[Len(stored') + i]
             /\ s.torn => s.tornAt = Len(stored')
             /\ salvage' # <<>> => s.torn /\ salvage' = s.salvage
    <2>1. /\ r.cursor = Len(stored) + Len(r.salvage)
          /\ \A i \in 1..Len(stored) : stored[i] = r.log[i]
          /\ \A i \in 1..Len(r.salvage) : r.salvage[i] = r.log[Len(stored) + i]
          /\ r.torn => r.tornAt = Len(stored)
          /\ salvage # <<>> => r.torn /\ salvage = r.salvage
        BY <1>2, <1>3, <1>61 DEF Owned, SameFile
    <2>2. r.cursor = Len(stored) + Len(r.salvage)
        BY <2>1
    <2>3. /\ \A i \in 1..Len(stored) : i \in 1..Len(r.log)
          /\ \A i \in 1..Len(r.salvage) : Len(stored) + i \in 1..Len(r.log)
        BY <1>4, <2>2
    <2>4. \A i \in 1..Len(r.log) : s.log[i] = r.log[i]
        OBVIOUS
    <2>5. s.torn = r.torn /\ s.tornAt = r.tornAt /\ s.salvage = r.salvage
        BY DEF SameFile
    <2>6. /\ \A i \in 1..Len(stored) : stored[i] = s.log[i]
          /\ \A i \in 1..Len(s.salvage) : s.salvage[i] = s.log[Len(stored) + i]
        BY <2>1, <2>3, <2>4, <2>5
    <2> QED BY <1>3, <2>1, <2>2, <2>5, <2>6
<1>6. Owned(h, handle[h])'
    <2>1. /\ lock' = h <=> s.lease /\ s.phase \notin {"unlocked", "closed"}
          /\ s.materialized \/ s.phase = "locked" => exists'
        BY <1>2, <1>3 DEF Owned, SameFile
    <2> QED BY <1>1, <1>61, <2>1 DEF Owned
<1>7. Unheard(h, handle[h])'
    <2>1. CASE s.phase \notin {"unborn", "claimed", "locked"}
        BY <1>1, <1>2, <2>1 DEF Unheard, SameFile
    <2>2. CASE s.phase = r.phase /\ s.log = r.log
        <3>1. \A g \in Handles : handle'[g].log = handle[g].log
            BY <1>1, <2>2
        <3> QED BY <1>1, <1>2, <1>3, <2>2, <3>1 DEF Unheard, SameFile
    <2> QED BY <2>1, <2>2
<1>8. Covered(h, handle[h])'
    <2> SUFFICES ASSUME s.phase \in {"releasing", "unlocked", "closed"}, ~s.failed
                 PROVE  \A i \in 1..s.owed :
                            s.log[i].by = h => i <= Len(stored) /\ stored[i] = s.log[i]
        BY <1>1, <1>3 DEF Covered, Left
    <2>1. CASE r.phase \in {"releasing", "unlocked", "closed"} /\ ~r.failed /\ s.owed = r.owed
        <3>1. \A i \in 1..r.owed : i \in 1..Len(r.log)
            BY <1>4
        <3> QED BY <1>2, <2>1, <3>1 DEF Covered, Left
    <2>2. CASE s.phase = "releasing" /\ s.cursor = Len(s.log)
        <3>1. s.materialized => lock' = h
            BY <1>1, <1>6, <2>2 DEF LocalInv, Primed, Owned
        <3>2. s.materialized =>
                /\ s.cursor = Len(stored) + Len(s.salvage)
                /\ \A i \in 1..Len(stored) : stored[i] = s.log[i]
                /\ \A i \in 1..Len(s.salvage) : s.salvage[i] = s.log[Len(stored) + i]
            BY <1>3, <1>61, <3>1
        <3>3. Foreign(h, s.salvage)
            BY <1>2 DEF Unheard, SameFile
        <3>4. stored \in Events
            BY DEF TypeOK, Events
        <3> QED BY <2>2, <3>2, <3>3, <3>4, Settled
    <2> QED BY <2>1, <2>2
<1>9. \A g \in Handles \ {h} :
            Foreign(g, stored) /\ Foreign(g, salvage) /\ Foreign(g, handle[h].log)
                => /\ Foreign(g, stored') /\ Foreign(g, salvage')
                   /\ Foreign(g, handle'[h].log)
    <2> SUFFICES ASSUME NEW g \in Handles \ {h}, Foreign(g, r.log)
                 PROVE  Foreign(g, s.log)
        BY <1>1, <1>3
    <2> QED BY DEF Foreign
<1>10. LocalInv(h, handle'[h])
    BY <1>1
<1> QED BY <1>1, <1>3, <1>4, <1>5, <1>6, <1>7, <1>8, <1>9, <1>10, Moved

(* The types after a step of one handle that touches nothing shared. *)
LEMMA HandleTyped ==
    ASSUME TypeOK, NEW h \in Handles, NEW s \in HandleState, Set(h, s),
           UNCHANGED <<disk, lock, claim, promised>>, faults' \in 0..MaxFaults
    PROVE  TypeOK'
BY Moves DEF TypeOK, disk

(* The state of a handle, with what the invariant says of it. *)
LEMMA Present ==
    ASSUME TypeOK, KeptInv, NEW h \in Handles
    PROVE  /\ handle[h] \in HandleState
           /\ LocalInv(h, handle[h]) /\ Owned(h, handle[h])
           /\ Unheard(h, handle[h]) /\ Covered(h, handle[h]) /\ DiskInv
BY DEF TypeOK, KeptInv

(* An explicit append continues the log. *)
LEMMA AppendSuffixKept ==
    ASSUME TypeOK, KeptInv, NEW h \in Handles, AppendSuffix(h)
    PROVE  TypeOK' /\ KeptInv'
<1> DEFINE r == handle[h]
           events(n, mark) == [i \in 1..n |-> [seq |-> Len(r.log) + i, by |-> h, mark |-> mark]]
<1>1. r \in HandleState /\ LocalInv(h, r)
    BY Present
<1>2. r.queue = <<>> /\ r.phase \in {"open", "stored"}
    BY DEF AppendSuffix
<1>3. UNCHANGED <<disk, lock, claim, promised, faults>>
    BY DEF AppendSuffix
<1>4. /\ Len(r.log) \in Nat /\ MaxEvents \in Nat /\ r.cursor = Len(r.log)
    <2>1. r.buffered = <<>> /\ r.batch = <<>>
        BY <1>1, <1>2, Queues DEF LocalInv, Chained, Gathered
    <2>2. Drained(r) = <<>>
        BY <2>1 DEF Drained
    <2> QED BY <1>1, <2>1, <2>2, NoEvents, Fields DEF LocalInv, Recorded, Story
<1>5. PICK n \in 1..(MaxEvents - Len(r.log)), mark \in BOOLEAN :
            Set(h, [r EXCEPT !.batch = events(n, mark), !.queue = <<"append">>])
    <2>1. CASE \E n \in 1..(MaxEvents - Len(r.log)) :
                    Set(h, [r EXCEPT !.batch = events(n, FALSE), !.queue = <<"append">>])
        BY <2>1
    <2>2. CASE /\ Len(r.log) < MaxEvents
               /\ Set(h, [r EXCEPT !.batch = events(1, TRUE), !.queue = <<"append">>])
        <3>1. 1 \in 1..(MaxEvents - Len(r.log))
            BY <2>2, <1>4
        <3> QED BY <2>2, <3>1
    <2> QED BY <2>1, <2>2 DEF AppendSuffix
<1> DEFINE b == events(n, mark)
           s == [r EXCEPT !.batch = b, !.queue = <<"append">>]
<1>6. b \in Events /\ Len(b) = n /\ b # <<>> /\ Batched(h, r.cursor, b)
    <2>1. \A i \in 1..n : /\ b[i] = [seq |-> Len(r.log) + i, by |-> h, mark |-> mark]
                          /\ b[i].seq = r.cursor + i /\ b[i].by = h
        BY <1>4
    <2>2. \A i \in 1..n : [seq |-> Len(r.log) + i, by |-> h, mark |-> mark] \in Event
        BY <1>4 DEF Event
    <2>3. n \in Nat /\ DOMAIN b = 1..n
        BY <1>4
    <2>4. b \in Seq(Event) /\ Len(b) = n
        BY <2>2, <2>3
    <2>5. r.cursor + n <= MaxEvents
        BY <1>4
    <2> HIDE DEF b
    <2> QED BY <2>1, <2>4, <2>5, NoEvents DEF Events, Batched
<1> HIDE DEF b, r
<1>7. /\ LocalInv(h, s) /\ s \in HandleState
      /\ SameFile(r, s) /\ SameLog(r, s) /\ SameCallers(r, s) /\ s.cursor = r.cursor
    BY <1>1, <1>2, <1>6, SuffixKeeps
<1>8. Set(h, s)
    BY <1>5 DEF b, r
<1> HIDE DEF s
<1>9. TypeOK'
    BY <1>3, <1>7, <1>8, HandleTyped DEF TypeOK
<1>10. r = handle[h]
    BY DEF r
<1> QED
    BY <1>1, <1>2, <1>3, <1>4, <1>7, <1>8, <1>9, <1>10, Quiet DEF SameLog, SameCallers

(* The session enters its store. *)
LEMMA EnterKept ==
    ASSUME TypeOK, KeptInv, NEW h \in Handles, Enter(h)
    PROVE  TypeOK' /\ KeptInv'
<1> DEFINE r == handle[h]
           s == [r EXCEPT !.phase = "live", !.entered = TRUE]
<1>1. r \in HandleState /\ LocalInv(h, r) /\ r = handle[h]
    BY Present
<1>2. r.queue = <<>> /\ r.phase \in {"open", "stored"} /\ Set(h, s)
    BY DEF Enter
<1>3. UNCHANGED <<disk, lock, claim, promised, faults>>
    BY DEF Enter
<1> HIDE DEF r
<1>6. LocalInv(h, s) /\ s \in HandleState /\ SameFile(r, s)
    BY <1>1, <1>2, EnterKeeps
<1>7. s.log = r.log /\ s.cursor = r.cursor /\ s.phase = "live"
    BY <1>1 DEF HandleState
<1> HIDE DEF s
<1>8. TypeOK'
    BY <1>2, <1>3, <1>6, HandleTyped DEF TypeOK
<1>9. Len(r.log) \in Nat
    BY <1>1, Fields
<1> QED BY <1>1, <1>2, <1>3, <1>6, <1>7, <1>8, <1>9, Quiet

(* A session event. *)
LEMMA PublishKept ==
    ASSUME TypeOK, KeptInv, NEW h \in Handles, Publish(h)
    PROVE  TypeOK' /\ KeptInv'
<1> DEFINE r == handle[h]
           e == [seq |-> Len(r.log) + 1, by |-> h, mark |-> FALSE]
           s == [r EXCEPT !.log = Append(@, e), !.buffered = Append(@, e),
                          !.timer = @ \/ ~r.paused]
<1>1. r \in HandleState /\ LocalInv(h, r) /\ r = handle[h]
    BY Present
<1>2. r.entered /\ Len(r.log) < MaxEvents /\ Set(h, s)
    BY DEF Publish
<1>3. UNCHANGED <<disk, lock, claim, promised, faults>>
    BY DEF Publish
<1> HIDE DEF r
<1>7. /\ LocalInv(h, s) /\ s \in HandleState
      /\ SameFile(r, s) /\ SameCallers(r, s) /\ s.cursor = r.cursor /\ s.owed = r.owed
      /\ Len(s.log) = Len(r.log) + 1
      /\ \A i \in 1..Len(r.log) : s.log[i] = r.log[i]
      /\ s.log[Len(r.log) + 1].by = h
    BY <1>1, <1>2, PublishKeeps
<1> HIDE DEF s
<1>8. TypeOK'
    BY <1>2, <1>3, <1>7, HandleTyped DEF TypeOK
<1>9. Len(r.log) \in Nat
    BY <1>1, Fields
<1>10. /\ \A i \in 1..Len(r.log) : i <= Len(s.log) /\ s.log[i] = r.log[i]
       /\ \A i \in 1..Len(s.log) : i \in 1..Len(r.log) \/ s.log[i].by = h
    BY <1>7, <1>9
<1>11. r.phase \notin {"unborn", "claimed", "locked"}
    BY <1>1, <1>2 DEF LocalInv, Gathered
<1>12. s.phase = r.phase /\ s.failed = r.failed
    BY <1>7 DEF SameCallers
<1> QED BY <1>1, <1>2, <1>3, <1>7, <1>8, <1>10, <1>11, <1>12, Quiet

(* The batching timer fires, before close has left its loop. *)
LEMMA FireKept ==
    ASSUME TypeOK, KeptInv, ~LateWork, NEW h \in Handles, Fire(h)
    PROVE  TypeOK' /\ KeptInv'
<1> DEFINE r == handle[h]
           s == DrainLive([r EXCEPT !.timer = FALSE])
<1>1. r \in HandleState /\ LocalInv(h, r) /\ r = handle[h]
    BY Present
<1>2. r.timer /\ ~Left(r) /\ ~Settling(r) /\ Set(h, s)
    BY DEF Fire
<1>3. UNCHANGED <<disk, lock, claim, promised, faults>>
    BY DEF Fire
<1> HIDE DEF r
<1>4. r.entered /\ r.phase \in {"live", "closeDrain", "closeWake", "closeChain"}
    BY <1>1, <1>2, Fields DEF LocalInv, Gathered, Left
<1>7. /\ LocalInv(h, s) /\ s \in HandleState
      /\ SameFile(r, s) /\ SameLog(r, s) /\ SameCallers(r, s) /\ s.cursor = r.cursor
    BY <1>1, <1>2, <1>4, FireKeeps
<1> HIDE DEF s
<1>8. TypeOK'
    BY <1>2, <1>3, <1>7, HandleTyped DEF TypeOK
<1>9. Len(r.log) \in Nat
    BY <1>1, Fields
<1>10. s.phase = r.phase
    BY <1>7 DEF SameCallers
<1> QED BY <1>1, <1>2, <1>3, <1>4, <1>7, <1>8, <1>9, <1>10, Quiet DEF SameLog

(* session/flush. *)
LEMMA FlushKept ==
    ASSUME TypeOK, KeptInv, ~LateWork, NEW h \in Handles, Flush(h)
    PROVE  TypeOK' /\ KeptInv'
<1> DEFINE r == handle[h]
           d == DrainLive(r)
           s == [d EXCEPT !.flush = "drain", !.asked = Len(r.log),
                          !.want = IF d.draining = "active" THEN Len(r.log)
                                   ELSE Len(r.log) - Len(r.buffered)]
<1>1. r \in HandleState /\ LocalInv(h, r) /\ r = handle[h]
    BY Present
<1>2. /\ r.entered /\ r.flush \in {"idle", "drain"} /\ r.phase \notin {"releasing", "unlocked"}
      /\ Set(h, s)
    BY DEF Flush
<1>3. UNCHANGED <<disk, lock, claim, promised, faults>>
    BY DEF Flush
<1> HIDE DEF r
<1>4. r.phase \in {"live", "closeDrain", "closeWake", "closeChain"}
    BY <1>1, <1>2, Fields DEF LocalInv, Gathered
<1>7. /\ LocalInv(h, s) /\ s \in HandleState
      /\ SameFile(r, s) /\ SameLog(r, s) /\ s.cursor = r.cursor
      /\ s.phase = r.phase /\ s.failed = r.failed
    BY <1>1, <1>2, <1>4, FlushKeeps
<1> HIDE DEF s
<1>8. TypeOK'
    BY <1>2, <1>3, <1>7, HandleTyped DEF TypeOK
<1>9. Len(r.log) \in Nat
    BY <1>1, Fields
<1> QED BY <1>1, <1>2, <1>3, <1>4, <1>7, <1>8, <1>9, Quiet DEF SameLog

(* close begins with a drain... *)
LEMMA CloseKept ==
    ASSUME TypeOK, KeptInv, NEW h \in Handles, Close(h)
    PROVE  TypeOK' /\ KeptInv'
<1> DEFINE r == handle[h]
           s == DrainLive([r EXCEPT !.phase = "closeDrain", !.owed = Len(r.log)])
<1>1. r \in HandleState /\ LocalInv(h, r) /\ r = handle[h]
    BY Present
<1>2. r.phase \in {"open", "stored", "broken", "live"} /\ Set(h, s)
    BY DEF Close
<1>3. UNCHANGED <<disk, lock, claim, promised, faults>>
    BY DEF Close
<1> HIDE DEF r
<1>6. /\ LocalInv(h, s) /\ s \in HandleState
      /\ SameFile(r, s) /\ s.log = r.log /\ s.cursor = r.cursor
      /\ s.phase = "closeDrain"
    BY <1>1, <1>2, CloseKeeps DEF SameLog
<1> HIDE DEF s
<1>8. TypeOK'
    BY <1>2, <1>3, <1>6, HandleTyped DEF TypeOK
<1>9. Len(r.log) \in Nat
    BY <1>1, Fields
<1> QED BY <1>1, <1>2, <1>3, <1>6, <1>8, <1>9, Quiet

(* ... waits for the chain behind it... *)
LEMMA CloseWaitsKept ==
    ASSUME TypeOK, KeptInv, NEW h \in Handles, CloseWaits(h)
    PROVE  TypeOK' /\ KeptInv'
<1> DEFINE r == handle[h]
           s == [r EXCEPT !.phase = "closeChain", !.ahead = Len(r.queue)]
<1>1. r \in HandleState /\ LocalInv(h, r) /\ r = handle[h]
    BY Present
<1>2. r.phase = "closeWake" /\ Set(h, s)
    BY DEF CloseWaits
<1>3. UNCHANGED <<disk, lock, claim, promised, faults>>
    BY DEF CloseWaits
<1> HIDE DEF r
<1>6. /\ LocalInv(h, s) /\ s \in HandleState
      /\ SameFile(r, s) /\ s.log = r.log /\ s.cursor = r.cursor
      /\ s.phase = "closeChain"
    BY <1>1, <1>2, CloseWaitsKeeps DEF SameLog
<1> HIDE DEF s
<1>8. TypeOK'
    BY <1>2, <1>3, <1>6, HandleTyped DEF TypeOK
<1>9. Len(r.log) \in Nat
    BY <1>1, Fields
<1> QED BY <1>1, <1>2, <1>3, <1>6, <1>8, <1>9, Quiet

(* ... and looks again. *)
LEMMA CloseAgainKept ==
    ASSUME TypeOK, KeptInv, NEW h \in Handles, CloseAgain(h)
    PROVE  TypeOK' /\ KeptInv'
<1> DEFINE r == handle[h]
           leaves == r.failed \/ r.buffered = <<>>
           s == IF leaves THEN [r EXCEPT !.phase = "releasing"]
                ELSE DrainLive([r EXCEPT !.phase = "closeDrain"])
<1>1. r \in HandleState /\ LocalInv(h, r) /\ r = handle[h]
    BY Present
<1>2. r.phase = "closeChain" /\ r.ahead = 0 /\ Set(h, s)
    BY DEF CloseAgain
<1>3. UNCHANGED <<disk, lock, claim, promised, faults>>
    BY DEF CloseAgain
<1> HIDE DEF r
<1>6. /\ LocalInv(h, s) /\ s \in HandleState
      /\ SameFile(r, s) /\ s.log = r.log /\ s.cursor = r.cursor
      /\ \/ s.phase = "closeDrain"
         \/ s.phase = "releasing" /\ (~s.failed => s.cursor = Len(s.log))
    <2>1. CASE leaves
        BY <1>1, <1>2, <2>1, LeavesLoopKeeps DEF SameLog
    <2>2. CASE ~leaves
        <3>1. s = DrainLive([r EXCEPT !.phase = "closeDrain"])
            BY <2>2
        <3> HIDE DEF s
        <3> QED BY <1>1, <1>2, <3>1, DrainsAgainKeeps DEF SameLog
    <2> QED BY <2>1, <2>2
<1> HIDE DEF s
<1>8. TypeOK'
    BY <1>2, <1>3, <1>6, HandleTyped DEF TypeOK
<1>9. Len(r.log) \in Nat
    BY <1>1, Fields
<1> QED BY <1>1, <1>2, <1>3, <1>6, <1>8, <1>9, Quiet

(* A drain that is over is cleared. *)
LEMMA FinallyKept ==
    ASSUME TypeOK, KeptInv, NEW h \in Handles, Finally(h)
    PROVE  TypeOK' /\ KeptInv'
<1> DEFINE r == handle[h]
           rejected == r.flush = "drain" /\ r.draining = "failed"
           failed == r.failed \/ (r.phase = "closeDrain" /\ r.draining = "failed")
           s == [r EXCEPT
                    !.draining = "none",
                    !.flush = IF rejected THEN "idle" ELSE IF @ = "drain" THEN "drained" ELSE @,
                    !.asked = IF rejected THEN 0 ELSE @,
                    !.want = IF rejected THEN 0 ELSE @,
                    !.phase = IF @ = "closeDrain" THEN "closeWake" ELSE @,
                    !.failed = failed,
                    !.owed = IF failed THEN 0 ELSE @]
<1>1. r \in HandleState /\ LocalInv(h, r) /\ r = handle[h]
    BY Present
<1>2. r.draining \in {"done", "failed"} /\ Set(h, s)
    BY DEF Finally
<1>3. UNCHANGED <<disk, lock, claim, promised, faults>>
    BY DEF Finally
<1>5. r.draining \in {"done", "failed"}
    BY <1>2
<1> HIDE DEF r
<1>6. /\ LocalInv(h, s) /\ s \in HandleState
      /\ SameFile(r, s) /\ s.cursor = r.cursor /\ s.log = r.log
      /\ s.phase = IF r.phase = "closeDrain" THEN "closeWake" ELSE r.phase
      /\ ~s.failed => ~r.failed /\ s.owed = r.owed
    BY <1>1, <1>5, FinallyKeeps, ZenonT(30)
<1> HIDE DEF s
<1>8. TypeOK'
    BY <1>2, <1>3, <1>6, HandleTyped DEF TypeOK
<1>9. Len(r.log) \in Nat
    BY <1>1, Fields
<1> QED BY <1>1, <1>2, <1>3, <1>6, <1>8, <1>9, Quiet

(* A flush goes on behind its drain. *)
LEMMA ResumeKept ==
    ASSUME TypeOK, KeptInv, NEW h \in Handles, Resume(h)
    PROVE  TypeOK' /\ KeptInv'
<1> DEFINE r == handle[h]
           s == IF Closing(r) THEN [r EXCEPT !.flush = "idle", !.asked = 0, !.want = 0]
                ELSE [r EXCEPT !.flush = "op", !.queue = Append(@, "flush")]
<1>1. r \in HandleState /\ LocalInv(h, r) /\ r = handle[h]
    BY Present
<1>2. r.flush = "drained" /\ Set(h, s)
    BY DEF Resume
<1>3. UNCHANGED <<disk, lock, claim, promised, faults>>
    BY DEF Resume
<1> HIDE DEF r
<1>6. /\ LocalInv(h, s) /\ s \in HandleState
      /\ SameFile(r, s) /\ s.log = r.log /\ s.cursor = r.cursor
      /\ s.phase = r.phase /\ s.failed = r.failed /\ s.owed = r.owed
    BY <1>1, <1>2, ResumeKeeps DEF SameLog
<1> HIDE DEF s
<1>8. TypeOK'
    BY <1>2, <1>3, <1>6, HandleTyped DEF TypeOK
<1>9. Len(r.log) \in Nat
    BY <1>1, Fields
<1>10. r.phase \notin {"unborn", "claimed", "locked"}
    BY <1>1, <1>2 DEF LocalInv, Gathered
<1> QED BY <1>1, <1>2, <1>3, <1>6, <1>8, <1>9, <1>10, Quiet

(* A drain that begins has taken the whole buffer, and its batch continues what
   is stored. *)
LEMMA Taken ==
    ASSUME NEW h \in Handles, NEW r \in HandleState, LocalInv(h, r),
           r.queue # <<>>, r.stage = "rest"
    PROVE  LET takes == r.queue = <<"drain">>
               s == IF Head(r.queue) = "drain"
                    THEN [r EXCEPT !.batch = r.buffered, !.buffered = <<>>] ELSE r IN
           /\ s \in HandleState /\ ~Gap(s)
           /\ s.queue = r.queue /\ s.stage = r.stage /\ s.cursor = r.cursor
           /\ s.ahead = r.ahead
           /\ SameFile(r, s) /\ SameLog(r, s) /\ SameCallers(r, s)
           /\ s.draining = r.draining /\ s.timer = r.timer /\ s.paused = r.paused
           /\ s.batch = IF takes THEN r.buffered ELSE r.batch
           /\ s.buffered = IF takes THEN <<>> ELSE r.buffered
<1> DEFINE t == [r EXCEPT !.batch = r.buffered, !.buffered = <<>>]
           s == IF Head(r.queue) = "drain" THEN t ELSE r
           takes == r.queue = <<"drain">>
           Good(x) ==
               /\ x \in HandleState /\ ~Gap(x)
               /\ x.queue = r.queue /\ x.stage = r.stage /\ x.cursor = r.cursor
               /\ x.ahead = r.ahead
               /\ SameFile(r, x) /\ SameLog(r, x) /\ SameCallers(r, x)
               /\ x.draining = r.draining /\ x.timer = r.timer /\ x.paused = r.paused
               /\ x.batch = IF takes THEN r.buffered ELSE r.batch
               /\ x.buffered = IF takes THEN <<>> ELSE r.buffered
<1>1. t \in HandleState
    BY Typed, Fields, ZenonT(20) DEF HandleState
<1>2. /\ t.queue = r.queue /\ t.stage = r.stage /\ t.cursor = r.cursor
      /\ t.ahead = r.ahead
      /\ SameFile(r, t) /\ SameLog(r, t) /\ SameCallers(r, t)
      /\ t.draining = r.draining /\ t.timer = r.timer /\ t.paused = r.paused
      /\ t.batch = r.buffered /\ t.buffered = <<>>
    BY DEF HandleState, SameFile, SameLog, SameCallers
<1> HIDE DEF t
<1>3. Head(r.queue) = "drain" <=> r.queue = <<"drain">>
    BY Queues DEF LocalInv, Chained
<1>4. SameFile(r, r) /\ SameLog(r, r) /\ SameCallers(r, r)
    BY DEF SameFile, SameLog, SameCallers
<1>5. ASSUME r.queue = <<"drain">> PROVE Good(t)
    <2>1. r.batch = <<>> /\ Drained(r) = <<>>
        BY <1>5, Queues DEF LocalInv, Gathered, Drained
    <2>2. Story(h, r.log, r.cursor, <<>>, r.buffered)
        BY <2>1 DEF LocalInv, Recorded
    <2>3. Batched(h, r.cursor, r.buffered)
        <3>1. r.log \in Events /\ r.cursor \in Nat /\ r.buffered \in Events
            BY Fields
        <3> QED BY <2>2, <3>1, StoryTake, Zenon
    <2>4. ~Gap(t)
        BY <1>2, <2>3 DEF Gap, Batched
    <2> QED BY <1>1, <1>2, <1>5, <2>4
<1>6. ASSUME r.queue # <<"drain">> PROVE Good(r)
    <2>1. ~Gap(r)
        BY DEF Gap, LocalInv, Recorded, Batched
    <2> QED BY <1>4, <1>6, <2>1
<1>7. Good(s)
    <2> HIDE DEF Good
    <2> QED BY <1>3, <1>5, <1>6
<1>8. s = IF Head(r.queue) = "drain" THEN [r EXCEPT !.batch = r.buffered, !.buffered = <<>>]
          ELSE r
    BY DEF t
<1> HIDE DEF s
<1> QED BY <1>7, <1>8

(* An operation begins: it waits for the lock, or it has it. *)
LEMMA BeginKeeps ==
    ASSUME NEW h \in Handles, NEW r \in HandleState, LocalInv(h, r),
           r.queue # <<>>, r.stage = "rest",
           ~Left(r), r.phase = "closeChain" => r.ahead > 0,
           Head(r.queue) = "flush" => ~r.materialized
    PROVE  LET taken == IF Head(r.queue) = "drain"
                        THEN [r EXCEPT !.batch = r.buffered, !.buffered = <<>>] ELSE r
               s == IF r.lease THEN Locked(taken) ELSE [taken EXCEPT !.stage = "lock"] IN
           /\ LocalInv(h, s) /\ s \in HandleState
           /\ SameFile(r, s) /\ SameLog(r, s) /\ SameCallers(r, s) /\ s.cursor = r.cursor
<1> DEFINE t == IF Head(r.queue) = "drain"
                THEN [r EXCEPT !.batch = r.buffered, !.buffered = <<>>] ELSE r
           w == [t EXCEPT !.stage = "lock"]
           l == Locked(t)
           s == IF r.lease THEN l ELSE w
           takes == r.queue = <<"drain">>
<1>1. /\ t \in HandleState /\ ~Gap(t)
      /\ t.queue = r.queue /\ t.stage = r.stage /\ t.cursor = r.cursor
      /\ t.ahead = r.ahead
      /\ SameFile(r, t) /\ SameLog(r, t) /\ SameCallers(r, t)
      /\ t.draining = r.draining /\ t.timer = r.timer /\ t.paused = r.paused
      /\ t.batch = IF takes THEN r.buffered ELSE r.batch
      /\ t.buffered = IF takes THEN <<>> ELSE r.buffered
    BY Taken
<1>2. takes <=> r.queue = <<"drain">>
    OBVIOUS
<1> HIDE DEF t, takes
<1>3. w \in HandleState
    BY <1>1, Typed, ZenonT(20) DEF HandleState
<1>4. /\ w.queue = t.queue /\ w.stage = "lock" /\ w.cursor = t.cursor /\ w.batch = t.batch
      /\ w.ahead = t.ahead
      /\ SameFile(t, w) /\ SameLog(t, w) /\ SameBuffer(t, w) /\ SameCallers(t, w)
    BY <1>1 DEF HandleState, SameFile, SameLog, SameBuffer, SameCallers
<1> HIDE DEF w
<1>5. /\ l \in HandleState
      /\ l.queue = t.queue /\ l.batch = t.batch /\ l.cursor = t.cursor
      /\ l.ahead = t.ahead
      /\ l.stage = IF Head(t.queue) = "flush" THEN "write" ELSE Repair(t)
      /\ SameFile(t, l) /\ SameLog(t, l) /\ SameBuffer(t, l) /\ SameCallers(t, l)
    BY <1>1, LockedFields
<1> HIDE DEF l
<1>6. /\ s \in HandleState
      /\ s.queue = t.queue /\ s.cursor = t.cursor /\ s.batch = t.batch
      /\ s.ahead = t.ahead
      /\ SameFile(t, s) /\ SameLog(t, s) /\ SameBuffer(t, s) /\ SameCallers(t, s)
      /\ s.stage = IF r.lease THEN IF Head(t.queue) = "flush" THEN "write" ELSE Repair(t)
                   ELSE "lock"
    BY <1>3, <1>4, <1>5
<1>7. s = IF r.lease THEN l ELSE w
    OBVIOUS
<1> HIDE DEF s
<1>8. /\ SameFile(r, s) /\ SameLog(r, s) /\ SameCallers(r, s) /\ s.cursor = r.cursor
      /\ s.queue = r.queue /\ s.draining = r.draining /\ s.timer = r.timer
      /\ s.paused = r.paused /\ s.ahead = r.ahead
      /\ s.batch = t.batch /\ s.buffered = t.buffered
    BY <1>1, <1>6 DEF SameFile, SameLog, SameBuffer, SameCallers
<1>9. Repair(t) = Repair(r)
    BY <1>1 DEF Repair, SameFile
<1>10. LocalInv(h, s)
    <2>1. /\ s.materialized = r.materialized /\ s.torn = r.torn /\ s.tornAt = r.tornAt
          /\ s.salvage = r.salvage /\ s.lease = r.lease
        BY <1>8 DEF SameFile
    <2>2. LET goes == r.queue = <<"drain">> /\ r.stage = "rest" IN
          /\ s.batch = IF goes THEN r.buffered ELSE r.batch
          /\ s.buffered = IF goes THEN <<>> ELSE r.buffered
        BY <1>1, <1>2, <1>8
    <2>3. \/ s.stage = "lock"
          \/ s.lease /\ s.stage = IF Head(r.queue) = "flush" THEN "write" ELSE Repair(r)
        BY <1>1, <1>6, <1>9, <2>1
    <2> QED BY <1>6, <1>8, <2>1, <2>2, <2>3, StartKeeps
<1> QED BY <1>6, <1>7, <1>8, <1>10 DEF l, w, t

(* An operation that waited for the lock has taken it. *)
LEMMA LockedKeeps ==
    ASSUME NEW h \in Handles, NEW r \in HandleState, LocalInv(h, r), r.stage = "lock"
    PROVE  LET s == Locked([r EXCEPT !.lease = TRUE]) IN
           /\ LocalInv(h, s) /\ s \in HandleState
           /\ SameLog(r, s) /\ SameCallers(r, s)
           /\ s.materialized = r.materialized /\ s.salvage = r.salvage /\ s.lease = TRUE
<1> DEFINE t == [r EXCEPT !.lease = TRUE]
           s == Locked(t)
<1>1. t \in HandleState
    BY Typed, ZenonT(20) DEF HandleState
<1>2. /\ t.queue = r.queue /\ t.stage = r.stage /\ t.cursor = r.cursor /\ t.batch = r.batch
      /\ t.ahead = r.ahead
      /\ SameBuffer(r, t) /\ SameLog(r, t) /\ SameCallers(r, t)
      /\ t.materialized = r.materialized /\ t.torn = r.torn /\ t.tornAt = r.tornAt
      /\ t.salvage = r.salvage /\ t.lease = TRUE
    BY DEF HandleState, SameBuffer, SameLog, SameCallers
<1> HIDE DEF t
<1>3. ~Gap(t)
    BY <1>2 DEF Gap, LocalInv, Recorded, Batched
<1>4. /\ s \in HandleState
      /\ s.queue = t.queue /\ s.batch = t.batch /\ s.cursor = t.cursor
      /\ s.ahead = t.ahead
      /\ s.stage = IF Head(t.queue) = "flush" THEN "write" ELSE Repair(t)
      /\ SameFile(t, s) /\ SameLog(t, s) /\ SameBuffer(t, s) /\ SameCallers(t, s)
    BY <1>1, <1>3, LockedFields
<1> HIDE DEF s
<1>5. /\ SameLog(r, s) /\ SameCallers(r, s) /\ s.cursor = r.cursor
      /\ s.queue = r.queue /\ s.draining = r.draining /\ s.timer = r.timer
      /\ s.paused = r.paused /\ s.batch = r.batch /\ s.buffered = r.buffered
      /\ s.ahead = r.ahead
    BY <1>2, <1>4 DEF SameLog, SameBuffer, SameCallers
<1>6. /\ s.materialized = r.materialized /\ s.torn = r.torn /\ s.tornAt = r.tornAt
      /\ s.salvage = r.salvage /\ s.lease = TRUE
    BY <1>2, <1>4 DEF SameFile
<1>7. Repair(t) = Repair(r)
    BY <1>2 DEF Repair
<1>8. LocalInv(h, s)
    <2>1. r.queue # <<>> /\ ~Left(r)
        BY DEF LocalInv, Chained, Left
    <2>5. r.phase = "closeChain" => r.ahead > 0
        BY Fields DEF LocalInv, Awaited
    <2>2. Head(r.queue) = "flush" => ~r.materialized
        BY Queues DEF LocalInv, Chained, Primed
    <2>3. LET goes == r.queue = <<"drain">> /\ r.stage = "rest" IN
          /\ s.batch = IF goes THEN r.buffered ELSE r.batch
          /\ s.buffered = IF goes THEN <<>> ELSE r.buffered
        BY <1>5
    <2>4. s.stage = IF Head(r.queue) = "flush" THEN "write" ELSE Repair(r)
        BY <1>2, <1>4, <1>7
    <2> QED BY <1>4, <1>5, <1>6, <2>1, <2>2, <2>3, <2>4, <2>5, StartKeeps
<1> QED BY <1>4, <1>5, <1>6, <1>8 DEF s, t
(* An operation fails and leaves the file as it was. *)
LEMMA OpFailedKept ==
    ASSUME TypeOK, KeptInv, NEW h \in Handles, NEW r, r = handle[h],
           r.queue # <<>>, r.stage # "rest" \/ Head(r.queue) # "drain",
           Set(h, OpFailed(r)), UNCHANGED <<disk, lock, claim, promised>>,
           faults' \in 0..MaxFaults
    PROVE  TypeOK' /\ KeptInv'
<1> DEFINE s == OpFailed(r)
<1>1. r \in HandleState /\ LocalInv(h, r)
    BY Present
<1>2. r.phase \in {"open", "stored", "live", "closeDrain", "closeWake", "closeChain"}
    BY <1>1, Queues DEF LocalInv, Chained
<1>3. /\ LocalInv(h, s) /\ s \in HandleState
      /\ SameFile(r, s) /\ SameLog(r, s) /\ s.cursor = r.cursor
      /\ s.failed = r.failed
      /\ s.phase = r.phase \/ (s.phase = "broken" /\ r.phase \in {"open", "stored"})
    BY <1>1, OpFailedKeeps
<1>4. Set(h, s)
    OBVIOUS
<1> HIDE DEF s
<1>5. TypeOK'
    BY <1>3, <1>4, HandleTyped
<1>6. Len(r.log) \in Nat
    BY <1>1, Fields
<1> QED BY <1>1, <1>2, <1>3, <1>4, <1>5, <1>6, Quiet DEF SameLog

(* The head operation begins, is refused, or has nothing to do. *)
LEMMA BeginKept ==
    ASSUME TypeOK, KeptInv, ~LateWork, NEW h \in Handles, Begin(h)
    PROVE  TypeOK' /\ KeptInv'
<1> DEFINE r == handle[h]
           taken == IF Head(r.queue) = "drain"
                    THEN [r EXCEPT !.batch = r.buffered, !.buffered = <<>>] ELSE r
           s == IF r.lease THEN Locked(taken) ELSE [taken EXCEPT !.stage = "lock"]
           t == Flushed(r)
           refused == Closing(r) /\ Head(r.queue) # "drain"
           done == Head(r.queue) = "flush" /\ r.materialized /\ ~Closing(r)
<1>1. r \in HandleState /\ LocalInv(h, r) /\ Owned(h, r) /\ DiskInv /\ r = handle[h]
    BY Present
<1>2. /\ r.queue # <<>> /\ r.stage = "rest" /\ ~Left(r)
      /\ r.phase = "closeChain" => r.ahead > 0
    BY DEF Begin
<1>3. UNCHANGED <<disk, lock, claim, faults>> /\ faults' \in 0..MaxFaults
    BY DEF Begin, TypeOK
<1>4. \/ refused /\ Set(h, OpFailed(r)) /\ UNCHANGED promised
      \/ done /\ Set(h, t) /\ Promise(r)
      \/ ~refused /\ ~done /\ Set(h, s) /\ UNCHANGED promised
    BY Zenon DEF Begin
<1>5. (refused => Closing(r) /\ Head(r.queue) # "drain")
      /\ (done => Head(r.queue) = "flush" /\ r.materialized /\ ~Closing(r))
      /\ (~refused /\ ~done /\ Head(r.queue) = "flush" => ~r.materialized)
    OBVIOUS
<1>6. r.phase \in {"open", "stored", "live", "closeDrain", "closeWake", "closeChain"}
    BY <1>1, <1>2 DEF LocalInv, Chained
<1>7. Len(r.log) \in Nat
    BY <1>1, Fields
<1> HIDE DEF refused, done, s, t, r
<1>8. CASE refused /\ Set(h, OpFailed(r)) /\ UNCHANGED promised
    BY <1>1, <1>2, <1>3, <1>5, <1>8, OpFailedKept
<1>9. CASE done /\ Set(h, t) /\ Promise(r)
    <2>1. r.queue \in {<<"flush">>, <<"flush", "drain">>}
        BY <1>1, <1>2, <1>5, <1>9, Queues DEF LocalInv, Chained
    <2>4. /\ LocalInv(h, t) /\ t \in HandleState
          /\ SameFile(r, t) /\ SameLog(r, t)
          /\ t.cursor = r.cursor /\ t.phase = r.phase /\ t.failed = r.failed
        BY <1>1, <2>1, EndFlushKeeps DEF t
    <2> DEFINE end == IF r.salvage = <<>> THEN r.want ELSE r.tornAt
    <2>5. /\ r.cursor = Len(stored) + Len(r.salvage)
          /\ \A i \in 1..Len(stored) : stored[i] = r.log[i]
          /\ r.torn => r.tornAt = Len(stored)
        <3>1. r.materialized /\ r.lease
            BY <1>1, <1>5, <1>9 DEF LocalInv, Primed
        <3>2. lock = h
            BY <1>1, <1>6, <3>1 DEF Owned
        <3> QED BY <1>1, <3>1, <3>2 DEF Owned
    <2>6. /\ Len(stored) \in Nat /\ Len(r.salvage) \in Nat /\ Len(r.log) \in Nat
          /\ r.cursor <= Len(r.log) /\ r.cursor \in Nat /\ r.want \in Nat /\ r.tornAt \in Nat
        <3>1. Len(stored) \in Nat
            BY DEF TypeOK
        <3>2. r.cursor <= Len(r.log)
            BY <1>1, Reached
        <3> QED BY <1>1, <3>1, <3>2, Fields
    <2>7. end \in Nat /\ end <= Len(stored)
        <3>1. r.flush = "op" => r.want <= r.cursor
            BY <1>1 DEF LocalInv, Recorded
        <3>2. r.flush = "op"
            BY <1>1, <2>1 DEF LocalInv, Chained
        <3>3. r.salvage # <<>> /\ ~r.torn => r.tornAt = 0
            BY <1>1 DEF LocalInv, Primed
        <3>4. r.salvage = <<>> => Len(r.salvage) = 0
            BY NoEvents
        <3>5. r.cursor = Len(stored) + Len(r.salvage) /\ (r.torn => r.tornAt = Len(stored))
            BY <2>5
        <3>6. CASE r.salvage = <<>>
            <4>1. r.cursor = Len(stored) /\ end = r.want /\ r.want <= r.cursor
                BY <2>6, <3>1, <3>2, <3>4, <3>5, <3>6
            <4> QED BY <2>6, <4>1
        <3>7. CASE r.salvage # <<>>
            <4>1. end = r.tornAt /\ (r.tornAt = Len(stored) \/ r.tornAt = 0)
                BY <1>1, <3>3, <3>5, <3>7, Fields
            <4> QED BY <2>6, <4>1
        <3> QED BY <3>6, <3>7
    <2> HIDE DEF end
    <2>8. \/ promised' = promised
          \/ promised' = SubSeq(r.log, 1, end)
        BY <1>9 DEF Promise, end
    <2>9. promised' \in Seq(Event) /\ DiskInv'
        <3>1. CASE promised' = promised
            BY <1>1, <1>3, <3>1 DEF DiskInv, TypeOK, disk
        <3>2. CASE promised' = SubSeq(r.log, 1, end)
            <4>1. r.log \in Seq(Event)
                BY <1>1, Fields DEF Events
            <4>2. 1 \in 1..(Len(r.log) + 1) /\ end \in 0..Len(r.log) /\ end \in Nat
                BY <2>5, <2>6, <2>7
            <4> DEFINE l == r.log
            <4>3. l \in Seq(Event) /\ end \in Nat /\ end <= Len(l)
                BY <4>1, <4>2, <2>6
            <4> HIDE DEF l
            <4>4. /\ SubSeq(l, 1, end) \in Seq(Event) /\ Len(SubSeq(l, 1, end)) = end
                  /\ \A i \in 1..end : SubSeq(l, 1, end)[i] = l[i]
                BY <4>3
            <4>5. /\ promised' \in Seq(Event) /\ Len(promised') = end
                  /\ \A i \in 1..end : promised'[i] = r.log[i]
                BY <3>2, <4>4 DEF l
            <4>6. \A i \in 1..end : promised'[i] = stored[i]
                <5>1. \A i \in 1..end : i \in 1..Len(stored)
                    BY <2>6, <2>7
                <5> QED BY <2>5, <4>5, <5>1
            <4>7. exists
                BY <1>1, <1>5, <1>9 DEF Owned
            <4> QED BY <1>1, <1>3, <2>7, <4>5, <4>6, <4>7 DEF DiskInv, disk
        <3> QED BY <2>8, <3>1, <3>2
    <2>10. TypeOK'
        <3>1. handle' \in [Handles -> HandleState]
            BY <1>9, <2>4, Moves
        <3> QED BY <1>3, <2>9, <3>1 DEF TypeOK, disk
    <2> QED
        BY <1>1, <1>3, <1>6, <1>7, <1>9, <2>4, <2>9, <2>10, Quiet DEF SameLog
<1>10. CASE ~refused /\ ~done /\ Set(h, s) /\ UNCHANGED promised
    <2>1. /\ LocalInv(h, s) /\ s \in HandleState
          /\ SameFile(r, s) /\ SameLog(r, s) /\ SameCallers(r, s) /\ s.cursor = r.cursor
        BY <1>1, <1>2, <1>5, <1>10, BeginKeeps DEF s
    <2>2. TypeOK'
        BY <1>3, <1>10, <2>1, HandleTyped
    <2> QED
        BY <1>1, <1>3, <1>6, <1>7, <1>10, <2>1, <2>2, Quiet DEF SameLog, SameCallers
<1> QED BY <1>4, <1>8, <1>9, <1>10

(* A handle that has no file of its own yet, or none any more, moves. *)
LEMMA Arrived ==
    ASSUME TypeOK, TypeOK', KeptInv, NEW h \in Handles, NEW s \in HandleState, Set(h, s),
           LocalInv(h, s), UNCHANGED <<disk, promised>>,
           \A g \in Handles \ {h} : lock = g <=> lock' = g,
           Owned(h, handle[h])', Unheard(h, handle[h])',
           s.phase \notin {"releasing", "unlocked", "closed"},
           \A g \in Handles \ {h} :
                Foreign(g, stored) /\ Foreign(g, salvage) /\ Foreign(g, handle[h].log)
                    => Foreign(g, s.log)
    PROVE  KeptInv'
<1>1. /\ handle' \in [Handles -> HandleState] /\ handle'[h] = s
      /\ \A g \in Handles \ {h} : handle'[g] = handle[g]
    BY Moves
<1>2. /\ stored' = stored /\ salvage' = salvage /\ torn' = torn /\ exists' = exists
      /\ promised' = promised /\ disk' = disk
    BY DEF disk
<1>3. DiskInv'
    BY <1>2 DEF DiskInv, KeptInv
<1>4. Covered(h, handle[h])'
    BY <1>1 DEF Covered, Left
<1>5. Len(stored) <= Len(stored')
    <2>1. Len(stored) \in Nat
        BY DEF TypeOK
    <2> QED BY <1>2, <2>1
<1>6. LocalInv(h, handle'[h])
    BY <1>1
<1>7. \A g \in Handles \ {h} :
            Foreign(g, stored) /\ Foreign(g, salvage) /\ Foreign(g, handle[h].log)
                => /\ Foreign(g, stored') /\ Foreign(g, salvage')
                   /\ Foreign(g, handle'[h].log)
    BY <1>1, <1>2
<1>8. \A i \in 1..Len(stored) : stored'[i] = stored[i]
    BY <1>2
<1> QED BY <1>1, <1>2, <1>3, <1>4, <1>5, <1>6, <1>7, <1>8, Moved

(* create. *)
LEMMA CreateKept ==
    ASSUME TypeOK, KeptInv, NEW h \in Handles, Create(h)
    PROVE  TypeOK' /\ KeptInv'
<1> DEFINE s == [Fresh EXCEPT !.phase = "open"]
<1>1. /\ handle[h] \in HandleState /\ LocalInv(h, handle[h]) /\ Owned(h, handle[h])
    BY Present
<1>2. /\ LocalInv(h, s) /\ s \in HandleState
      /\ s.phase = "open" /\ s.log = <<>> /\ s.salvage = <<>> /\ s.owed = 0
      /\ s.cursor = 0 /\ ~s.materialized /\ ~s.lease /\ s.stage = "rest" /\ ~s.entered
    BY FreshKeeps
<1>3. /\ handle[h].phase = "unborn" /\ Set(h, s)
      /\ UNCHANGED <<disk, lock, promised, faults>>
      /\ claim' = [claim EXCEPT ![Home[h]] = h]
    BY DEF Create
<1> HIDE DEF s
<1>4. /\ handle' \in [Handles -> HandleState] /\ handle'[h] = s
    BY <1>2, <1>3, Moves
<1>5. TypeOK'
    BY <1>3, <1>4 DEF TypeOK, disk
<1>6. Owned(h, handle[h])'
    <2>1. ~handle[h].lease
        BY <1>1, <1>3 DEF LocalInv, Primed
    <2> QED BY <1>1, <1>2, <1>3, <1>4, <2>1 DEF Owned, disk
<1>7. Unheard(h, handle[h])'
    BY <1>2, <1>4, NoEvents DEF Unheard, Foreign
<1>8. \A g \in Handles : Foreign(g, s.log)
    BY <1>2, NoEvents DEF Foreign
<1> QED BY <1>2, <1>3, <1>5, <1>6, <1>7, <1>8, Arrived

(* Only a handle that acquired it has the lock. *)
LEMMA Unlocked ==
    ASSUME TypeOK, KeptInv, NEW h \in Handles, handle[h].phase \in {"unborn", "claimed"}
    PROVE  lock # h /\ ~handle[h].lease /\ ~handle[h].materialized
BY Present DEF LocalInv, Primed, Owned

(* open for write claims the session in its process. *)
LEMMA ClaimWriteKept ==
    ASSUME TypeOK, KeptInv, NEW h \in Handles, ClaimWrite(h)
    PROVE  TypeOK' /\ KeptInv'
<1> DEFINE r == handle[h]
           s == [r EXCEPT !.phase = "claimed"]
<1>1. /\ r \in HandleState /\ LocalInv(h, r) /\ Owned(h, r) /\ Unheard(h, r) /\ r = handle[h]
    BY Present
<1>2. /\ r.phase = "unborn" /\ Set(h, s)
      /\ UNCHANGED <<disk, lock, promised, faults>>
      /\ claim' = [claim EXCEPT ![Home[h]] = h]
    BY DEF ClaimWrite
<1>3. lock # h /\ ~r.lease /\ ~r.materialized
    BY <1>2, Unlocked
<1> HIDE DEF r
<1>4. s \in HandleState
    BY <1>1, Typed, ZenonT(20) DEF HandleState
<1>5. /\ s.phase = "claimed" /\ s.stage = r.stage /\ s.batch = r.batch
      /\ s.cursor = r.cursor /\ s.queue = r.queue
      /\ SameLog(r, s) /\ SameBuffer(r, s) /\ SameFile(r, s) /\ s.flush = r.flush
      /\ s.want = r.want /\ s.asked = r.asked /\ s.ahead = r.ahead
    BY <1>1 DEF HandleState, SameLog, SameBuffer, SameFile
<1> HIDE DEF s
<1>6. LocalInv(h, s)
    BY <1>1, <1>2, <1>3, <1>4, <1>5, ArrivesKeeps DEF SameFile
<1>7. /\ handle' \in [Handles -> HandleState] /\ handle'[h] = s
      /\ \A g \in Handles \ {h} : handle'[g] = handle[g]
    BY <1>2, <1>4, Moves
<1>8. TypeOK'
    BY <1>2, <1>7 DEF TypeOK, disk
<1>9. Owned(h, handle[h])'
    BY <1>2, <1>3, <1>5, <1>7 DEF Owned, SameFile
<1>10. s.log = r.log /\ s.salvage = r.salvage
    BY <1>5 DEF SameLog, SameFile
<1>11. Unheard(h, handle[h])'
    <2>1. /\ Foreign(h, r.salvage) /\ Foreign(h, stored) /\ Foreign(h, salvage)
          /\ \A g \in Handles : Foreign(h, handle[g].log)
        BY <1>1, <1>2 DEF Unheard
    <2>2. \A g \in Handles : handle'[g].log = handle[g].log
        BY <1>1, <1>7, <1>10
    <2>3. stored' = stored /\ salvage' = salvage
        BY <1>2 DEF disk
    <2> QED BY <1>7, <1>10, <2>1, <2>2, <2>3 DEF Unheard
<1> QED BY <1>1, <1>2, <1>4, <1>5, <1>6, <1>8, <1>9, <1>10, <1>11, Arrived

(* acquireLease. *)
LEMMA LockKept ==
    ASSUME TypeOK, KeptInv, NEW h \in Handles, Lock(h)
    PROVE  TypeOK' /\ KeptInv'
<1> DEFINE r == handle[h]
           s == [r EXCEPT !.phase = "locked", !.lease = TRUE]
<1>1. /\ r \in HandleState /\ LocalInv(h, r) /\ Owned(h, r) /\ Unheard(h, r) /\ r = handle[h]
    BY Present
<1>2. /\ r.phase = "claimed" /\ Set(h, s) /\ exists /\ lock = NoHandle /\ lock' = h
      /\ UNCHANGED <<disk, claim, promised, faults>>
    BY DEF Lock
<1>3. ~r.lease /\ ~r.materialized
    BY <1>2, Unlocked
<1> HIDE DEF r
<1>4. s \in HandleState
    BY <1>1, Typed, ZenonT(20) DEF HandleState
<1>5. /\ s.phase = "locked" /\ s.stage = r.stage /\ s.batch = r.batch
      /\ s.cursor = r.cursor /\ s.queue = r.queue
      /\ SameLog(r, s) /\ SameBuffer(r, s) /\ s.flush = r.flush
      /\ s.want = r.want /\ s.materialized = r.materialized /\ s.torn = r.torn
      /\ s.tornAt = r.tornAt /\ s.salvage = r.salvage /\ s.lease = TRUE
      /\ s.asked = r.asked /\ s.ahead = r.ahead
    BY <1>1 DEF HandleState, SameLog, SameBuffer
<1> HIDE DEF s
<1>6. LocalInv(h, s)
    BY <1>1, <1>2, <1>4, <1>5, ArrivesKeeps
<1>7. /\ handle' \in [Handles -> HandleState] /\ handle'[h] = s
      /\ \A g \in Handles \ {h} : handle'[g] = handle[g]
    BY <1>2, <1>4, Moves
<1>8. TypeOK'
    BY <1>2, <1>7 DEF TypeOK, disk
<1>9. Owned(h, handle[h])'
    BY <1>2, <1>3, <1>5, <1>7 DEF Owned, disk
<1>10. s.log = r.log /\ s.salvage = r.salvage
    BY <1>5 DEF SameLog
<1>11. Unheard(h, handle[h])'
    <2>1. /\ Foreign(h, r.salvage) /\ Foreign(h, stored) /\ Foreign(h, salvage)
          /\ \A g \in Handles : Foreign(h, handle[g].log)
        BY <1>1, <1>2 DEF Unheard
    <2>2. \A g \in Handles : handle'[g].log = handle[g].log
        BY <1>1, <1>7, <1>10
    <2>3. stored' = stored /\ salvage' = salvage
        BY <1>2 DEF disk
    <2> QED BY <1>7, <1>10, <2>1, <2>2, <2>3 DEF Unheard
<1>12. \A g \in Handles \ {h} : lock = g <=> lock' = g
    BY <1>2, HandlesAssumption
<1> QED BY <1>1, <1>2, <1>4, <1>5, <1>6, <1>8, <1>9, <1>10, <1>11, <1>12, Arrived

(* An open that is refused gives back what it has. *)
LEMMA OpenRefusedKept ==
    ASSUME TypeOK, KeptInv, NEW h \in Handles, OpenRefused(h)
    PROVE  TypeOK' /\ KeptInv'
<1> DEFINE s == [Fresh EXCEPT !.phase = "unborn"]
<1>1. /\ handle[h] \in HandleState /\ Owned(h, handle[h]) /\ Unheard(h, handle[h])
    BY Present
<1>2. /\ LocalInv(h, s) /\ s \in HandleState
      /\ s.phase = "unborn" /\ s.log = <<>> /\ s.salvage = <<>> /\ s.owed = 0
      /\ s.cursor = 0 /\ ~s.materialized /\ ~s.lease /\ s.stage = "rest" /\ ~s.entered
    BY FreshKeeps
<1>3. Fresh = s
    BY DEF Fresh
<1>4. /\ handle[h].phase \in {"claimed", "locked"} /\ Set(h, s)
      /\ UNCHANGED <<disk, promised>>
      /\ claim' = [claim EXCEPT ![Home[h]] = NoHandle]
      /\ lock' = IF lock = h THEN NoHandle ELSE lock
    BY <1>3 DEF OpenRefused
<1>5. faults' \in 0..MaxFaults
    <2>1. faults' = faults \/ (faults < MaxFaults /\ faults' = faults + 1)
        BY DEF OpenRefused
    <2>2. faults \in 0..MaxFaults /\ MaxFaults \in Nat
        BY HandlesAssumption DEF TypeOK
    <2> QED BY <2>1, <2>2
<1> HIDE DEF s
<1>6. /\ handle' \in [Handles -> HandleState] /\ handle'[h] = s
      /\ \A g \in Handles \ {h} : handle'[g] = handle[g]
    BY <1>2, <1>4, Moves
<1>7. TypeOK'
    BY <1>4, <1>5, <1>6 DEF TypeOK, disk
<1>8. lock' # h /\ \A g \in Handles \ {h} : lock = g <=> lock' = g
    BY <1>4, HandlesAssumption
<1>9. Owned(h, handle[h])'
    BY <1>2, <1>6, <1>8 DEF Owned
<1>10. Unheard(h, handle[h])'
    <2>1. /\ Foreign(h, stored) /\ Foreign(h, salvage)
          /\ \A g \in Handles : Foreign(h, handle[g].log)
        BY <1>1, <1>4 DEF Unheard
    <2>2. Foreign(h, <<>>)
        BY NoEvents DEF Foreign
    <2>3. \A g \in Handles : Foreign(h, handle'[g].log)
        BY <1>2, <1>6, <2>1, <2>2
    <2>4. stored' = stored /\ salvage' = salvage
        BY <1>4 DEF disk
    <2> QED BY <1>2, <1>6, <2>1, <2>2, <2>3, <2>4 DEF Unheard
<1>11. \A g \in Handles : Foreign(g, s.log)
    BY <1>2, NoEvents DEF Foreign
<1> QED BY <1>2, <1>4, <1>6, <1>7, <1>8, <1>9, <1>10, <1>11, Arrived

(* A log that scans has room for its events. *)
LEMMA Scanned ==
    ASSUME NEW a \in Events, Contiguous(a)
    PROVE  Len(a) \in Count
<1>1. Len(a) \in Nat /\ a \in Seq(Event) /\ MaxEvents \in Nat
    BY NoEvents, HandlesAssumption DEF Events
<1>2. CASE Len(a) = 0
    BY <1>2, Typed
<1>3. CASE Len(a) # 0
    <2>1. Len(a) \in 1..Len(a)
        BY <1>1, <1>3
    <2>2. a[Len(a)] \in Event /\ a[Len(a)].seq = Len(a)
        BY <1>1, <2>1 DEF Contiguous
    <2>3. Len(a) \in 1..MaxEvents
        BY <2>2 DEF Event
    <2> QED BY <1>1, <2>3 DEF Count
<1> QED BY <1>2, <1>3

(* The log under the lock primes the handle. *)
LEMMA AdoptKept ==
    ASSUME TypeOK, KeptInv, NEW h \in Handles, Adopt(h)
    PROVE  TypeOK' /\ KeptInv'
<1> DEFINE r == handle[h]
           a == stored \o salvage
           c == Len(stored) + Len(salvage)
           at == Len(stored)
           s == [r EXCEPT !.phase = "open", !.log = a, !.cursor = c,
                          !.materialized = TRUE, !.torn = torn, !.tornAt = at,
                          !.salvage = salvage]
<1>1. /\ r \in HandleState /\ LocalInv(h, r) /\ Owned(h, r) /\ Unheard(h, r) /\ r = handle[h]
      /\ DiskInv
    BY Present
<1>2. /\ r.phase = "locked" /\ Set(h, s) /\ Contiguous(a)
      /\ UNCHANGED <<disk, lock, claim, promised, faults>>
    BY DEF Adopt
<1>3. stored \in Events /\ salvage \in Events /\ torn \in BOOLEAN
    BY DEF TypeOK, Events
<1>4. /\ a \in Events /\ Len(a) = Len(stored) + Len(salvage)
      /\ \A i \in 1..Len(stored) : a[i] = stored[i]
      /\ \A i \in 1..Len(salvage) : a[Len(stored) + i] = salvage[i]
      /\ Len(stored) \in Nat /\ Len(salvage) \in Nat
    BY <1>3, Joined
<1>5. a = stored \o salvage /\ c = Len(a) /\ c = Len(stored) + Len(salvage) /\ at = Len(stored)
    BY <1>4
<1> HIDE DEF a, r, c, at
<1>6. c \in Count /\ at \in Count
    <2>1. c \in Count
        BY <1>2, <1>4, <1>5, Scanned
    <2>2. at \in Nat /\ at <= c /\ c \in 0..MaxEvents
        BY <1>4, <1>5, <2>1 DEF Count
    <2>3. at \in 0..MaxEvents
        BY <2>2, HandlesAssumption
    <2> QED BY <2>1, <2>3 DEF Count
<1>7. salvage # <<>> => torn
    BY <1>1 DEF DiskInv
<1>8. /\ s.phase = "open" /\ s.log = a /\ s.cursor = c /\ s.materialized /\ s.torn = torn
      /\ s.tornAt = at /\ s.salvage = salvage /\ s.lease = r.lease /\ s.lease
    <2>1. r.lease
        BY <1>1, <1>2 DEF LocalInv, Primed
    <2> QED BY <1>1, <2>1 DEF HandleState
<1>17. s \in HandleState
    BY <1>1, <1>3, <1>4, <1>6, Typed, ZenonT(20) DEF HandleState
<1>18. /\ s.stage = r.stage /\ s.batch = r.batch /\ s.queue = r.queue /\ SameBuffer(r, s)
      /\ s.entered = r.entered /\ s.flush = r.flush /\ s.want = r.want /\ s.owed = r.owed
      /\ s.asked = r.asked /\ s.ahead = r.ahead
    BY <1>1 DEF HandleState, SameBuffer
<1> HIDE DEF s
<1>16. LocalInv(h, s) /\ s \in HandleState
    BY <1>1, <1>2, <1>5, <1>7, <1>8, <1>17, <1>18, AdoptKeeps
<1>9. /\ handle' \in [Handles -> HandleState] /\ handle'[h] = s
      /\ \A g \in Handles \ {h} : handle'[g] = handle[g]
    BY <1>2, <1>16, Moves
<1>10. TypeOK'
    BY <1>2, <1>9 DEF TypeOK, disk
<1>11. lock = h /\ exists
    BY <1>1, <1>2, <1>8 DEF Owned
<1>12. stored' = stored /\ salvage' = salvage /\ exists' = exists /\ lock' = lock
    BY <1>2 DEF disk
<1>13. Owned(h, handle[h])'
    <2>1. /\ s.cursor = Len(stored) + Len(s.salvage)
          /\ \A i \in 1..Len(stored) : stored[i] = s.log[i]
          /\ \A i \in 1..Len(s.salvage) : s.salvage[i] = s.log[Len(stored) + i]
          /\ s.torn => s.tornAt = Len(stored)
          /\ salvage # <<>> => s.torn /\ salvage = s.salvage
        BY <1>4, <1>5, <1>7, <1>8
    <2>2. lock = h /\ s.lease /\ s.phase \notin {"unlocked", "closed"} /\ exists
        BY <1>8, <1>11
    <2> QED BY <1>9, <1>12, <2>1, <2>2 DEF Owned
<1>14. Unheard(h, handle[h])'
    BY <1>1, <1>2, <1>8, <1>9 DEF Unheard
<1>15. \A g \in Handles : Foreign(g, stored) /\ Foreign(g, salvage) => Foreign(g, s.log)
    <2> SUFFICES ASSUME NEW g \in Handles, Foreign(g, stored), Foreign(g, salvage),
                        NEW i \in 1..Len(a)
                 PROVE  a[i].by # g
        BY <1>8 DEF Foreign
    <2>1. CASE i \in 1..Len(stored)
        BY <1>4, <2>1 DEF Foreign
    <2>2. CASE i \notin 1..Len(stored)
        <3>1. i - Len(stored) \in 1..Len(salvage) /\ Len(stored) + (i - Len(stored)) = i
            BY <1>4, <2>2
        <3>2. PICK j \in 1..Len(salvage) : Len(stored) + j = i
            BY <3>1
        <3> QED BY <1>4, <3>2 DEF Foreign
    <2> QED BY <2>1, <2>2
<1> QED BY <1>1, <1>2, <1>8, <1>10, <1>16, <1>12, <1>13, <1>14, <1>15, Arrived

(* A created session acquires the lock before its first write, or does not. *)
LEMMA TakeLockKept ==
    ASSUME TypeOK, KeptInv, NEW h \in Handles, TakeLock(h)
    PROVE  TypeOK' /\ KeptInv'
<1> DEFINE r == handle[h]
           s == Locked([r EXCEPT !.lease = TRUE])
<1>1. /\ r \in HandleState /\ LocalInv(h, r) /\ Owned(h, r) /\ Unheard(h, r) /\ r = handle[h]
    BY Present
<1>2. r.stage = "lock" /\ UNCHANGED <<disk, claim, promised>>
    BY DEF TakeLock
<1>3. \/ /\ lock = NoHandle /\ lock' = h /\ Set(h, s) /\ UNCHANGED faults
      \/ /\ (faults' = faults \/ (faults < MaxFaults /\ faults' = faults + 1))
         /\ Set(h, OpFailed(r)) /\ UNCHANGED lock
    BY DEF TakeLock
<1>4. /\ r.queue # <<>>
      /\ r.phase \in {"open", "stored", "live", "closeDrain", "closeWake", "closeChain"}
    BY <1>1, <1>2 DEF LocalInv, Chained
<1> HIDE DEF r
<1>5. CASE lock = NoHandle /\ lock' = h /\ Set(h, s) /\ UNCHANGED faults
    <2>1. ~r.materialized
        <3>1. ~r.lease
            BY <1>1, <1>4, <1>5, HandlesAssumption DEF Owned
        <3> QED BY <1>1, <3>1 DEF LocalInv, Primed
    <2>2. /\ LocalInv(h, s) /\ s \in HandleState
          /\ SameLog(r, s) /\ SameCallers(r, s)
          /\ s.materialized = r.materialized /\ s.salvage = r.salvage /\ s.lease = TRUE
        BY <1>1, <1>2, LockedKeeps
    <2> HIDE DEF s
    <2>3. /\ handle' \in [Handles -> HandleState] /\ handle'[h] = s
          /\ \A g \in Handles \ {h} : handle'[g] = handle[g]
        BY <1>5, <2>2, Moves
    <2>4. TypeOK'
        BY <1>2, <1>5, <2>3 DEF TypeOK, disk
    <2>5. s.phase = r.phase /\ s.log = r.log
        BY <2>2 DEF SameLog, SameCallers
    <2>6. Owned(h, handle[h])'
        BY <1>4, <1>5, <2>1, <2>2, <2>3, <2>5 DEF Owned
    <2>7. Unheard(h, handle[h])'
        BY <1>1, <1>4, <2>2, <2>3, <2>5 DEF Unheard
    <2>8. \A g \in Handles \ {h} : lock = g <=> lock' = g
        BY <1>5, HandlesAssumption
    <2> QED BY <1>1, <1>2, <1>4, <1>5, <2>2, <2>4, <2>5, <2>6, <2>7, <2>8, Arrived
<1>6. CASE /\ (faults' = faults \/ (faults < MaxFaults /\ faults' = faults + 1))
           /\ Set(h, OpFailed(r)) /\ UNCHANGED lock
    <2>1. faults' \in 0..MaxFaults
        <3>1. faults \in 0..MaxFaults /\ MaxFaults \in Nat
            BY HandlesAssumption DEF TypeOK
        <3> QED BY <1>6, <3>1
    <2> QED BY <1>1, <1>2, <1>4, <1>6, <2>1, OpFailedKept
<1> QED BY <1>3, <1>5, <1>6

(* The lock goes back: everything close had to store is in the file. *)
LEMMA UnlockKept ==
    ASSUME TypeOK, KeptInv, NEW h \in Handles, Unlock(h)
    PROVE  TypeOK' /\ KeptInv'
<1> DEFINE r == handle[h]
           s == [r EXCEPT !.phase = "unlocked"]
<1>1. /\ r \in HandleState /\ LocalInv(h, r) /\ Owned(h, r) /\ Unheard(h, r) /\ Covered(h, r)
      /\ r = handle[h] /\ DiskInv
    BY Present
<1>2. /\ r.phase = "releasing" /\ Set(h, s)
      /\ lock' = IF lock = h THEN NoHandle ELSE lock
      /\ UNCHANGED <<disk, claim, promised, faults>>
    BY DEF Unlock
<1> HIDE DEF r
<1>3. s \in HandleState
    BY <1>1, Typed, ZenonT(20) DEF HandleState
<1>4. /\ s.phase = "unlocked" /\ s.stage = r.stage /\ s.batch = r.batch
      /\ s.cursor = r.cursor /\ s.queue = r.queue
      /\ s.log = r.log /\ s.owed = r.owed /\ s.want = r.want /\ s.flush = r.flush
      /\ SameBuffer(r, s) /\ SameFile(r, s) /\ s.entered = r.entered /\ s.failed = r.failed
      /\ s.asked = r.asked /\ s.ahead = r.ahead
    BY <1>1 DEF HandleState, SameBuffer, SameFile
<1> HIDE DEF s
<1>5. LocalInv(h, s)
    BY <1>1, <1>2, <1>3, <1>4, LeavesKeeps
<1>6. /\ handle' \in [Handles -> HandleState] /\ handle'[h] = s
      /\ \A g \in Handles \ {h} : handle'[g] = handle[g]
    BY <1>2, <1>3, Moves
<1>7. TypeOK'
    BY <1>2, <1>6 DEF TypeOK, disk
<1>8. /\ stored' = stored /\ salvage' = salvage /\ torn' = torn /\ exists' = exists
      /\ promised' = promised /\ disk' = disk
    BY <1>2 DEF disk
<1>9. lock' # h /\ \A g \in Handles \ {h} : lock = g <=> lock' = g
    BY <1>2, HandlesAssumption
<1>10. DiskInv'
    BY <1>1, <1>8 DEF DiskInv
<1>11. Owned(h, handle[h])'
    BY <1>1, <1>4, <1>6, <1>8, <1>9 DEF Owned, SameFile
<1>12. Unheard(h, handle[h])'
    BY <1>1, <1>4, <1>6 DEF Unheard, SameFile
<1>13. Covered(h, handle[h])'
    BY <1>1, <1>2, <1>4, <1>6, <1>8 DEF Covered, Left
<1>14. Len(stored) <= Len(stored')
    <2>1. Len(stored) \in Nat
        BY DEF TypeOK
    <2> QED BY <1>8, <2>1
<1>15. \A g \in Handles \ {h} :
            Foreign(g, stored) /\ Foreign(g, salvage) /\ Foreign(g, handle[h].log)
                => /\ Foreign(g, stored') /\ Foreign(g, salvage')
                   /\ Foreign(g, handle'[h].log)
    BY <1>1, <1>4, <1>6, <1>8
<1>16. LocalInv(h, handle'[h]) /\ \A i \in 1..Len(stored) : stored'[i] = stored[i]
    BY <1>5, <1>6, <1>8
<1> QED
    BY <1>6, <1>7, <1>8, <1>9, <1>10, <1>11, <1>12, <1>13, <1>14, <1>15, <1>16, Moved

(* The handle leaves the tracker, its session the store. *)
LEMMA ReleaseKept ==
    ASSUME TypeOK, KeptInv, NEW h \in Handles, Release(h)
    PROVE  TypeOK' /\ KeptInv'
<1> DEFINE r == handle[h]
           s == [r EXCEPT !.phase = "closed", !.entered = FALSE]
<1>1. /\ r \in HandleState /\ LocalInv(h, r) /\ r = handle[h]
    BY Present
<1>2. /\ r.phase = "unlocked" /\ Set(h, s)
      /\ claim' = [claim EXCEPT ![Home[h]] = NoHandle]
      /\ UNCHANGED <<disk, lock, promised, faults>>
    BY DEF Release
<1> HIDE DEF r
<1>3. s \in HandleState
    BY <1>1, Typed, ZenonT(20) DEF HandleState
<1>4. /\ s.phase = "closed" /\ s.stage = r.stage /\ s.batch = r.batch
      /\ s.cursor = r.cursor /\ s.queue = r.queue
      /\ s.log = r.log /\ s.owed = r.owed /\ s.want = r.want /\ s.flush = r.flush
      /\ SameBuffer(r, s) /\ SameFile(r, s) /\ s.entered = FALSE /\ s.failed = r.failed
      /\ s.asked = r.asked /\ s.ahead = r.ahead
    BY <1>1 DEF HandleState, SameBuffer, SameFile
<1> HIDE DEF s
<1>5. LocalInv(h, s)
    BY <1>1, <1>2, <1>3, <1>4, LeavesKeeps
<1>6. handle' \in [Handles -> HandleState]
    BY <1>2, <1>3, Moves
<1>7. TypeOK'
    BY <1>2, <1>6 DEF TypeOK, disk
<1>8. Len(r.log) \in Nat
    BY <1>1, Fields
<1> QED BY <1>1, <1>2, <1>3, <1>4, <1>5, <1>7, <1>8, Quiet

-----------------------------------------------------------------------------
(* The operations on the file *)

(* Whoever repairs or writes has the lock. *)
LEMMA Holder ==
    ASSUME TypeOK, KeptInv, NEW h \in Handles,
           handle[h].stage \in {"truncate", "rewrite", "write"}
    PROVE  LET r == handle[h] IN
           /\ lock = h /\ r.lease /\ r.queue # <<>>
           /\ r.phase \in {"open", "stored", "live", "closeDrain", "closeWake", "closeChain"}
           /\ Len(stored) \in Nat /\ Len(r.salvage) \in Nat /\ Len(r.log) \in Nat
           /\ r.materialized =>
                /\ exists /\ r.cursor = Len(stored) + Len(r.salvage)
                /\ \A i \in 1..Len(stored) : stored[i] = r.log[i]
                /\ \A i \in 1..Len(r.salvage) : r.salvage[i] = r.log[Len(stored) + i]
                /\ r.torn => r.tornAt = Len(stored)
                /\ salvage # <<>> => r.torn /\ salvage = r.salvage
<1> DEFINE r == handle[h]
<1>1. r \in HandleState /\ LocalInv(h, r) /\ Owned(h, r)
    BY Present
<1>2. r.stage \in {"truncate", "rewrite", "write"}
    OBVIOUS
<1>3. Len(stored) \in Nat
    BY DEF TypeOK
<1> HIDE DEF r
<1>4. r.lease /\ r.queue # <<>>
      /\ r.phase \in {"open", "stored", "live", "closeDrain", "closeWake", "closeChain"}
    BY <1>1, <1>2 DEF LocalInv, Chained, Primed
<1>5. lock = h
    BY <1>1, <1>4 DEF Owned
<1>6. r.materialized =>
        /\ exists /\ r.cursor = Len(stored) + Len(r.salvage)
        /\ \A i \in 1..Len(stored) : stored[i] = r.log[i]
        /\ \A i \in 1..Len(r.salvage) : r.salvage[i] = r.log[Len(stored) + i]
        /\ r.torn => r.tornAt = Len(stored)
        /\ salvage # <<>> => r.torn /\ salvage = r.salvage
    BY <1>1, <1>5 DEF Owned
<1> QED BY <1>1, <1>3, <1>4, <1>5, <1>6, Fields DEF r

(* A part of the repair is done, the next one is due. *)
LEMMA RepairKeeps ==
    ASSUME NEW h \in Handles, NEW r \in HandleState, LocalInv(h, r),
           r.stage \in {"truncate", "rewrite"},
           NEW s \in HandleState, ~s.torn, s.salvage = <<>> \/ s.tornAt = 0,
           s.stage = IF s.salvage = <<>> THEN "write" ELSE "rewrite",
           SameLog(r, s), SameBuffer(r, s), SameCallers(r, s),
           s.queue = r.queue, s.batch = r.batch, s.cursor = r.cursor, s.ahead = r.ahead,
           s.materialized = r.materialized, s.lease = r.lease
    PROVE  LocalInv(h, s) /\ r.materialized
<1>1. r.materialized
    <2>1. r.torn \/ r.salvage # <<>>
        BY DEF LocalInv, Primed
    <2> QED BY <2>1 DEF LocalInv, Primed
<1>2. r.stage # "rest" /\ s.stage # "rest" /\ s.stage \in {"rewrite", "write"}
    OBVIOUS
<1>3. Chained(s)
    BY <1>2 DEF LocalInv, Chained, SameLog, SameBuffer, SameCallers, Left, Closing
<1>7. Awaited(s)
    BY <1>2, Fields DEF LocalInv, Awaited, SameCallers
<1>4. Gathered(s)
    BY <1>2 DEF LocalInv, Gathered, SameLog, SameBuffer, SameCallers
<1>5. Recorded(h, s)
    <2>1. Drained(s) = Drained(r)
        BY DEF Drained
    <2> QED BY <2>1 DEF LocalInv, Recorded, SameLog, SameBuffer, SameCallers
<1>6. Primed(s)
    <2>1. s.phase = r.phase /\ s.log = r.log /\ s.flush = r.flush
        BY DEF SameLog, SameCallers
    <2>2. r.lease /\ ~(r.stage # "rest" /\ r.flush = "op" /\ r.materialized)
        BY DEF LocalInv, Primed
    <2>3. r.phase \notin {"unborn", "claimed", "locked", "dead"}
        BY <1>1 DEF LocalInv, Primed
    <2> QED BY <1>1, <1>2, <2>1, <2>2, <2>3 DEF Primed
<1> QED BY <1>1, <1>3, <1>4, <1>5, <1>6, <1>7 DEF LocalInv

(* The torn bytes go: the complete part of the file stays what it is. *)
LEMMA TruncateKept ==
    ASSUME TypeOK, KeptInv, NEW h \in Handles, Truncate(h)
    PROVE  TypeOK' /\ KeptInv' /\ stored' = stored
<1> DEFINE r == handle[h]
           g == IF r.salvage = <<>> THEN "write" ELSE "rewrite"
           s == [r EXCEPT !.torn = FALSE, !.tornAt = 0, !.stage = g]
<1>1. /\ r \in HandleState /\ LocalInv(h, r) /\ Unheard(h, r) /\ DiskInv /\ r = handle[h]
    BY Present
<1>2. /\ r.stage = "truncate" /\ Set(h, s)
      /\ torn' = FALSE /\ salvage' = <<>>
      /\ UNCHANGED <<exists, lock, claim, promised, faults>>
    BY DEF Truncate
<1>3. /\ lock = h /\ r.lease
      /\ r.phase \in {"open", "stored", "live", "closeDrain", "closeWake", "closeChain"}
      /\ Len(stored) \in Nat /\ Len(r.salvage) \in Nat /\ Len(r.log) \in Nat
      /\ r.materialized =>
            /\ exists /\ r.cursor = Len(stored) + Len(r.salvage)
            /\ \A i \in 1..Len(stored) : stored[i] = r.log[i]
            /\ \A i \in 1..Len(r.salvage) : r.salvage[i] = r.log[Len(stored) + i]
            /\ r.torn => r.tornAt = Len(stored)
    BY <1>2, Holder
<1>4. g \in Stages /\ g = IF r.salvage = <<>> THEN "write" ELSE "rewrite"
    BY Typed
<1> HIDE DEF r, g
<1>5. s \in HandleState
    BY <1>1, <1>4, Typed, ZenonT(20) DEF HandleState
<1>6. /\ s.torn = FALSE /\ s.tornAt = 0 /\ s.stage = g /\ s.salvage = r.salvage
      /\ SameLog(r, s) /\ SameBuffer(r, s) /\ SameCallers(r, s)
      /\ s.queue = r.queue /\ s.batch = r.batch /\ s.cursor = r.cursor /\ s.ahead = r.ahead
      /\ s.materialized = r.materialized /\ s.lease = r.lease
    BY <1>1 DEF HandleState, SameLog, SameBuffer, SameCallers
<1> HIDE DEF s
<1>7. LocalInv(h, s) /\ r.materialized
    BY <1>1, <1>2, <1>4, <1>5, <1>6, RepairKeeps
<1>8. stored' = stored
    <2>1. r.torn
        BY <1>1, <1>2 DEF LocalInv, Primed
    <2>2. stored' = SubSeq(stored, 1, r.tornAt)
        BY DEF Truncate, r
    <2>3. stored' = SubSeq(stored, 1, Len(stored)) /\ stored \in Seq(Event)
        BY <1>3, <1>7, <2>1, <2>2 DEF TypeOK
    <2> QED BY <2>3
<1>9. /\ handle' \in [Handles -> HandleState] /\ handle'[h] = s
      /\ \A x \in Handles \ {h} : handle'[x] = handle[x]
    BY <1>2, <1>5, Moves
<1>10. TypeOK'
    <2>1. salvage' \in Seq(Event)
        BY <1>2, NoEvents DEF Events
    <2> QED BY <1>2, <1>8, <1>9, <2>1 DEF TypeOK
<1>11. DiskInv'
    BY <1>1, <1>2, <1>8, NoEvents DEF DiskInv
<1>12. s.phase = r.phase /\ s.log = r.log
    BY <1>6 DEF SameLog, SameCallers
<1>13. Owned(h, handle[h])'
    <2>1. /\ s.cursor = Len(stored) + Len(s.salvage)
          /\ \A i \in 1..Len(stored) : stored[i] = s.log[i]
          /\ \A i \in 1..Len(s.salvage) : s.salvage[i] = s.log[Len(stored) + i]
        BY <1>3, <1>6, <1>7, <1>12
    <2>2. lock' = h /\ s.lease /\ s.phase \notin {"unlocked", "closed"} /\ exists' /\ ~s.torn
          /\ salvage' = <<>>
        BY <1>2, <1>3, <1>6, <1>7, <1>12
    <2> QED BY <1>8, <1>9, <2>1, <2>2 DEF Owned
<1>14. Unheard(h, handle[h])'
    BY <1>1, <1>3, <1>6, <1>9, <1>12 DEF Unheard
<1>15. Covered(h, handle[h])'
    BY <1>3, <1>9, <1>12 DEF Covered, Left
<1>16. \A x \in Handles \ {h} :
            Foreign(x, stored) /\ Foreign(x, salvage) /\ Foreign(x, handle[h].log)
                => /\ Foreign(x, stored') /\ Foreign(x, salvage')
                   /\ Foreign(x, handle'[h].log)
    <2>1. \A x \in Handles : Foreign(x, <<>>)
        BY NoEvents DEF Foreign
    <2> QED BY <1>1, <1>2, <1>8, <1>9, <1>12, <2>1
<1>17. /\ LocalInv(h, handle'[h]) /\ \A i \in 1..Len(stored) : stored'[i] = stored[i]
       /\ Len(stored) <= Len(stored') /\ (exists => exists')
       /\ (disk' = disk \/ lock = h)
       /\ \A x \in Handles \ {h} : lock = x <=> lock' = x
    BY <1>2, <1>3, <1>7, <1>8, <1>9
<1>18. KeptInv'
    BY <1>9, <1>10, <1>11, <1>13, <1>14, <1>15, <1>16, <1>17, Moved
<1> QED BY <1>8, <1>10, <1>18

(* x is a, continued by b. *)
Continued(a, b, x) ==
    /\ x \in Events /\ Len(x) = Len(a) + Len(b)
    /\ \A i \in 1..Len(a) : x[i] = a[i]
    /\ \A i \in 1..Len(b) : x[Len(a) + i] = b[i]
    /\ Len(a) \in Nat /\ Len(b) \in Nat /\ Len(x) \in Nat /\ Len(a) <= Len(x)
    /\ \A i \in 1..Len(x) : i \in 1..Len(a) \/ \E j \in 1..Len(b) : i = Len(a) + j

(* The file grows by events in a row. *)
LEMMA Grown ==
    ASSUME NEW a \in Events, NEW b \in Events
    PROVE  Continued(a, b, a \o b)
<1> DEFINE x == a \o b
<1>2. /\ a \o b \in Events /\ Len(a \o b) = Len(a) + Len(b)
      /\ \A i \in 1..Len(a) : (a \o b)[i] = a[i]
      /\ \A i \in 1..Len(b) : (a \o b)[Len(a) + i] = b[i]
      /\ Len(a) \in Nat /\ Len(b) \in Nat /\ Len(a \o b) \in Nat
    BY Joined
<1>3. ASSUME NEW i \in 1..Len(x), i \notin 1..Len(a)
      PROVE  \E j \in 1..Len(b) : i = Len(a) + j
    <2>1. i - Len(a) \in 1..Len(b) /\ i = Len(a) + (i - Len(a))
        BY <1>2, <1>3
    <2> QED BY <2>1
<1> QED BY <1>2, <1>3 DEF Continued

(* The holder of the lock wrote the next events of its log into a sound file. *)
LEMMA Wrote ==
    ASSUME TypeOK, KeptInv, NEW h \in Handles, NEW s \in HandleState, Set(h, s),
           lock = h, UNCHANGED <<lock, claim, torn>>, faults' \in 0..MaxFaults,
           LocalInv(h, s), s.lease, s.materialized, ~s.torn, s.salvage = <<>>,
           s.phase \in {"open", "stored", "live", "closeDrain", "closeWake", "closeChain"},
           \A i \in 1..Len(s.log) :
                s.log[i].by = h \/ (i \in 1..Len(handle[h].log) /\ s.log[i] = handle[h].log[i]),
           exists' = TRUE, salvage = <<>>, salvage' = <<>>,
           stored' \in Events, Len(stored) <= Len(stored'),
           \A i \in 1..Len(stored) : stored'[i] = stored[i],
           s.cursor = Len(stored'),
           \A i \in 1..Len(stored') : stored'[i] = s.log[i],
           promised' \in Events, Len(promised') <= Len(stored'),
           \A i \in 1..Len(promised') : promised'[i] = stored'[i]
    PROVE  TypeOK' /\ KeptInv'
<1>1. /\ handle' \in [Handles -> HandleState] /\ handle'[h] = s
      /\ \A x \in Handles \ {h} : handle'[x] = handle[x]
    BY Moves
<1>2. TypeOK'
    <2>1. salvage' \in Seq(Event) /\ stored' \in Seq(Event) /\ promised' \in Seq(Event)
        BY NoEvents DEF Events
    <2>2. exists' \in BOOLEAN /\ torn' \in BOOLEAN
        BY DEF TypeOK
    <2>3. lock' \in Handles \cup {NoHandle} /\ claim' \in [Processes -> Handles \cup {NoHandle}]
        BY DEF TypeOK
    <2> QED BY <1>1, <2>1, <2>2, <2>3 DEF TypeOK
<1>3. Len(stored') \in Nat /\ Len(s.log) \in Nat /\ Len(stored') <= Len(s.log)
    BY Fields, NoEvents, Reached
<1>4. \A i \in 1..Len(stored') : i \in 1..Len(s.log)
    BY <1>3
<1>5. DiskInv'
    <2>1. \A i \in 1..Len(s.log) : s.log[i].seq = i
        BY DEF LocalInv, Recorded, Story
    <2>2. \A i \in 1..Len(stored') : stored'[i].seq = i
        BY <1>4, <2>1
    <2>3. \A i \in 1..Len(salvage') : salvage'[i].seq = Len(stored') + i
        BY NoEvents
    <2> QED BY <2>2, <2>3 DEF DiskInv
<1>6. Owned(h, handle[h])'
    <2>1. s.cursor = Len(stored') + Len(s.salvage)
        BY <1>3, NoEvents
    <2>2. \A i \in 1..Len(s.salvage) : s.salvage[i] = s.log[Len(stored') + i]
        BY NoEvents
    <2> QED BY <1>1, <2>1, <2>2 DEF Owned
<1>7. Unheard(h, handle[h])'
    <2>1. Foreign(h, s.salvage)
        BY NoEvents DEF Foreign
    <2> QED BY <1>1, <2>1 DEF Unheard
<1>8. Covered(h, handle[h])'
    BY <1>1 DEF Covered, Left
<1>9. \A x \in Handles \ {h} :
            Foreign(x, stored) /\ Foreign(x, salvage) /\ Foreign(x, handle[h].log)
                => /\ Foreign(x, stored') /\ Foreign(x, salvage')
                   /\ Foreign(x, handle'[h].log)
    <2> SUFFICES ASSUME NEW x \in Handles \ {h}, Foreign(x, handle[h].log)
                 PROVE  Foreign(x, stored') /\ Foreign(x, salvage') /\ Foreign(x, s.log)
        BY <1>1
    <2>1. Foreign(x, s.log)
        BY DEF Foreign
    <2>2. Foreign(x, stored')
        BY <1>4, <2>1 DEF Foreign
    <2>3. Foreign(x, salvage')
        BY NoEvents DEF Foreign
    <2> QED BY <2>1, <2>2, <2>3
<1>10. KeptInv'
    <2>1. LocalInv(h, handle'[h]) /\ (exists => exists') /\ (disk' = disk \/ lock = h)
        BY <1>1
    <2>2. \A x \in Handles \ {h} : lock = x <=> lock' = x
        OBVIOUS
    <2> QED BY <1>1, <1>2, <1>5, <1>6, <1>7, <1>8, <1>9, <2>1, <2>2, Moved
<1> QED BY <1>2, <1>10

(* The recovered events are written again: they continue the file. *)
LEMMA RewriteKept ==
    ASSUME TypeOK, KeptInv, NEW h \in Handles, Rewrite(h)
    PROVE  TypeOK' /\ KeptInv'
<1> DEFINE r == handle[h]
           s == [r EXCEPT !.salvage = <<>>, !.stage = "write"]
<1>1. /\ r \in HandleState /\ LocalInv(h, r) /\ DiskInv /\ r = handle[h]
    BY Present
<1>2. /\ r.stage = "rewrite" /\ Set(h, s)
      /\ UNCHANGED <<exists, torn, salvage, lock, claim, promised, faults>>
    BY DEF Rewrite
<1>3. stored' = stored \o r.salvage
    BY DEF Rewrite
<1>4. /\ lock = h /\ r.lease
      /\ r.phase \in {"open", "stored", "live", "closeDrain", "closeWake", "closeChain"}
      /\ Len(stored) \in Nat /\ Len(r.salvage) \in Nat /\ Len(r.log) \in Nat
      /\ r.materialized =>
            /\ exists /\ r.cursor = Len(stored) + Len(r.salvage)
            /\ \A i \in 1..Len(stored) : stored[i] = r.log[i]
            /\ \A i \in 1..Len(r.salvage) : r.salvage[i] = r.log[Len(stored) + i]
            /\ r.torn => r.tornAt = Len(stored)
            /\ salvage # <<>> => r.torn /\ salvage = r.salvage
    BY <1>2, Holder
<1> HIDE DEF r
<1>5. s \in HandleState
    BY <1>1, NoEvents, Typed, ZenonT(20) DEF HandleState
<1>6. /\ s.torn = r.torn /\ s.tornAt = r.tornAt /\ s.stage = "write" /\ s.salvage = <<>>
      /\ SameLog(r, s) /\ SameBuffer(r, s) /\ SameCallers(r, s)
      /\ s.queue = r.queue /\ s.batch = r.batch /\ s.cursor = r.cursor /\ s.ahead = r.ahead
      /\ s.materialized = r.materialized /\ s.lease = r.lease
    BY <1>1 DEF HandleState, SameLog, SameBuffer, SameCallers
<1> HIDE DEF s
<1>7. ~r.torn
    BY <1>1, <1>2 DEF LocalInv, Primed
<1>8. LocalInv(h, s) /\ r.materialized
    BY <1>1, <1>2, <1>5, <1>6, <1>7, RepairKeeps
<1>9. salvage = <<>> /\ s.phase = r.phase /\ s.log = r.log
    BY <1>4, <1>6, <1>7, <1>8 DEF SameLog, SameCallers
<1>10. /\ stored' \in Events /\ Len(stored') = Len(stored) + Len(r.salvage)
       /\ \A i \in 1..Len(stored) : stored'[i] = stored[i]
       /\ \A i \in 1..Len(r.salvage) : stored'[Len(stored) + i] = r.salvage[i]
       /\ Len(stored) <= Len(stored')
       /\ \A i \in 1..Len(stored') :
            i \in 1..Len(stored) \/ \E j \in 1..Len(r.salvage) : i = Len(stored) + j
    <2>1. stored \in Events
        BY DEF TypeOK, Events
    <2>2. r.salvage \in Events
        BY <1>1, Fields
    <2>3. Continued(stored, r.salvage, stored')
        BY <1>3, <2>1, <2>2, Grown
    <2> QED BY <2>3 DEF Continued
<1>11. \A i \in 1..Len(stored') : stored'[i] = s.log[i]
    <2>1. \A i \in 1..Len(stored) : stored'[i] = s.log[i]
        BY <1>4, <1>8, <1>9, <1>10
    <2>2. \A j \in 1..Len(r.salvage) : stored'[Len(stored) + j] = s.log[Len(stored) + j]
        BY <1>4, <1>8, <1>9, <1>10
    <2> QED BY <1>10, <2>1, <2>2, Zenon
<1>12. /\ promised' = promised /\ promised \in Events /\ Len(promised) \in Nat
       /\ Len(promised) <= Len(stored)
       /\ \A i \in 1..Len(promised) : promised[i] = stored[i]
    BY <1>1, <1>2 DEF DiskInv, TypeOK, Events
<1>13. /\ Len(promised') <= Len(stored')
       /\ \A i \in 1..Len(promised') : promised'[i] = stored'[i]
    <2>1. \A i \in 1..Len(promised) : i \in 1..Len(stored)
        BY <1>4, <1>12
    <2>2. \A i \in 1..Len(promised) : promised[i] = stored'[i]
        BY <1>10, <1>12, <2>1
    <2>3. Len(promised) <= Len(stored')
        BY <1>4, <1>10, <1>12
    <2> QED BY <1>12, <2>2, <2>3
<1>14. s.cursor = Len(stored')
    BY <1>4, <1>6, <1>8, <1>10
<1>15. faults' \in 0..MaxFaults
    BY <1>2 DEF TypeOK
<1>16. \A i \in 1..Len(s.log) :
            s.log[i].by = h \/ (i \in 1..Len(handle[h].log) /\ s.log[i] = handle[h].log[i])
    BY <1>1, <1>9
<1>17. exists' = TRUE /\ salvage' = <<>> /\ s.lease /\ s.materialized /\ ~s.torn
       /\ s.phase \in {"open", "stored", "live", "closeDrain", "closeWake", "closeChain"}
    BY <1>2, <1>4, <1>6, <1>7, <1>8, <1>9 DEF TypeOK
<1> QED
    BY <1>2, <1>4, <1>5, <1>6, <1>8, <1>9, <1>10, <1>11, <1>12, <1>13, <1>14, <1>15, <1>16,
       <1>17, Wrote

(* The batch lands in the file and the operation is over. *)
LEMMA WriteKept ==
    ASSUME TypeOK, KeptInv, NEW h \in Handles, Write(h)
    PROVE  TypeOK' /\ KeptInv'
<1> DEFINE r == handle[h]
           s == OpDone(r)
<1>1. /\ r \in HandleState /\ LocalInv(h, r) /\ DiskInv /\ r = handle[h]
    BY Present
<1>2. /\ r.stage = "write" /\ (r.materialized \/ ~exists) /\ Set(h, s)
      /\ exists' = TRUE /\ UNCHANGED <<torn, salvage, lock, claim, faults>>
    BY DEF Write
<1>3. stored' = stored \o r.batch
    BY DEF Write
<1>4. Promise(r)
    BY DEF Write
<1>5. /\ lock = h /\ r.lease
      /\ Len(stored) \in Nat /\ Len(r.salvage) \in Nat /\ Len(r.log) \in Nat
      /\ r.materialized =>
            /\ exists /\ r.cursor = Len(stored) + Len(r.salvage)
            /\ \A i \in 1..Len(stored) : stored[i] = r.log[i]
            /\ \A i \in 1..Len(r.salvage) : r.salvage[i] = r.log[Len(stored) + i]
            /\ r.torn => r.tornAt = Len(stored)
            /\ salvage # <<>> => r.torn /\ salvage = r.salvage
    BY <1>2, Holder
<1> HIDE DEF r
<1>6. /\ r.queue # <<>> /\ ~r.torn /\ r.salvage = <<>> /\ Len(r.batch) \in Nat
      /\ r.phase \in {"open", "stored", "live", "closeDrain", "closeWake", "closeChain"}
    BY <1>1, <1>2, Writing
<1>7. /\ LocalInv(h, s) /\ s \in HandleState /\ Extended(h, r, s)
      /\ s.phase = r.phase \/ (s.phase = "stored" /\ r.phase \in {"open", "stored"})
    BY <1>1, <1>2, OpDoneKeeps
<1> HIDE DEF s
<1>8. /\ r.cursor = Len(stored) /\ salvage = <<>>
      /\ \A i \in 1..Len(stored) : stored[i] = r.log[i]
    <2>1. CASE r.materialized
        <3>1. Len(r.salvage) = 0
            BY <1>6, NoEvents
        <3> QED BY <1>5, <1>6, <2>1, <3>1
    <2>2. CASE ~r.materialized
        <3>1. r.cursor = 0
            BY <1>1, <2>2 DEF LocalInv, Primed
        <3>2. stored = <<>> /\ salvage = <<>>
            BY <1>1, <1>2, <2>2 DEF DiskInv
        <3> QED BY <3>1, <3>2, NoEvents
    <2> QED BY <2>1, <2>2
<1>9. Continued(stored, r.batch, stored')
    <2>1. stored \in Events
        BY DEF TypeOK, Events
    <2>2. r.batch \in Events
        BY <1>1, Fields
    <2> QED BY <1>3, <2>1, <2>2, Grown
<1>10. \A i \in 1..Len(stored') : stored'[i] = s.log[i]
    <2>1. r.cursor <= Len(r.log)
        BY <1>1, Reached
    <2>2. \A i \in 1..Len(stored) : i \in 1..Len(r.log)
        BY <1>5, <1>8, <2>1
    <2>3. \A i \in 1..Len(stored) : stored'[i] = s.log[i]
        BY <1>7, <1>8, <1>9, <2>2 DEF Continued, Extended
    <2>4. \A j \in 1..Len(r.batch) : stored'[Len(stored) + j] = s.log[Len(stored) + j]
        BY <1>7, <1>8, <1>9 DEF Continued, Extended
    <2> QED BY <1>9, <2>3, <2>4, Zenon DEF Continued
<1>11. promised' = promised
    <2>1. CASE Head(r.queue) # "flush"
        BY <1>4, <2>1 DEF Promise
    <2>2. CASE Head(r.queue) = "flush"
        <3>1. r.queue \in {<<"flush">>, <<"flush", "drain">>}
            BY <1>1, <1>6, <2>2, Queues DEF LocalInv, Chained
        <3>2. r.flush = "op" /\ r.want <= r.cursor
            BY <1>1, <3>1 DEF LocalInv, Chained, Recorded
        <3>3. r.cursor = 0
            BY <1>1, <1>2, <3>2 DEF LocalInv, Primed
        <3>4. Len(promised) \in Nat /\ r.want \in Nat
            BY <1>1, Fields DEF TypeOK
        <3>5. ~(r.want > Len(promised))
            BY <3>2, <3>3, <3>4
        <3> QED BY <1>4, <1>6, <3>5 DEF Promise
    <2> QED BY <2>1, <2>2
<1>12. /\ promised \in Events /\ Len(promised) \in Nat /\ Len(promised) <= Len(stored)
       /\ \A i \in 1..Len(promised) : promised[i] = stored[i]
    <2>1. promised \in Events /\ Len(promised) \in Nat
        BY DEF TypeOK, Events
    <2> QED BY <1>1, <2>1 DEF DiskInv
<1>13. /\ stored' \in Events /\ Len(stored) <= Len(stored') /\ Len(stored') \in Nat
       /\ \A i \in 1..Len(stored) : stored'[i] = stored[i]
    BY <1>9 DEF Continued
<1>14. /\ Len(promised') <= Len(stored')
       /\ \A i \in 1..Len(promised') : promised'[i] = stored'[i]
    <2>1. \A i \in 1..Len(promised) : i \in 1..Len(stored)
        BY <1>5, <1>12
    <2>2. \A i \in 1..Len(promised) : promised[i] = stored'[i]
        BY <1>12, <1>13, <2>1
    <2> QED BY <1>5, <1>11, <1>12, <1>13, <2>2
<1>15. s.cursor = Len(stored')
    BY <1>7, <1>8, <1>9 DEF Extended, Continued
<1>16. faults' \in 0..MaxFaults
    BY <1>2 DEF TypeOK
<1>17. \A i \in 1..Len(s.log) :
            s.log[i].by = h \/ (i \in 1..Len(handle[h].log) /\ s.log[i] = handle[h].log[i])
    BY <1>1, <1>7 DEF Extended
<1>18. s.lease /\ s.materialized /\ ~s.torn /\ s.salvage = <<>>
    BY <1>5, <1>6, <1>7 DEF Extended
<1>19. s.phase \in {"open", "stored", "live", "closeDrain", "closeWake", "closeChain"}
    BY <1>6, <1>7
<1>20. UNCHANGED <<lock, claim, torn>> /\ exists' = TRUE /\ salvage' = <<>> /\ promised' \in Events
    BY <1>2, <1>8, <1>11, <1>12
<1>21. Set(h, s)
    BY <1>2
<1>22. LocalInv(h, s) /\ s \in HandleState
    BY <1>7
<1> QED
    BY <1>5, <1>8, <1>10, <1>13, <1>14, <1>15, <1>16, <1>17, <1>18, <1>19, <1>20,
       <1>21, <1>22, Wrote

(* An operation fails after it has touched the file. *)
LEMMA FailedLate ==
    ASSUME TypeOK, KeptInv, NEW h \in Handles, NEW r, r = handle[h],
           r.stage \in {"truncate", "rewrite", "write"},
           Set(h, OpFailed(r)), UNCHANGED <<lock, claim, promised>>,
           faults' \in 0..MaxFaults, exists' \in BOOLEAN, torn' \in BOOLEAN,
           exists => exists', salvage' = <<>>, stored' \in Events, DiskInv',
           Len(stored) <= Len(stored'), \A i \in 1..Len(stored) : stored'[i] = stored[i],
           r.materialized => stored' = stored,
           \A x \in Handles \ {h} : Foreign(x, stored) => Foreign(x, stored')
    PROVE  TypeOK' /\ KeptInv'
<1> DEFINE s == OpFailed(r)
<1>1. r \in HandleState /\ LocalInv(h, r) /\ Unheard(h, r)
    BY Present
<1>2. /\ lock = h /\ r.lease /\ r.queue # <<>>
      /\ r.phase \in {"open", "stored", "live", "closeDrain", "closeWake", "closeChain"}
      /\ r.materialized =>
            /\ exists /\ r.cursor = Len(stored) + Len(r.salvage)
            /\ \A i \in 1..Len(stored) : stored[i] = r.log[i]
            /\ \A i \in 1..Len(r.salvage) : r.salvage[i] = r.log[Len(stored) + i]
            /\ r.torn => r.tornAt = Len(stored)
    BY Holder
<1>3. /\ LocalInv(h, s) /\ s \in HandleState
      /\ SameFile(r, s) /\ SameLog(r, s) /\ s.cursor = r.cursor
      /\ s.phase = r.phase \/ (s.phase = "broken" /\ r.phase \in {"open", "stored"})
    BY <1>1, <1>2, OpFailedKeeps
<1>4. Set(h, s)
    OBVIOUS
<1> HIDE DEF s
<1>5. /\ handle' \in [Handles -> HandleState] /\ handle'[h] = s
      /\ \A x \in Handles \ {h} : handle'[x] = handle[x]
    BY <1>3, <1>4, Moves
<1>6. TypeOK'
    <2>1. salvage' \in Seq(Event) /\ stored' \in Seq(Event)
        BY NoEvents DEF Events
    <2> QED BY <1>5, <2>1 DEF TypeOK
<1>7. Owned(h, handle[h])'
    <2>1. lock' = h /\ s.lease /\ s.phase \notin {"unlocked", "closed", "locked"}
        BY <1>2, <1>3 DEF SameFile
    <2>2. s.materialized => exists'
        BY <1>2, <1>3 DEF SameFile
    <2>3. s.materialized =>
            /\ s.cursor = Len(stored') + Len(s.salvage)
            /\ \A i \in 1..Len(stored') : stored'[i] = s.log[i]
            /\ \A i \in 1..Len(s.salvage) : s.salvage[i] = s.log[Len(stored') + i]
            /\ s.torn => s.tornAt = Len(stored')
        BY <1>2, <1>3 DEF SameFile, SameLog
    <2> QED BY <1>5, <2>1, <2>2, <2>3 DEF Owned
<1>8. Unheard(h, handle[h])'
    <2>1. s.phase \notin {"unborn", "claimed", "locked"} /\ s.salvage = r.salvage
        BY <1>2, <1>3 DEF SameFile
    <2> QED BY <1>1, <1>5, <2>1 DEF Unheard
<1>9. Covered(h, handle[h])'
    <2>1. ~Left(s)
        BY <1>2, <1>3 DEF Left
    <2> QED BY <1>5, <2>1 DEF Covered
<1>10. \A x \in Handles \ {h} :
            Foreign(x, stored) /\ Foreign(x, salvage) /\ Foreign(x, handle[h].log)
                => /\ Foreign(x, stored') /\ Foreign(x, salvage')
                   /\ Foreign(x, handle'[h].log)
    <2>1. \A x \in Handles : Foreign(x, salvage')
        BY NoEvents DEF Foreign
    <2>2. handle'[h].log = handle[h].log
        BY <1>3, <1>5 DEF SameLog
    <2> QED BY <2>1, <2>2
<1>11. /\ LocalInv(h, handle'[h]) /\ (disk' = disk \/ lock = h)
       /\ \A x \in Handles \ {h} : lock = x <=> lock' = x
    BY <1>2, <1>3, <1>5
<1>12. KeptInv'
    BY <1>5, <1>6, <1>7, <1>8, <1>9, <1>10, <1>11, Moved
<1> QED BY <1>6, <1>12

(* The write fails before it touched the file, or after a new file was linked. *)
LEMMA WriteFailsKept ==
    ASSUME TypeOK, KeptInv, NEW h \in Handles, WriteFails(h)
    PROVE  TypeOK' /\ KeptInv'
<1> DEFINE r == handle[h]
<1>1. r \in HandleState /\ LocalInv(h, r) /\ DiskInv /\ r = handle[h]
    BY Present
<1>2. /\ r.stage = "write" /\ Set(h, OpFailed(r))
      /\ UNCHANGED <<torn, salvage, lock, claim, promised>>
      /\ (faults' = faults \/ (faults < MaxFaults /\ faults' = faults + 1))
    BY DEF WriteFails
<1>3. \/ UNCHANGED <<exists, stored>>
      \/ ~r.materialized /\ ~exists /\ exists' = TRUE /\ stored' = r.batch
    BY DEF WriteFails
<1> HIDE DEF r
<1>4. r.queue # <<>>
    BY <1>1, <1>2, Writing
<1>5. faults' \in 0..MaxFaults
    <2>1. faults \in 0..MaxFaults /\ MaxFaults \in Nat
        BY HandlesAssumption DEF TypeOK
    <2> QED BY <1>2, <2>1
<1>6. CASE UNCHANGED <<exists, stored>>
    BY <1>1, <1>2, <1>4, <1>5, <1>6, OpFailedKept DEF disk
<1>7. CASE ~r.materialized /\ ~exists /\ exists' = TRUE /\ stored' = r.batch
    <2>1. r.cursor = 0 /\ r.batch \in Events /\ Len(r.batch) \in Nat
        BY <1>1, <1>7, Fields DEF LocalInv, Primed
    <2>2. stored = <<>> /\ salvage = <<>> /\ promised = <<>>
        BY <1>1, <1>7 DEF DiskInv
    <2>3. \A i \in 1..Len(r.batch) : r.batch[i].seq = i /\ r.batch[i].by = h
        BY <1>1, <2>1 DEF LocalInv, Recorded, Batched
    <2>4. DiskInv'
        <3>1. \A i \in 1..Len(stored') : stored'[i].seq = i
            BY <1>7, <2>3
        <3>2. /\ \A i \in 1..Len(salvage') : salvage'[i].seq = Len(stored') + i
              /\ Len(promised') <= Len(stored')
              /\ \A i \in 1..Len(promised') : promised'[i] = stored'[i]
            BY <1>2, <1>7, <2>1, <2>2, NoEvents
        <3> QED BY <1>2, <1>7, <2>2, <3>1, <3>2 DEF DiskInv
    <2>5. /\ salvage' = <<>> /\ exists' \in BOOLEAN /\ torn' \in BOOLEAN
          /\ stored' \in Events /\ (exists => exists') /\ (r.materialized => stored' = stored)
        BY <1>2, <1>7, <2>1, <2>2 DEF TypeOK
    <2>6. Len(stored) <= Len(stored') /\ \A i \in 1..Len(stored) : stored'[i] = stored[i]
        BY <1>7, <2>1, <2>2, NoEvents
    <2>7. \A x \in Handles \ {h} : Foreign(x, stored')
        BY <1>7, <2>3 DEF Foreign
    <2> QED BY <1>1, <1>2, <1>5, <2>4, <2>5, <2>6, <2>7, FailedLate
<1> QED BY <1>3, <1>6, <1>7

(* The repair fails before or after its part of it landed. *)
LEMMA RepairFailsKept ==
    ASSUME TypeOK, KeptInv, NEW h \in Handles, RepairFails(h)
    PROVE  TypeOK' /\ KeptInv'
<1> DEFINE r == handle[h]
<1>1. r \in HandleState /\ LocalInv(h, r) /\ DiskInv /\ r = handle[h]
    BY Present
<1>2. /\ r.stage \in {"truncate", "rewrite"} /\ Set(h, OpFailed(r))
      /\ UNCHANGED <<exists, stored, lock, claim, promised>>
      /\ faults < MaxFaults /\ faults' = faults + 1
    BY DEF RepairFails
<1>3. UNCHANGED <<torn, salvage>> \/ (torn' = FALSE /\ salvage' = <<>>)
    BY DEF RepairFails
<1> HIDE DEF r
<1>4. r.queue # <<>> /\ r.stage # "rest"
    BY <1>1, <1>2 DEF LocalInv, Chained
<1>5. faults' \in 0..MaxFaults
    <2>1. faults \in 0..MaxFaults /\ MaxFaults \in Nat
        BY HandlesAssumption DEF TypeOK
    <2> QED BY <1>2, <2>1
<1>6. CASE UNCHANGED <<torn, salvage>>
    BY <1>1, <1>2, <1>4, <1>5, <1>6, OpFailedKept DEF disk
<1>7. CASE torn' = FALSE /\ salvage' = <<>>
    <2>1. DiskInv'
        <3>1. \A i \in 1..Len(salvage') : salvage'[i].seq = Len(stored') + i
            BY <1>7, NoEvents
        <3> QED BY <1>1, <1>2, <1>7, <3>1 DEF DiskInv
    <2>2. /\ stored' \in Events /\ exists' \in BOOLEAN /\ torn' \in BOOLEAN
          /\ Len(stored) \in Nat
        <3>1. stored \in Events /\ exists \in BOOLEAN /\ Len(stored) \in Nat
            BY DEF TypeOK, Events
        <3> QED BY <1>2, <1>7, <3>1
    <2>3. Len(stored) <= Len(stored') /\ \A i \in 1..Len(stored) : stored'[i] = stored[i]
        BY <1>2, <2>2
    <2>4. /\ (exists => exists') /\ (r.materialized => stored' = stored)
          /\ r.stage \in {"truncate", "rewrite", "write"}
          /\ \A x \in Handles \ {h} : Foreign(x, stored) => Foreign(x, stored')
        BY <1>2
    <2> QED BY <1>1, <1>2, <1>5, <1>7, <2>1, <2>2, <2>3, <2>4, FailedLate
<1> QED BY <1>3, <1>6, <1>7

(* The first events of some. *)
LEMMA Cut ==
    ASSUME NEW e \in Events, NEW n \in 0..Len(e)
    PROVE  /\ SubSeq(e, 1, n) \in Events /\ Len(SubSeq(e, 1, n)) = n
           /\ \A i \in 1..n : SubSeq(e, 1, n)[i] = e[i] /\ i \in 1..Len(e)
<1>1. Len(e) \in Nat /\ e \in Seq(Event)
    BY DEF Events
<1>2. \A i \in 1..n : i \in 1..Len(e)
    BY <1>1
<1>3. SubSeq(e, 1, n) \in Seq(Event) /\ Len(SubSeq(e, 1, n)) = n
    BY <1>1, <1>2
<1>4. \A i \in 1..n : SubSeq(e, 1, n)[i] = e[i]
    BY <1>1, <1>2
<1> QED BY <1>2, <1>3, <1>4 DEF Events

(* An append in a sound file is interrupted. *)
LEMMA TornAppendKeeps ==
    ASSUME TypeOK, DiskInv, salvage = <<>>, exists = TRUE, UNCHANGED <<exists, promised>>,
           NEW e \in Events, \A i \in 1..Len(e) : e[i].seq = Len(stored) + i,
           TornAppend(e)
    PROVE  /\ DiskInv'
           /\ stored' \in Events /\ salvage' \in Events /\ torn' \in BOOLEAN
           /\ Len(stored) <= Len(stored')
           /\ \A i \in 1..Len(stored) : stored'[i] = stored[i]
           /\ \A x \in Handles :
                Foreign(x, stored) /\ Foreign(x, e)
                    => Foreign(x, stored') /\ Foreign(x, salvage')
<1>1. /\ stored \in Events /\ Len(stored) \in Nat /\ torn \in BOOLEAN
      /\ promised \in Events /\ Len(promised) \in Nat /\ Len(e) \in Nat
    BY NoEvents DEF TypeOK, Events
<1>2. /\ \A i \in 1..Len(stored) : stored[i].seq = i
      /\ Len(promised) <= Len(stored)
      /\ \A i \in 1..Len(promised) : promised[i] = stored[i]
    BY DEF DiskInv
<1>3. /\ Len(salvage) = 0 /\ salvage \in Events
    BY NoEvents
<1>4. ASSUME NEW b \in Events, stored' = stored \o b, Len(b) \in Nat,
             \A i \in 1..Len(b) : i \in 1..Len(e) /\ b[i] = e[i],
             salvage' = salvage, torn' \in BOOLEAN
      PROVE  /\ DiskInv' /\ stored' \in Events /\ Len(stored) <= Len(stored')
             /\ \A i \in 1..Len(stored) : stored'[i] = stored[i]
             /\ \A x \in Handles :
                    Foreign(x, stored) /\ Foreign(x, e)
                        => Foreign(x, stored') /\ Foreign(x, salvage')
    <2>1. Continued(stored, b, stored')
        BY <1>1, <1>4, Grown
    <2>2. /\ stored' \in Events /\ Len(stored) <= Len(stored') /\ Len(stored') \in Nat
          /\ \A i \in 1..Len(stored) : stored'[i] = stored[i]
          /\ \A i \in 1..Len(b) : stored'[Len(stored) + i] = b[i]
          /\ \A i \in 1..Len(stored') : i \in 1..Len(stored) \/ \E j \in 1..Len(b) : i = Len(stored) + j
        BY <2>1 DEF Continued
    <2>3. ASSUME NEW i \in 1..Len(stored')
          PROVE  stored'[i].seq = i
        <3>1. CASE i \in 1..Len(stored)
            BY <1>2, <2>2, <3>1
        <3>2. ASSUME NEW j \in 1..Len(b), i = Len(stored) + j
              PROVE  stored'[i].seq = i
            <4>1. stored'[i] = e[j] /\ j \in 1..Len(e)
                BY <1>4, <2>2, <3>2
            <4> QED BY <3>2, <4>1
        <3> QED BY <2>2, <3>1, <3>2
    <2>4. DiskInv'
        <3>1. /\ \A i \in 1..Len(promised) : i \in 1..Len(stored)
              /\ Len(promised) <= Len(stored')
            BY <1>1, <1>2, <2>2
        <3>2. \A i \in 1..Len(promised') : promised'[i] = stored'[i]
            BY <1>2, <2>2, <3>1
        <3>3. \A i \in 1..Len(salvage') : salvage'[i].seq = Len(stored') + i
            BY <1>3, <1>4
        <3> QED BY <1>3, <1>4, <2>3, <3>1, <3>2, <3>3 DEF DiskInv
    <2>5. ASSUME NEW x \in Handles, Foreign(x, stored), Foreign(x, e)
          PROVE  Foreign(x, stored') /\ Foreign(x, salvage')
        <3>1. Foreign(x, salvage')
            BY <1>3, <1>4 DEF Foreign
        <3>2. ASSUME NEW i \in 1..Len(stored')
              PROVE  stored'[i].by # x
            <4>1. CASE i \in 1..Len(stored)
                BY <2>2, <2>5, <4>1 DEF Foreign
            <4>2. ASSUME NEW j \in 1..Len(b), i = Len(stored) + j
                  PROVE  stored'[i].by # x
                BY <1>4, <2>2, <2>5, <4>2 DEF Foreign
            <4> QED BY <2>2, <4>1, <4>2
        <3> QED BY <3>1, <3>2 DEF Foreign
    <2> QED BY <2>2, <2>4, <2>5
<1>5. CASE stored' = stored \o e /\ UNCHANGED <<torn, salvage>>
    BY <1>1, <1>3, <1>4, <1>5
<1>6. ASSUME NEW n \in 0..Len(e), torn' = TRUE,
             \/ salvage' = SubSeq(e, 1, n) /\ UNCHANGED stored
             \/ n < Len(e) /\ UNCHANGED salvage /\ stored' = stored \o SubSeq(e, 1, n)
      PROVE  /\ DiskInv'
             /\ stored' \in Events /\ salvage' \in Events /\ torn' \in BOOLEAN
             /\ Len(stored) <= Len(stored')
             /\ \A i \in 1..Len(stored) : stored'[i] = stored[i]
             /\ \A x \in Handles :
                    Foreign(x, stored) /\ Foreign(x, e)
                        => Foreign(x, stored') /\ Foreign(x, salvage')
    <2> DEFINE b == SubSeq(e, 1, n)
    <2>1. /\ b \in Events /\ Len(b) = n
          /\ \A i \in 1..n : b[i] = e[i] /\ i \in 1..Len(e)
        BY Cut
    <2>2. \/ salvage' = b /\ UNCHANGED stored
          \/ UNCHANGED salvage /\ stored' = stored \o b
        BY <1>6
    <2> HIDE DEF b
    <2>3. CASE salvage' = b /\ stored' = stored
        <3>1. \A i \in 1..Len(salvage') : salvage'[i].seq = Len(stored') + i
            BY <2>1, <2>3
        <3>2. DiskInv'
            <4>1. \A i \in 1..Len(stored') : stored'[i].seq = i
                BY <1>2, <2>3
            <4>2. /\ Len(promised') <= Len(stored')
                  /\ \A i \in 1..Len(promised') : promised'[i] = stored'[i]
                BY <1>2, <2>3
            <4>3. exists' = TRUE /\ torn' = TRUE
                BY <1>6
            <4>4. (~exists => stored = <<>> /\ salvage = <<>> /\ promised = <<>> /\ ~torn)'
                BY <4>3
            <4>5. (salvage # <<>> => torn)'
                BY <4>3
            <4> QED BY <3>1, <4>1, <4>2, <4>4, <4>5 DEF DiskInv
        <3>3. \A x \in Handles : Foreign(x, e) => Foreign(x, salvage')
            BY <2>1, <2>3 DEF Foreign
        <3> QED BY <1>1, <1>6, <2>1, <2>3, <3>2, <3>3
    <2>4. CASE salvage' = salvage /\ stored' = stored \o b
        <3>1. Len(b) \in Nat /\ \A i \in 1..Len(b) : i \in 1..Len(e) /\ b[i] = e[i]
            <4>1. n \in Nat
                BY <1>1
            <4> QED BY <2>1, <4>1
        <3> QED BY <1>3, <1>4, <1>6, <2>1, <2>4, <3>1
    <2> QED BY <2>2, <2>3, <2>4
<1> QED BY <1>1, <1>3, <1>5, <1>6 DEF TornAppend

(* What the crash of a process leaves of the write that its handle h had begun. *)
Interrupted(h) ==
    LET r == handle[h] IN
    \/ r.stage = "truncate" /\ torn' = FALSE /\ salvage' = <<>> /\ UNCHANGED <<exists, stored>>
    \/ r.stage = "rewrite" /\ TornAppend(r.salvage) /\ UNCHANGED exists
    \/ r.stage = "write" /\ r.materialized /\ TornAppend(r.batch) /\ UNCHANGED exists
    \/ /\ r.stage = "write" /\ ~r.materialized /\ ~exists
       /\ exists' = TRUE /\ stored' = r.batch /\ UNCHANGED <<torn, salvage>>

(* The file after it: nothing complete is lost, and what is new comes from a log
   or a batch of h. *)
Survives(h) ==
    /\ DiskInv'
    /\ stored' \in Events /\ salvage' \in Events /\ torn' \in BOOLEAN /\ exists' \in BOOLEAN
    /\ (exists => exists') /\ Len(stored) <= Len(stored')
    /\ \A i \in 1..Len(stored) : stored'[i] = stored[i]
    /\ \A x \in Handles \ {h} :
          Foreign(x, stored) /\ Foreign(x, salvage) /\ Foreign(x, handle[h].log)
              => Foreign(x, stored') /\ Foreign(x, salvage')

(* A crash in the middle of a write. *)
LEMMA InterruptedKeeps ==
    ASSUME TypeOK, KeptInv, NEW h \in Handles, Interrupted(h), UNCHANGED promised
    PROVE  Survives(h) /\ lock = h
<1> DEFINE r == handle[h]
<1>1. r \in HandleState /\ LocalInv(h, r) /\ DiskInv /\ r = handle[h]
    BY Present
<1>2. r.stage \in {"truncate", "rewrite", "write"}
    BY DEF Interrupted
<1>3. /\ lock = h
      /\ Len(stored) \in Nat /\ Len(r.salvage) \in Nat /\ Len(r.log) \in Nat
      /\ r.materialized =>
            /\ exists /\ r.cursor = Len(stored) + Len(r.salvage)
            /\ \A i \in 1..Len(stored) : stored[i] = r.log[i]
            /\ \A i \in 1..Len(r.salvage) : r.salvage[i] = r.log[Len(stored) + i]
            /\ r.torn => r.tornAt = Len(stored)
            /\ salvage # <<>> => r.torn /\ salvage = r.salvage
    BY <1>2, Holder
<1>4. /\ r.salvage \in Events /\ r.batch \in Events /\ Len(r.batch) \in Nat
      /\ r.cursor <= Len(r.log)
    BY <1>1, Fields, Reached
<1>5. /\ stored \in Events /\ salvage \in Events /\ torn \in BOOLEAN /\ exists \in BOOLEAN
    BY DEF TypeOK, Events
<1>6. \A i \in 1..Len(r.log) : r.log[i].seq = i
    BY <1>1 DEF LocalInv, Recorded, Story
<1>7. \A i \in 1..Len(r.batch) : r.batch[i].seq = r.cursor + i /\ r.batch[i].by = h
    BY <1>1 DEF LocalInv, Recorded, Batched
<1>8. \/ r.stage = "truncate" /\ torn' = FALSE /\ salvage' = <<>> /\ UNCHANGED <<exists, stored>>
      \/ r.stage = "rewrite" /\ TornAppend(r.salvage) /\ UNCHANGED exists
      \/ r.stage = "write" /\ r.materialized /\ TornAppend(r.batch) /\ UNCHANGED exists
      \/ /\ r.stage = "write" /\ ~r.materialized /\ ~exists
         /\ exists' = TRUE /\ stored' = r.batch /\ UNCHANGED <<torn, salvage>>
    BY DEF Interrupted
<1> HIDE DEF r
<1>9. CASE r.stage = "truncate" /\ torn' = FALSE /\ salvage' = <<>> /\ UNCHANGED <<exists, stored>>
    <2>1. DiskInv'
        <3>1. \A i \in 1..Len(salvage') : salvage'[i].seq = Len(stored') + i
            BY <1>9, NoEvents
        <3> QED BY <1>1, <1>9, <3>1 DEF DiskInv
    <2>2. \A x \in Handles : Foreign(x, salvage')
        BY <1>9, NoEvents DEF Foreign
    <2>3. stored' = stored /\ exists' = exists /\ torn' \in BOOLEAN /\ salvage' \in Events
        BY <1>9, NoEvents
    <2>4. Len(stored) <= Len(stored')
        BY <1>3, <2>3
    <2> QED BY <1>3, <1>5, <2>1, <2>2, <2>3, <2>4 DEF Survives
<1>10. CASE r.stage = "rewrite" /\ TornAppend(r.salvage) /\ UNCHANGED exists
    <2>1. ~r.torn /\ r.salvage # <<>>
        BY <1>1, <1>10 DEF LocalInv, Primed
    <2>2. r.materialized
        BY <1>1, <2>1 DEF LocalInv, Primed
    <2>3. salvage = <<>> /\ exists = TRUE
        BY <1>3, <1>5, <2>1, <2>2
    <2>4. \A i \in 1..Len(r.salvage) :
                r.salvage[i] = r.log[Len(stored) + i] /\ Len(stored) + i \in 1..Len(r.log)
        BY <1>3, <1>4, <2>2
    <2>5. \A i \in 1..Len(r.salvage) : r.salvage[i].seq = Len(stored) + i
        BY <1>6, <2>4
    <2>6. \A x \in Handles : Foreign(x, r.log) => Foreign(x, r.salvage)
        BY <2>4 DEF Foreign
    <2>7. /\ DiskInv'
          /\ stored' \in Events /\ salvage' \in Events /\ torn' \in BOOLEAN
          /\ Len(stored) <= Len(stored')
          /\ \A i \in 1..Len(stored) : stored'[i] = stored[i]
          /\ \A x \in Handles :
                Foreign(x, stored) /\ Foreign(x, r.salvage)
                    => Foreign(x, stored') /\ Foreign(x, salvage')
        BY <1>1, <1>4, <1>10, <2>3, <2>5, TornAppendKeeps
    <2>8. exists' = exists
        BY <1>10
    <2> QED BY <1>1, <1>3, <1>5, <2>6, <2>7, <2>8 DEF Survives
<1>11. CASE r.stage = "write" /\ r.materialized /\ TornAppend(r.batch) /\ UNCHANGED exists
    <2>1. ~r.torn /\ r.salvage = <<>>
        BY <1>1, <1>11, Writing
    <2>2. salvage = <<>> /\ exists = TRUE /\ r.cursor = Len(stored)
        BY <1>3, <1>5, <1>11, <2>1, NoEvents
    <2>3. \A i \in 1..Len(r.batch) : r.batch[i].seq = Len(stored) + i
        BY <1>7, <2>2
    <2>4. \A x \in Handles \ {h} : Foreign(x, r.batch)
        BY <1>7 DEF Foreign
    <2>5. /\ DiskInv'
          /\ stored' \in Events /\ salvage' \in Events /\ torn' \in BOOLEAN
          /\ Len(stored) <= Len(stored')
          /\ \A i \in 1..Len(stored) : stored'[i] = stored[i]
          /\ \A x \in Handles :
                Foreign(x, stored) /\ Foreign(x, r.batch)
                    => Foreign(x, stored') /\ Foreign(x, salvage')
        BY <1>1, <1>4, <1>11, <2>2, <2>3, TornAppendKeeps
    <2>6. exists' = exists
        BY <1>11
    <2> QED BY <1>3, <1>5, <2>4, <2>5, <2>6 DEF Survives
<1>12. CASE /\ r.stage = "write" /\ ~r.materialized /\ ~exists
            /\ exists' = TRUE /\ stored' = r.batch /\ UNCHANGED <<torn, salvage>>
    <2>1. r.cursor = 0
        BY <1>1, <1>12 DEF LocalInv, Primed
    <2>2. stored = <<>> /\ salvage = <<>> /\ promised = <<>> /\ ~torn
        BY <1>1, <1>12 DEF DiskInv
    <2>3. \A i \in 1..Len(r.batch) : r.batch[i].seq = i
        BY <1>7, <2>1
    <2>4. DiskInv'
        <3>1. \A i \in 1..Len(stored') : stored'[i].seq = i
            BY <1>12, <2>3
        <3>2. \A i \in 1..Len(salvage') : salvage'[i].seq = Len(stored') + i
            BY <1>12, <2>2, NoEvents
        <3>3. /\ Len(promised') <= Len(stored')
              /\ \A i \in 1..Len(promised') : promised'[i] = stored'[i]
            BY <1>4, <1>12, <2>2, NoEvents
        <3>4. salvage' = <<>> /\ exists' = TRUE
            BY <1>12, <2>2
        <3> QED BY <3>1, <3>2, <3>3, <3>4 DEF DiskInv
    <2>5. \A x \in Handles \ {h} : Foreign(x, stored') /\ Foreign(x, salvage')
        BY <1>7, <1>12, <2>2, NoEvents DEF Foreign
    <2>6. Len(stored) <= Len(stored') /\ \A i \in 1..Len(stored) : stored'[i] = stored[i]
        BY <1>4, <1>12, <2>2, NoEvents
    <2>7. /\ stored' \in Events /\ salvage' \in Events /\ torn' \in BOOLEAN
          /\ exists' \in BOOLEAN /\ (exists => exists')
        BY <1>4, <1>5, <1>12
    <2> QED BY <1>3, <2>4, <2>5, <2>6, <2>7 DEF Survives
<1> QED BY <1>8, <1>9, <1>10, <1>11, <1>12

(* A process dies: its handles are gone, its lock is free, and what its write
   left is a file another life can open. *)
LEMMA CrashKept ==
    ASSUME TypeOK, KeptInv, NEW p \in Processes, Crash(p)
    PROVE  /\ TypeOK' /\ KeptInv'
           /\ Len(stored) <= Len(stored') /\ \A i \in 1..Len(stored) : stored'[i] = stored[i]
<1> DEFINE lives == {h \in Handles : Home[h] = p /\ handle[h].phase \notin {"unborn", "dead"}}
           d == [Fresh EXCEPT !.phase = "dead"]
<1>1. /\ handle' = [h \in Handles |-> IF h \in lives THEN d ELSE handle[h]]
      /\ lock' = IF lock \in lives THEN NoHandle ELSE lock
      /\ claim' = [claim EXCEPT ![p] = NoHandle]
      /\ UNCHANGED <<promised, faults>>
    BY DEF Crash
<1>2. UNCHANGED disk \/ \E h \in lives : Interrupted(h)
    <2>1. ASSUME NEW h \in lives, handle[h].stage \in {"truncate", "rewrite", "write"},
                 CASE handle[h].stage = "truncate" ->
                        torn' = FALSE /\ salvage' = <<>> /\ UNCHANGED <<exists, stored>>
                   [] handle[h].stage = "rewrite" ->
                        TornAppend(handle[h].salvage) /\ UNCHANGED exists
                   [] handle[h].stage = "write" /\ handle[h].materialized ->
                        TornAppend(handle[h].batch) /\ UNCHANGED exists
                   [] OTHER -> ~exists /\ exists' = TRUE /\ stored' = handle[h].batch
                               /\ UNCHANGED <<torn, salvage>>
          PROVE  Interrupted(h)
        <3>1. CASE handle[h].stage = "truncate"
            BY <2>1, <3>1 DEF Interrupted
        <3>2. CASE handle[h].stage = "rewrite"
            BY <2>1, <3>2 DEF Interrupted
        <3>3. CASE handle[h].stage = "write" /\ handle[h].materialized
            BY <2>1, <3>3 DEF Interrupted
        <3>4. CASE handle[h].stage = "write" /\ ~handle[h].materialized
            BY <2>1, <3>4 DEF Interrupted
        <3> QED BY <2>1, <3>1, <3>2, <3>3, <3>4
    <2> QED BY <2>1 DEF Crash
<1>3. \A h \in lives : h \in Handles
    OBVIOUS
<1> HIDE DEF lives
<1>4. \A h \in Handles : /\ LocalInv(h, d) /\ d \in HandleState
                         /\ d.phase = "dead" /\ d.log = <<>> /\ d.salvage = <<>>
                         /\ ~d.materialized /\ ~d.lease
    BY FreshKeeps
<1> HIDE DEF d
<1>5. /\ handle' \in [Handles -> HandleState]
      /\ \A h \in Handles : IF h \in lives THEN handle'[h] = d ELSE handle'[h] = handle[h]
    BY <1>1, <1>4 DEF TypeOK
<1>6. \/ disk' = disk
      \/ lock \in lives /\ Survives(lock)
    BY <1>1, <1>2, <1>3, InterruptedKeeps
<1>7. /\ DiskInv'
      /\ stored' \in Events /\ salvage' \in Events /\ torn' \in BOOLEAN /\ exists' \in BOOLEAN
      /\ (exists => exists') /\ Len(stored) <= Len(stored')
      /\ \A i \in 1..Len(stored) : stored'[i] = stored[i]
    <2>1. CASE disk' = disk
        <3>1. stored' = stored /\ salvage' = salvage /\ torn' = torn /\ exists' = exists
              /\ promised' = promised
            BY <1>1, <2>1 DEF disk
        <3>2. DiskInv
            BY DEF KeptInv
        <3>3. DiskInv'
            BY <3>1, <3>2 DEF DiskInv
        <3>4. stored \in Events /\ salvage \in Events /\ torn \in BOOLEAN /\ exists \in BOOLEAN
              /\ Len(stored) \in Nat
            BY DEF TypeOK, Events
        <3>5. Len(stored) <= Len(stored')
            BY <3>1, <3>4
        <3> QED BY <3>1, <3>3, <3>4, <3>5
    <2>2. CASE Survives(lock)
        BY <2>2 DEF Survives
    <2> QED BY <1>6, <2>1, <2>2
<1>8. TypeOK'
    <2>1. stored' \in Seq(Event) /\ salvage' \in Seq(Event)
        BY <1>7 DEF Events
    <2>2. lock' \in Handles \cup {NoHandle}
        BY <1>1 DEF TypeOK
    <2>3. claim' \in [Processes -> Handles \cup {NoHandle}]
        BY <1>1 DEF TypeOK
    <2>4. promised' \in Seq(Event) /\ faults' \in 0..MaxFaults
        BY <1>1 DEF TypeOK
    <2> QED BY <1>5, <1>7, <2>1, <2>2, <2>3, <2>4 DEF TypeOK
<1>9. ASSUME NEW g \in lives
      PROVE  /\ LocalInv(g, handle'[g])
             /\ Owned(g, handle[g])' /\ Unheard(g, handle[g])' /\ Covered(g, handle[g])'
    <2>1. handle'[g] = d /\ g \in Handles
        BY <1>3, <1>5
    <2>2. lock' # g
        BY <1>1, <2>1, HandlesAssumption
    <2>3. Owned(g, handle[g])'
        BY <1>4, <2>1, <2>2 DEF Owned
    <2>4. Unheard(g, handle[g])'
        BY <1>4, <2>1, NoEvents DEF Unheard, Foreign
    <2>5. Covered(g, handle[g])'
        BY <1>4, <2>1 DEF Covered, Left
    <2> QED BY <1>4, <2>1, <2>3, <2>4, <2>5
<1>10. ASSUME NEW g \in Handles, g \notin lives
       PROVE  /\ LocalInv(g, handle'[g])
              /\ Owned(g, handle[g])' /\ Unheard(g, handle[g])' /\ Covered(g, handle[g])'
    <2>1. handle'[g] = handle[g]
        BY <1>5, <1>10
    <2>2. lock' = g <=> lock = g
        BY <1>1, <1>10, HandlesAssumption
    <2>3. /\ LocalInv(g, handle[g]) /\ Owned(g, handle[g]) /\ Unheard(g, handle[g])
          /\ Covered(g, handle[g])
        BY DEF KeptInv
    <2>4. Owned(g, handle[g])'
        <3>1. CASE lock' = g
            <4>1. disk' = disk
                BY <1>6, <1>10, <2>2, <3>1
            <4>2. stored' = stored /\ salvage' = salvage /\ exists' = exists
                BY <4>1 DEF disk
            <4> QED BY <2>1, <2>2, <2>3, <3>1, <4>2 DEF Owned
        <3>2. CASE lock' # g
            BY <1>7, <2>1, <2>2, <2>3, <3>2 DEF Owned
        <3> QED BY <3>1, <3>2
    <2>5. Unheard(g, handle[g])'
        <3> SUFFICES ASSUME handle[g].phase \in {"unborn", "claimed", "locked"}
                     PROVE  /\ Foreign(g, stored') /\ Foreign(g, salvage')
                            /\ \A x \in Handles : Foreign(g, handle'[x].log)
            BY <2>1, <2>3 DEF Unheard
        <3>1. /\ Foreign(g, stored) /\ Foreign(g, salvage)
              /\ \A x \in Handles : Foreign(g, handle[x].log)
            BY <2>3 DEF Unheard
        <3>2. Foreign(g, stored') /\ Foreign(g, salvage')
            <4>1. CASE disk' = disk
                BY <3>1, <4>1 DEF disk
            <4>2. CASE lock \in lives /\ Survives(lock)
                <5>1. lock \in Handles /\ g \in Handles \ {lock}
                    BY <1>3, <1>10, <4>2
                <5> QED BY <3>1, <4>2, <5>1 DEF Survives
            <4> QED BY <1>6, <4>1, <4>2
        <3>3. Foreign(g, d.log)
            BY <1>4, NoEvents DEF Foreign
        <3>4. ASSUME NEW x \in Handles
              PROVE  Foreign(g, handle'[x].log)
            BY <1>5, <3>1, <3>3
        <3> QED BY <3>2, <3>4
    <2>6. Covered(g, handle[g])'
        <3>1. Len(stored) \in Nat /\ Len(stored') \in Nat
            BY <1>7, NoEvents DEF TypeOK
        <3> QED BY <1>7, <2>1, <2>3, <3>1 DEF Covered
    <2> QED BY <2>1, <2>3, <2>4, <2>5, <2>6
<1>11. KeptInv'
    BY <1>7, <1>9, <1>10 DEF KeptInv
<1> QED BY <1>7, <1>8, <1>11

-----------------------------------------------------------------------------
(* The invariant, and what it says *)

(* Nothing is stored and nobody has begun. *)
LEMMA InitKept == Init => TypeOK /\ KeptInv
<1> SUFFICES ASSUME Init PROVE TypeOK /\ KeptInv
    OBVIOUS
<1>1. /\ handle = [h \in Handles |-> Fresh] /\ exists = FALSE /\ stored = <<>> /\ torn = FALSE
      /\ salvage = <<>> /\ lock = NoHandle /\ claim = [p \in Processes |-> NoHandle]
      /\ promised = <<>> /\ faults = 0
    BY DEF Init
<1>2. Fresh = [Fresh EXCEPT !.phase = "unborn"]
    BY DEF Fresh
<1>3. \A h \in Handles :
            /\ LocalInv(h, Fresh) /\ Fresh \in HandleState
            /\ Fresh.phase = "unborn" /\ Fresh.log = <<>> /\ Fresh.salvage = <<>>
            /\ ~Fresh.materialized /\ ~Fresh.lease
    <2> TAKE h \in Handles
    <2> DEFINE s == [Fresh EXCEPT !.phase = "unborn"]
    <2>1. /\ LocalInv(h, s) /\ s \in HandleState
          /\ s.phase = "unborn" /\ s.log = <<>> /\ s.salvage = <<>>
          /\ ~s.materialized /\ ~s.lease
        BY FreshKeeps
    <2>2. Fresh = s
        BY <1>2
    <2> HIDE DEF s
    <2> QED BY <2>1, <2>2
<1>4. TypeOK
    <2>1. <<>> \in Seq(Event)
        OBVIOUS
    <2>2. faults \in 0..MaxFaults
        BY <1>1, HandlesAssumption
    <2> QED BY <1>1, <1>3, <2>1, <2>2 DEF TypeOK
<1>5. DiskInv
    BY <1>1, NoEvents DEF DiskInv
<1>6. ASSUME NEW h \in Handles
      PROVE  /\ LocalInv(h, handle[h])
             /\ Owned(h, handle[h]) /\ Unheard(h, handle[h]) /\ Covered(h, handle[h])
    <2>1. handle[h] = Fresh /\ \A x \in Handles : handle[x] = Fresh
        BY <1>1
    <2>2. lock # h
        BY <1>1, HandlesAssumption
    <2>3. Owned(h, handle[h])
        BY <1>3, <2>1, <2>2 DEF Owned
    <2>4. \A x \in Handles : Foreign(x, <<>>)
        BY NoEvents DEF Foreign
    <2>5. Unheard(h, handle[h])
        BY <1>1, <1>3, <2>1, <2>4 DEF Unheard
    <2>6. Covered(h, handle[h])
        BY <1>3, <2>1 DEF Covered, Left
    <2> QED BY <1>3, <2>1, <2>3, <2>5, <2>6
<1> QED BY <1>4, <1>5, <1>6 DEF KeptInv

(* Every operation of a handle, every failure and every crash keeps it. *)
LEMMA NextKept ==
    ASSUME ~LateWork, TypeOK, KeptInv, [Next]_vars
    PROVE  TypeOK' /\ KeptInv'
<1>1. ASSUME NEW h \in Handles,
             \/ Create(h) \/ ClaimWrite(h) \/ Lock(h) \/ Adopt(h) \/ OpenRefused(h)
             \/ AppendSuffix(h) \/ Enter(h)
      PROVE  TypeOK' /\ KeptInv'
    BY <1>1, CreateKept, ClaimWriteKept, LockKept, AdoptKept, OpenRefusedKept,
       AppendSuffixKept, EnterKept
<1>2. ASSUME NEW h \in Handles,
             \/ Publish(h) \/ Fire(h) \/ Flush(h) \/ Finally(h) \/ Resume(h)
             \/ Begin(h) \/ TakeLock(h)
      PROVE  TypeOK' /\ KeptInv'
    BY <1>2, PublishKept, FireKept, FlushKept, FinallyKept, ResumeKept, BeginKept, TakeLockKept
<1>3. ASSUME NEW h \in Handles,
             Truncate(h) \/ Rewrite(h) \/ Write(h) \/ WriteFails(h) \/ RepairFails(h)
      PROVE  TypeOK' /\ KeptInv'
    BY <1>3, TruncateKept, RewriteKept, WriteKept, WriteFailsKept, RepairFailsKept
<1>4. ASSUME NEW h \in Handles,
             Close(h) \/ CloseWaits(h) \/ CloseAgain(h) \/ Unlock(h) \/ Release(h)
      PROVE  TypeOK' /\ KeptInv'
    BY <1>4, CloseKept, CloseWaitsKept, CloseAgainKept, UnlockKept, ReleaseKept
<1>5. ASSUME NEW p \in Processes, Crash(p)
      PROVE  TypeOK' /\ KeptInv'
    BY <1>5, CrashKept
<1>6. CASE UNCHANGED vars
    <2>1. /\ UNCHANGED <<handle, exists, stored, torn, salvage>>
          /\ UNCHANGED <<lock, claim, promised, faults>>
        BY <1>6 DEF vars
    <2>2. TypeOK'
        BY <2>1 DEF TypeOK
    <2>3. DiskInv'
        BY <2>1 DEF KeptInv, DiskInv
    <2>4. ASSUME NEW h \in Handles
          PROVE  /\ LocalInv(h, handle[h])' /\ Owned(h, handle[h])'
                 /\ Unheard(h, handle[h])' /\ Covered(h, handle[h])'
        <3>1. /\ LocalInv(h, handle[h]) /\ Owned(h, handle[h]) /\ Unheard(h, handle[h])
              /\ Covered(h, handle[h])
            BY DEF KeptInv
        <3>2. LocalInv(h, handle[h])'
            BY <2>1, <3>1
        <3>3. Owned(h, handle[h])'
            BY <2>1, <3>1 DEF Owned
        <3>4. Unheard(h, handle[h])' /\ Covered(h, handle[h])'
            BY <2>1, <3>1 DEF Unheard, Covered
        <3> QED BY <3>2, <3>3, <3>4
    <2> QED BY <2>2, <2>3, <2>4 DEF KeptInv
<1> QED BY <1>1, <1>2, <1>3, <1>4, <1>5, <1>6 DEF Next

(* What is promised, or was in the file, is a prefix of what is there. *)
LEMMA Prefix ==
    ASSUME NEW a \in Seq(Event), NEW b \in Seq(Event), Len(a) <= Len(b),
           \A i \in 1..Len(a) : b[i] = a[i]
    PROVE  IsPrefix(a, b)
<1>1. Len(a) \in Nat /\ Len(b) \in Nat
    OBVIOUS
<1>2. SubSeq(a, 1, Len(a)) = a
    OBVIOUS
<1>3. SubSeq(b, 1, Len(a)) \in Seq(Event) /\ Len(SubSeq(b, 1, Len(a))) = Len(a)
      /\ \A i \in 1..Len(a) : SubSeq(b, 1, Len(a))[i] = b[i]
    BY <1>1
<1>4. SubSeq(b, 1, Len(a)) = a
    BY <1>3, SeqEqual
<1> QED BY <1>2, <1>4 DEF IsPrefix

(* A log that is what is stored of it, what a drain has taken, and what waits. *)
Whole(log, n, b, c) == log = SubSeq(log, 1, n) \o b \o c

(* Story in one piece. *)
LEMMA StoryWhole ==
    ASSUME NEW h, NEW log \in Events, NEW n \in Nat, NEW b \in Events, NEW c \in Events,
           Story(h, log, n, b, c)
    PROVE  Whole(log, n, b, c)
<1>1. /\ Len(b) \in Nat /\ Len(c) \in Nat /\ Len(log) \in Nat
      /\ Len(log) = n + Len(b) + Len(c)
      /\ \A i \in 1..Len(b) : b[i] = log[n + i]
      /\ \A i \in 1..Len(c) : c[i] = log[n + Len(b) + i]
    BY NoEvents DEF Story
<1> DEFINE a == SubSeq(log, 1, n)
           x == a \o b
           y == x \o c
<1>2. n \in 0..Len(log)
    BY <1>1
<1>3. a \in Events /\ Len(a) = n /\ \A i \in 1..n : a[i] = log[i]
    BY <1>2, Cut
<1> HIDE DEF a
<1>4. Continued(a, b, x)
    BY <1>3, Grown
<1>5. x \in Events /\ Len(x) = n + Len(b)
    BY <1>3, <1>4 DEF Continued
<1>6. \A i \in 1..Len(x) : x[i] = log[i]
    <2>1. \A i \in 1..Len(a) : x[i] = log[i]
        BY <1>3, <1>4 DEF Continued
    <2>2. \A i \in 1..Len(b) : x[Len(a) + i] = log[Len(a) + i]
        BY <1>1, <1>3, <1>4 DEF Continued
    <2> QED BY <1>4, <2>1, <2>2, Zenon DEF Continued
<1> HIDE DEF x
<1>7. Continued(x, c, y)
    BY <1>5, Grown
<1>8. y \in Events /\ Len(y) = Len(log)
    BY <1>1, <1>5, <1>7 DEF Continued
<1>9. \A i \in 1..Len(y) : y[i] = log[i]
    <2>1. \A i \in 1..Len(x) : y[i] = log[i]
        BY <1>6, <1>7 DEF Continued
    <2>2. \A i \in 1..Len(c) : y[Len(x) + i] = log[Len(x) + i]
        BY <1>1, <1>5, <1>7 DEF Continued
    <2> QED BY <1>7, <2>1, <2>2, Zenon DEF Continued
<1> HIDE DEF y
<1>10. y = log
    BY <1>8, <1>9, SeqEqual DEF Events
<1> QED BY <1>10 DEF x, y, a, Whole

(* The owner's log begins with the file and what it still has to write again. *)
LEMMA Known ==
    ASSUME NEW a \in Events, NEW b \in Events, NEW log \in Events,
           NEW n \in Nat, n = Len(a) + Len(b), n <= Len(log),
           \A i \in 1..Len(a) : a[i] = log[i],
           \A i \in 1..Len(b) : b[i] = log[Len(a) + i]
    PROVE  SubSeq(log, 1, n) = a \o b
<1> DEFINE x == a \o b
           k == SubSeq(log, 1, n)
<1>1. Len(log) \in Nat /\ n \in 0..Len(log)
    BY NoEvents
<1>2. k \in Events /\ Len(k) = n /\ \A i \in 1..n : k[i] = log[i]
    BY <1>1, Cut
<1>3. Continued(a, b, x)
    BY Grown
<1> HIDE DEF x, k
<1>4. \A i \in 1..Len(x) : x[i] = log[i]
    <2>1. \A i \in 1..Len(a) : x[i] = log[i]
        BY <1>3 DEF Continued
    <2>2. \A i \in 1..Len(b) : x[Len(a) + i] = log[Len(a) + i]
        BY <1>3 DEF Continued
    <2> QED BY <1>3, <2>1, <2>2, Zenon DEF Continued
<1>5. x \in Events /\ Len(x) = n
    BY <1>3 DEF Continued
<1>6. k = x
    BY <1>2, <1>4, <1>5, SeqEqual DEF Events
<1> QED BY <1>6 DEF k, x

(* The invariant gives every part of FileKept... *)
LEMMA KeptFile ==
    ASSUME TypeOK, KeptInv
    PROVE  FileKept
<1>1. /\ stored \in Events /\ salvage \in Events /\ Len(stored) \in Nat
      /\ stored \in Seq(Event) /\ promised \in Seq(Event)
    BY DEF TypeOK, Events
<1>2. /\ \A i \in 1..Len(stored) : stored[i].seq = i
      /\ \A i \in 1..Len(salvage) : salvage[i].seq = Len(stored) + i
      /\ Len(promised) <= Len(stored)
      /\ \A i \in 1..Len(promised) : promised[i] = stored[i]
    BY DEF KeptInv, DiskInv
<1>3. Ordered
    <2> DEFINE x == stored \o salvage
    <2>1. Continued(stored, salvage, x)
        BY <1>1, Grown
    <2> HIDE DEF x
    <2>2. \A i \in 1..Len(stored) : x[i].seq = i
        BY <1>2, <2>1 DEF Continued
    <2>3. \A i \in 1..Len(salvage) : x[Len(stored) + i].seq = Len(stored) + i
        BY <1>2, <2>1 DEF Continued
    <2>4. \A i \in 1..Len(x) : x[i].seq = i
        BY <2>1, <2>2, <2>3, Zenon DEF Continued
    <2> QED BY <2>4 DEF Ordered, Contiguous, x
<1>4. Acknowledged
    BY <1>1, <1>2, Prefix DEF Acknowledged
<1>5. CloseCovers
    BY DEF CloseCovers, KeptInv, Covered, Left
<1>6. LockHeld
    BY Holder DEF LockHeld
<1>7. ASSUME NEW h \in Handles
      PROVE  LET r == handle[h] IN
             /\ r.log = SubSeq(r.log, 1, r.cursor) \o Drained(r) \o r.buffered
             /\ lock = h /\ r.materialized =>
                    SubSeq(r.log, 1, r.cursor) = stored \o r.salvage
    <2> DEFINE r == handle[h]
    <2>1. r \in HandleState /\ LocalInv(h, r) /\ Owned(h, r)
        BY Present
    <2> HIDE DEF r
    <2>2. /\ r.log \in Events /\ r.buffered \in Events /\ r.batch \in Events
          /\ r.salvage \in Events /\ r.cursor \in Nat /\ r.cursor <= Len(r.log)
        BY <2>1, Fields, Reached
    <2>3. Drained(r) \in Events
        BY <2>2, NoEvents DEF Drained
    <2>4. r.log = SubSeq(r.log, 1, r.cursor) \o Drained(r) \o r.buffered
        <3>1. Story(h, r.log, r.cursor, Drained(r), r.buffered)
            BY <2>1 DEF LocalInv, Recorded
        <3>2. Whole(r.log, r.cursor, Drained(r), r.buffered)
            BY <2>2, <2>3, <3>1, StoryWhole
        <3> QED BY <3>2 DEF Whole
    <2>5. ASSUME lock = h, r.materialized
          PROVE  SubSeq(r.log, 1, r.cursor) = stored \o r.salvage
        <3>1. /\ r.cursor = Len(stored) + Len(r.salvage)
              /\ \A i \in 1..Len(stored) : stored[i] = r.log[i]
              /\ \A i \in 1..Len(r.salvage) : r.salvage[i] = r.log[Len(stored) + i]
            BY <2>1, <2>5 DEF Owned
        <3> QED BY <1>1, <2>2, <3>1, Known
    <2> QED BY <2>4, <2>5 DEF r
<1>8. Custody
    BY <1>7 DEF Custody
<1> QED BY <1>3, <1>4, <1>5, <1>6, <1>8 DEF FileKept

(* ... and of NothingStuck. *)
LEMMA KeptMoving ==
    ASSUME TypeOK, KeptInv
    PROVE  NothingStuck
<1>1. ASSUME NEW h \in Handles
      PROVE  LET r == handle[h]
                 queued(op) == \E i \in 1..Len(r.queue) : r.queue[i] = op IN
             /\ r.entered /\ r.buffered # <<>> => r.timer \/ r.draining = "active" \/ r.paused
             /\ r.paused => r.buffered # <<>>
             /\ r.flush = "drain" \/ r.phase = "closeDrain" => r.draining # "none"
             /\ r.draining = "active" => queued("drain")
             /\ r.flush = "op" => queued("flush")
    <2> DEFINE r == handle[h]
    <2>1. r \in HandleState /\ LocalInv(h, r)
        BY Present
    <2> HIDE DEF r
    <2>2. /\ r.entered /\ r.buffered # <<>> => r.timer \/ r.draining = "active" \/ r.paused
          /\ r.paused => r.buffered # <<>>
        BY <2>1 DEF LocalInv, Gathered
    <2>3. r.flush = "drain" \/ r.phase = "closeDrain" => r.draining # "none"
        BY <2>1 DEF LocalInv, Chained
    <2>4. r.draining = "active" => \E i \in 1..Len(r.queue) : r.queue[i] = "drain"
        <3> SUFFICES ASSUME r.draining = "active"
                     PROVE  \E i \in 1..Len(r.queue) : r.queue[i] = "drain"
            OBVIOUS
        <3>1. CASE r.queue = <<"drain">>
            <4>1. 1 \in 1..Len(r.queue) /\ r.queue[1] = "drain"
                BY <3>1
            <4> QED BY <4>1
        <3>2. CASE r.queue = <<"flush", "drain">>
            <4>1. 2 \in 1..Len(r.queue) /\ r.queue[2] = "drain"
                BY <3>2
            <4> QED BY <4>1
        <3> QED BY <2>1, <3>1, <3>2 DEF LocalInv, Chained
    <2>5. r.flush = "op" => \E i \in 1..Len(r.queue) : r.queue[i] = "flush"
        <3> SUFFICES ASSUME r.flush = "op"
                     PROVE  \E i \in 1..Len(r.queue) : r.queue[i] = "flush"
            OBVIOUS
        <3>1. CASE r.queue = <<"flush">>
            <4>1. 1 \in 1..Len(r.queue) /\ r.queue[1] = "flush"
                BY <3>1
            <4> QED BY <4>1
        <3>2. CASE r.queue = <<"flush", "drain">>
            <4>1. 1 \in 1..Len(r.queue) /\ r.queue[1] = "flush"
                BY <3>2
            <4> QED BY <4>1
        <3> QED BY <2>1, <3>1, <3>2 DEF LocalInv, Chained
    <2> QED BY <2>2, <2>3, <2>4, <2>5 DEF r
<1>2. Buffering
    BY <1>1 DEF Buffering
<1>3. Attended
    BY <1>1 DEF Attended
<1> QED BY <1>2, <1>3 DEF NothingStuck

(* Every step leaves the complete events of the file where they are. *)
LEMMA Grows ==
    ASSUME TypeOK, KeptInv, [Next]_vars
    PROVE  IsPrefix(stored, stored')
<1>1. stored \in Seq(Event) /\ stored \in Events /\ Len(stored) \in Nat
    BY DEF TypeOK, Events
<1>2. ASSUME stored' = stored
      PROVE  IsPrefix(stored, stored')
    BY <1>1, <1>2, Prefix
<1>3. ASSUME NEW b \in Events, stored' = stored \o b
      PROVE  IsPrefix(stored, stored')
    <2>1. Continued(stored, b, stored')
        BY <1>1, <1>3, Grown
    <2> QED BY <1>1, <2>1, Prefix DEF Continued, Events
<1>4. ASSUME NEW h \in Handles,
             \/ Create(h) \/ ClaimWrite(h) \/ Lock(h) \/ Adopt(h) \/ OpenRefused(h)
             \/ AppendSuffix(h) \/ Enter(h)
      PROVE  IsPrefix(stored, stored')
    BY <1>2, <1>4 DEF Create, ClaimWrite, Lock, Adopt, OpenRefused, AppendSuffix, Enter, disk
<1>5. ASSUME NEW h \in Handles,
             \/ Publish(h) \/ Fire(h) \/ Flush(h) \/ Finally(h) \/ Resume(h)
             \/ Begin(h) \/ TakeLock(h) \/ RepairFails(h)
             \/ Close(h) \/ CloseWaits(h) \/ CloseAgain(h) \/ Unlock(h) \/ Release(h)
      PROVE  IsPrefix(stored, stored')
    BY <1>2, <1>5 DEF Publish, Fire, Flush, Finally, Resume, Begin, TakeLock, RepairFails,
                      Close, CloseWaits, CloseAgain, Unlock, Release, disk
<1>6. ASSUME NEW h \in Handles, Truncate(h)
      PROVE  IsPrefix(stored, stored')
    BY <1>2, <1>6, TruncateKept
<1>7. ASSUME NEW h \in Handles, Rewrite(h)
      PROVE  IsPrefix(stored, stored')
    <2>1. stored' = stored \o handle[h].salvage /\ handle[h].salvage \in Events
        BY <1>7, Present, Fields DEF Rewrite
    <2> QED BY <1>3, <2>1
<1>8. ASSUME NEW h \in Handles, Write(h)
      PROVE  IsPrefix(stored, stored')
    <2>1. stored' = stored \o handle[h].batch /\ handle[h].batch \in Events
        BY <1>8, Present, Fields DEF Write
    <2> QED BY <1>3, <2>1
<1>9. ASSUME NEW h \in Handles, WriteFails(h)
      PROVE  IsPrefix(stored, stored')
    <2>1. \/ stored' = stored
          \/ ~exists /\ stored' = handle[h].batch
        BY <1>9 DEF WriteFails
    <2>2. CASE stored' = stored
        BY <1>2, <2>2
    <2>3. CASE ~exists /\ stored' = handle[h].batch
        <3>1. stored = <<>>
            BY <2>3 DEF KeptInv, DiskInv
        <3>2. handle[h].batch \in Events /\ Len(handle[h].batch) \in Nat
            BY Present, Fields
        <3>3. Len(stored) <= Len(stored') /\ \A i \in 1..Len(stored) : stored'[i] = stored[i]
            BY <2>3, <3>1, <3>2, NoEvents
        <3> QED BY <1>1, <2>3, <3>2, <3>3, Prefix DEF Events
    <2> QED BY <2>1, <2>2, <2>3
<1>10. ASSUME NEW p \in Processes, Crash(p)
       PROVE  IsPrefix(stored, stored')
    <2>1. /\ stored' \in Events /\ Len(stored) <= Len(stored')
          /\ \A i \in 1..Len(stored) : stored'[i] = stored[i]
        BY <1>10, CrashKept DEF TypeOK, Events
    <2> QED BY <1>1, <2>1, Prefix DEF Events
<1>11. CASE UNCHANGED vars
    BY <1>2, <1>11 DEF vars
<1> QED BY <1>4, <1>5, <1>6, <1>7, <1>8, <1>9, <1>10, <1>11 DEF Next

-----------------------------------------------------------------------------
(* Where no timer, flush or drain of a handle runs once its close has left its loop
   (~LateWork), every reachable state of the handles, the
   lock and the file satisfies the invariant, for any number of lives, processes,
   events, failures and crashes. *)
THEOREM KeptInvariant ==
    ASSUME ~LateWork
    PROVE  Spec => [](TypeOK /\ KeptInv)
<1>1. Init => TypeOK /\ KeptInv
    BY InitKept
<1>2. TypeOK /\ KeptInv /\ [Next]_vars => TypeOK' /\ KeptInv'
    BY NextKept
<1> QED BY <1>1, <1>2, PTL DEF Spec

(* No buffer, batch or cursor of a handle outgrows the log of its session. *)
THEOREM HandleTypeCorrect ==
    ASSUME ~LateWork
    PROVE  Spec => []TypeOK
<1>1. Spec => [](TypeOK /\ KeptInv)
    BY KeptInvariant
<1> QED BY <1>1, PTL

(* The file always scans, holds what the drain of every resolved flush took and
   what every close that did not reject had to store, is the log of its owner, and
   is written by nobody but the holder of its lock (StorageHandle.drainLive, flush, close, repair;
   SessionLease.acquire and release). *)
THEOREM FileIsKept ==
    ASSUME ~LateWork
    PROVE  Spec => []FileKept
<1>1. Spec => [](TypeOK /\ KeptInv)
    BY KeptInvariant
<1>2. TypeOK /\ KeptInv => FileKept
    BY KeptFile
<1> QED BY <1>1, <1>2, PTL

(* No event stays in the buffer with nothing to move it, and no flush or close
   waits for a drain that is neither in the chain nor about to be cleared, or for
   an operation that is not in the chain. *)
THEOREM NothingIsStuck ==
    ASSUME ~LateWork
    PROVE  Spec => []NothingStuck
<1>1. Spec => [](TypeOK /\ KeptInv)
    BY KeptInvariant
<1>2. TypeOK /\ KeptInv => NothingStuck
    BY KeptMoving
<1> QED BY <1>1, <1>2, PTL

(* No repair, rollback, crash or change of owner rewrites or removes a complete
   event of the file. *)
THEOREM FileOnlyGrows ==
    ASSUME ~LateWork
    PROVE  Spec => AppendOnly
<1>1. Spec => [](TypeOK /\ KeptInv)
    BY KeptInvariant
<1>2. TypeOK /\ KeptInv /\ [Next]_vars => [IsPrefix(stored, stored')]_vars
    BY Grows
<1> QED BY <1>1, <1>2, PTL DEF Spec, AppendOnly
=============================================================================
