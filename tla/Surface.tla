------------------------------- MODULE Surface -------------------------------
(***************************************************************************)
(* The model-visible surface of a session: what one committed event does   *)
(* to it (core/session/src/surface.ts), the tool-pairing balance that says *)
(* where it may be cut (compaction/src/tool-pairing.ts), the caches over   *)
(* both, and the decision how a system prompt reaches it                   *)
(* (core/agent-loop/src/runtime-context.ts).  Pure operators: Compaction   *)
(* is the state machine that appends.                                      *)
(*                                                                         *)
(* A sequence number is the event's index in the log, from 1.  An event is *)
(* [t, at, v]: its type, the surface range it replaces (<<>> appends), and *)
(* the part of its payload the properties tell apart.                      *)
(***************************************************************************)
EXTENDS Integers, Sequences, SequencesExt, FiniteSets

(* Types that join the surface; "context" and "checkpoint" are user/message
   events of the runtime context and of compaction. *)
SurfaceType == {"system", "input", "context", "checkpoint", "assistant", "result"}
Ev(t, v) == [t |-> t, at |-> <<>>, v |-> v]
Rewrite(t, v, first, last) == [t |-> t, at |-> <<first, last>>, v |-> v]

NoContext == -1     \* no runtime context was ever logged
LostContext == 0    \* the last one is not on the surface any more

(* A session: its log, the surface folded from it, how often existing content
   changed, what image/offload projected, and the runtime context's node. *)
NewSession == [log |-> <<>>, nodes |-> <<>>, replaces |-> 0, contents |-> 0,
               offloaded |-> {}, context |-> NoContext]

(* Some nodes, in the order in which they stand. *)
Sift(nodes, chosen) ==
    LET sifted[k \in 0..Len(nodes)] ==
            IF k = 0 THEN <<>>
            ELSE IF nodes[k] \in chosen THEN Append(sifted[k - 1], nodes[k]) ELSE sifted[k - 1]
    IN  sifted[Len(nodes)]
OfType(s, t) == {n \in DOMAIN s.log : s.log[n].t = t}

Position(nodes, seq) == SelectInSeq(nodes, LAMBDA n : n = seq)
Span(nodes, at) == SubSeq(nodes, Position(nodes, at[1]), Position(nodes, at[2]))
Shadowed(s, e) == IF e.at = <<>> THEN {} ELSE Range(Span(s.nodes, e.at))

(* What the append boundary accepts: a replacement names a current range, a
   tool result rewrites one tool result, node 0 is the system prompt's. *)
Accepted(s, e) ==
    e.at # <<>> =>
        LET first == Position(s.nodes, e.at[1])
            last == Position(s.nodes, e.at[2])
        IN  /\ 0 < first /\ first <= last
            /\ e.t = "result" => first = last /\ s.log[s.nodes[first]].t = "result"
            /\ (first = 1 /\ s.log[s.nodes[1]].t = "system") => e.t = "system" /\ last = 1

Placed(s, e, seq) ==
    CASE e.t \notin SurfaceType -> s.nodes
      [] e.t \in SurfaceType /\ e.at = <<>> -> Append(s.nodes, seq)
      [] OTHER -> SubSeq(s.nodes, 1, Position(s.nodes, e.at[1]) - 1) \o <<seq>>
                  \o SubSeq(s.nodes, Position(s.nodes, e.at[2]) + 1, Len(s.nodes))

(* Mutant: a replacement that shadows the context goes unnoticed. *)
TrackedOwnOnly(s, e, seq) == IF e.t = "context" THEN seq ELSE s.context

(* RuntimeContextProjection's listener: replacements cite what they shadow. *)
Tracked(s, e, seq) ==
    CASE e.t = "context" -> seq
      [] e.t # "context" /\ s.context \in Shadowed(s, e) -> LostContext
      [] OTHER -> s.context

(* The session after one accepted event. *)
Put(s, e) ==
    LET seq == Len(s.log) + 1
    IN  [log |-> Append(s.log, e),
         nodes |-> Placed(s, e, seq),
         replaces |-> s.replaces + (IF e.at # <<>> THEN 1 ELSE 0),
         contents |-> s.contents + (IF e.at # <<>> \/ e.t = "offload" THEN 1 ELSE 0),
         offloaded |-> s.offloaded \cup (IF e.t = "offload" THEN {e.v} ELSE {}),
         context |-> Tracked(s, e, seq)]
(* (The sets make TLC evaluate each intermediate session and event once.) *)
PutAll(s, es) ==
    LET done[k \in 0..Len(es)] ==
            IF k = 0 THEN s
            ELSE CHOOSE s2 \in {Put(d, e) : d \in {done[k - 1]}, e \in {es[k]}} : TRUE
    IN  done[Len(es)]

(* A restored session folds its log anew and scans it for the newest runtime
   context that is still on the surface. *)
Restore(events) ==
    LET s == PutAll(NewSession, events)
        owned == {i \in DOMAIN events : events[i].t = "context"}
        kept == owned \cap Range(s.nodes)
    IN  [s EXCEPT !.context = IF owned = {} THEN NoContext
                              ELSE IF kept = {} THEN LostContext
                              ELSE CHOOSE i \in kept : \A j \in kept : j <= i]

-----------------------------------------------------------------------------
(* Messages and the derived-message cache of Session. *)

(* What a node tells the model; an empty system node tells nothing. *)
Message(s, seq) ==
    [seq |-> seq, t |-> s.log[seq].t, v |-> s.log[seq].v, offloaded |-> seq \in s.offloaded]
Silent(s, seq) == s.log[seq].t = "system" /\ s.log[seq].v = ""
Audible(s) == {n \in DOMAIN s.log : ~Silent(s, n)}
Messages(s, nodes) ==
    LET heard == Sift(nodes, Audible(s))
    IN  [i \in DOMAIN heard |-> Message(s, heard[i])]

NoDerived == [generation |-> 0, upto |-> 0, messages |-> <<>>]
(* deriveMessages: extend by the unseen nodes, start over when content changed. *)
Derive(cache, s) ==
    LET base == IF cache.generation = s.contents THEN cache ELSE NoDerived
    IN  [generation |-> s.contents, upto |-> Len(s.nodes),
         messages |-> base.messages \o Messages(s, SubSeq(s.nodes, base.upto + 1, Len(s.nodes)))]

-----------------------------------------------------------------------------
(* Tool-pairing balance. *)

(* How a node changes the number of unanswered tool calls. *)
Delta(s, seq) ==
    CASE s.log[seq].t = "assistant" -> s.log[seq].v
      [] s.log[seq].t = "result" -> -1
      [] OTHER -> 0
Unanswered(s, n) ==
    LET sum[k \in 0..n] == IF k = 0 THEN 0 ELSE sum[k - 1] + Delta(s, s.nodes[k])
    IN  sum[n]

NoPairing == [generation |-> -1, seqs |-> <<>>, open |-> 0, balanced |-> <<TRUE>>]
Paired(cache, s, seq) ==
    LET open == cache.open + Delta(s, seq)
    IN  [cache EXCEPT !.seqs = Append(@, seq), !.open = open, !.balanced = Append(@, open = 0)]

(* extendCache: the balance goes on at the first node it has not seen. *)
PairFrom(base, s) ==
    LET seen == Len(base.seqs)
        paired[k \in seen..Len(s.nodes)] ==
            IF k = seen THEN base
            ELSE CHOOSE p \in {Paired(d, s, s.nodes[k]) : d \in {paired[k - 1]}} : TRUE
    IN  paired[Len(s.nodes)]

(* Mutant: a rewritten surface that did not shrink looks like a grown one. *)
PairByLength(cache, s) ==
    LET stale == cache.generation = -1 \/ Len(cache.seqs) > Len(s.nodes)
    IN  PairFrom(IF stale THEN [NoPairing EXCEPT !.generation = s.replaces] ELSE cache, s)

(* balanceCache: fold the unseen tail, start over after a replacement. *)
Pair(cache, s) ==
    LET stale == cache.generation # s.replaces \/ Len(cache.seqs) > Len(s.nodes)
    IN  PairFrom(IF stale THEN [NoPairing EXCEPT !.generation = s.replaces] ELSE cache, s)

BalancedBefore(pairing, seq) == pairing.balanced[Position(pairing.seqs, seq)]
BalancedAfter(pairing, seq) == pairing.balanced[Position(pairing.seqs, seq) + 1]

-----------------------------------------------------------------------------
(* The system prompt's nodes (SystemPromptProjection.project). *)

SystemNodes(s) == Sift(s.nodes, OfType(s, "system"))
Spoken(s) == Sift(SystemNodes(s), Audible(s))

(* The prompt a request carries: the newest system node that says something. *)
EffectivePrompt(s) == IF Spoken(s) = <<>> THEN "" ELSE s.log[Last(Spoken(s))].v

(* The events that make a rendered prompt effective: the first reserves node 0,
   a capable continuing series appends, anything else re-baselines node 0 and
   silences the later nodes. *)
PromptEvents(s, rendered, inHistory, startsSeries) ==
    LET system == SystemNodes(s)
        head == Head(system)
        latest == IF Spoken(s) = <<>> THEN s.log[head].v ELSE EffectivePrompt(s)
        tail == Sift(Tail(system), Audible(s))
        silence == [i \in DOMAIN tail |-> Rewrite("system", "", tail[i], tail[i])]
    IN  CASE system = <<>> -> <<Ev("system", rendered)>>
          [] system # <<>> /\ (~inHistory \/ rendered = "" \/ (startsSeries /\ latest # rendered)) ->
                silence \o (IF s.log[head].v = rendered THEN <<>>
                            ELSE <<Rewrite("system", rendered, head, head)>>)
          [] OTHER -> IF latest = rendered THEN <<>> ELSE <<Ev("system", rendered)>>

(* The runtime context message a request adds (RuntimeContextProjection.project);
   "cleared" takes earlier ones back. *)
ContextEvents(s, current) ==
    LET text == IF current = "" THEN "cleared" ELSE current
    IN  IF (s.context = NoContext /\ current = "") \/ (s.context > 0 /\ s.log[s.context].v = text)
        THEN <<>> ELSE <<Ev("context", text)>>
=============================================================================
