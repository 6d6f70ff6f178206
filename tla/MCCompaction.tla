---------------------------- MODULE MCCompaction ----------------------------
EXTENDS Compaction

(* A new session, and one that ended a turn with a tool call in it. *)
MCHistories ==
    {<<>>,
     <<Ev("turn/start", ""), Ev("system", "p"), Ev("input", ""), Ev("header", ""),
       Ev("assistant", 1), Ev("result", "full"), Ev("turn/end", "")>>}

MCRenderings ==
    {[prompt |-> "p", context |-> "", inHistory |-> FALSE],
     [prompt |-> "q", context |-> "c", inHistory |-> TRUE]}
=============================================================================
