--------------------------- MODULE MCJsonlHandle ---------------------------
(* Three lives of one session: h1 creates it, h2 resumes it in the same
   process, h3 in another one. *)
EXTENDS JsonlHandle

CONSTANTS h1, h2, h3, p1, p2

MCHome == [h \in Handles |-> IF h = h3 THEN p2 ELSE p1]
============================================================================
