--------------------------- MODULE CompactionProofs ---------------------------
(***************************************************************************)
(* Proofs about Compaction, for every policy, history and rendering.       *)
(*                                                                         *)
(* The inductive invariant Inv has three parts, and one lemma per action   *)
(* says that it keeps them:                                                *)
(*   Base     the session is the fold of its log (Folded), and the three   *)
(*            things kept beside it were true of a first part of a surface *)
(*            from which the session went on (Grown): the message cache    *)
(*            (DerivedFor), the pairing cache (PairedFor) and the content  *)
(*            generation of the last request;                              *)
(*   Lock     the bracket in the log is held exactly by the transaction    *)
(*            that awaits its summary, whose input is what the surface     *)
(*            told when it was measured (Fed);                             *)
(*   Control  the phase of the driver and its transaction go together.     *)
(* Base is kept because every step either appends events (PutAllPlain,     *)
(* OnwardPut, OnwardPruned ...) or restores a log (RestoreFolds); a cache  *)
(* that was filled for a shorter surface is extended by Derive and Pair to *)
(* what a fresh fold of the whole surface computes (DeriveAgrees,          *)
(* PairAgrees).  A commit that finds its span stable replaces what its     *)
(* summary was made from (StableInput).                                    *)
(*                                                                         *)
(* At the end, Talk says of the surface what a provider and a model ask    *)
(* for; every step is a sequence of events that tell the conversation on   *)
(* (Tells, Steady):                                                        *)
(*   Fine     the surface is a conversation, also the one that a crash     *)
(*            would restore from any prefix behind what is durable;        *)
(*   ContextKnown  the runtime context that the session remembers is the   *)
(*            last one on the surface;                                     *)
(*   Cuts     a span that awaits its summary begins and ends where every   *)
(*            call has its result;                                         *)
(*   Mood     calls are open exactly while the batch runs, and a turn is   *)
(*            open while the driver is in one.                             *)
(*                                                                         *)
(* The surface's operators are folds over sequences.  What one of them     *)
(* computes is stated by a function of its partial results (Sifts, Puts,   *)
(* Sums, Pairs); that such a function exists, and that two of them agree,  *)
(* goes by induction over its index on a set of numbers (UpTo), which      *)
(* follows from the least element of a set (Least).                        *)
(***************************************************************************)
EXTENDS Compaction, WellFoundedInduction, FiniteSetTheorems, SequenceTheorems, TLAPS

-----------------------------------------------------------------------------
(* Induction over a number, on a set. *)

(* Every set of numbers that is not empty has a least one. *)
LEMMA Least ==
    ASSUME NEW T \in SUBSET Nat, T # {}
    PROVE  \E m \in T : \A k \in T : m <= k
<1> DEFINE R == OpToRel(<, Nat)
<1>1. IsWellFoundedOn(R, Nat)
    BY NatLessThanWellFounded
<1>2. R = {p \in Nat \X Nat : p[1] < p[2]}
    BY DEF OpToRel
<1> HIDE DEF R
<1>3. PICK m \in T : \A k \in T : <<k, m>> \notin R
    BY <1>1, WFMin
<1>4. \A k \in T : <<k, m>> \in Nat \X Nat OBVIOUS
<1>5. \A k \in T : ~(k < m)
    BY <1>2, <1>3, <1>4
<1> QED BY <1>5

(* What holds at the start and goes on from each number to the next holds up
   to n. *)
LEMMA UpTo ==
    ASSUME NEW m \in Int, NEW n \in Int, m <= n, NEW S \in SUBSET (m..n),
           m \in S, \A k \in m..(n - 1) : k \in S => k + 1 \in S
    PROVE  S = m..n
<1> SUFFICES ASSUME S # m..n PROVE FALSE OBVIOUS
<1> DEFINE T == {k \in Nat : m + k \in (m..n) \ S}
<1>0. (m..n) \ S # {} OBVIOUS
<1>1. PICK k \in (m..n) \ S : TRUE
    BY <1>0
<1>2. k - m \in T
    BY <1>1
<1>3. PICK l \in T : \A j \in T : l <= j
    BY <1>2, Least
<1>4. l \in Nat /\ m + l \in m..n /\ m + l \notin S
    BY <1>3
<1>5. l # 0
    BY <1>4
<1>6. l - 1 \in Nat /\ l - 1 \notin T
    <2> HIDE DEF T
    <2> QED BY <1>3, <1>4, <1>5
<1>7. m + (l - 1) \in m..(n - 1) /\ m + (l - 1) \in S
    BY <1>4, <1>5, <1>6
<1>8. (m + (l - 1)) + 1 \in S
    BY <1>7
<1> QED BY <1>4, <1>8

-----------------------------------------------------------------------------
(* Sequences. *)

(* A sequence, of whatever elements. *)
SeqLike(q) == q \in Seq(Range(q))

(* A sequence of anything is indexed by 1 to its length. *)
LEMMA LikeSeq ==
    ASSUME NEW S, NEW q \in Seq(S)
    PROVE  SeqLike(q) /\ Len(q) \in Nat /\ DOMAIN q = 1..Len(q)
<1>1. q \in [1..Len(q) -> S] /\ Len(q) \in Nat OBVIOUS
<1>2. q \in [1..Len(q) -> Range(q)]
    BY <1>1 DEF Range
<1> QED BY <1>1, <1>2 DEF SeqLike

(* Sequences of one length and equal elements are equal. *)
LEMMA SameSeq ==
    ASSUME NEW a, NEW b, SeqLike(a), SeqLike(b), Len(a) = Len(b),
           \A i \in 1..Len(a) : a[i] = b[i]
    PROVE  a = b
<1> DEFINE S == Range(a) \cup Range(b)
<1>1. a \in Seq(S) /\ b \in Seq(S)
    BY DEF SeqLike
<1> HIDE DEF S
<1> QED BY <1>1

(* A concatenation is a sequence, first the one part, then the other. *)
LEMMA LikeConcat ==
    ASSUME NEW a, NEW b, SeqLike(a), SeqLike(b)
    PROVE  /\ SeqLike(a \o b) /\ Len(a \o b) = Len(a) + Len(b)
           /\ \A i \in 1..Len(a) : (a \o b)[i] = a[i]
           /\ \A i \in 1..Len(b) : (a \o b)[Len(a) + i] = b[i]
           /\ Len(a) \in Nat /\ Len(b) \in Nat
           /\ DOMAIN a = 1..Len(a) /\ DOMAIN b = 1..Len(b) /\ DOMAIN (a \o b) = 1..(Len(a) + Len(b))
<1> DEFINE S == Range(a) \cup Range(b)
<1>1. a \in Seq(S) /\ b \in Seq(S)
    BY DEF SeqLike
<1> HIDE DEF S
<1>2. a \o b \in Seq(S) /\ Len(a \o b) = Len(a) + Len(b)
    BY <1>1
<1>3. SeqLike(a \o b)
    BY <1>2, LikeSeq
<1>4. /\ \A i \in 1..Len(a) : (a \o b)[i] = a[i]
      /\ \A i \in 1..Len(b) : (a \o b)[Len(a) + i] = b[i]
    BY <1>1
<1> QED BY <1>1, <1>2, <1>3, <1>4

(* So is a sequence with one element more. *)
LEMMA LikeAppend ==
    ASSUME NEW a, NEW e, SeqLike(a)
    PROVE  /\ SeqLike(Append(a, e)) /\ Len(Append(a, e)) = Len(a) + 1
           /\ \A i \in 1..Len(a) : Append(a, e)[i] = a[i]
           /\ Append(a, e)[Len(a) + 1] = e
           /\ Len(a) \in Nat /\ DOMAIN a = 1..Len(a) /\ DOMAIN Append(a, e) = 1..(Len(a) + 1)
<1> DEFINE S == Range(a) \cup {e}
<1>1. a \in Seq(S) /\ e \in S
    BY DEF SeqLike
<1> HIDE DEF S
<1>2. Append(a, e) \in Seq(S) /\ Len(Append(a, e)) = Len(a) + 1
    BY <1>1
<1>3. SeqLike(Append(a, e))
    BY <1>2, LikeSeq
<1> QED BY <1>1, <1>2, <1>3

(* Position finds a place, or is zero. *)
LEMMA PositionFound ==
    ASSUME NEW S, NEW nodes \in Seq(S), NEW seq
    PROVE  Position(nodes, seq) \in 0..Len(nodes)
<1> DEFINE I == {i \in 1..Len(nodes) : nodes[i] = seq}
<1>1. Position(nodes, seq) = IF I # {} THEN Min(I) ELSE 0
    BY DEF Position, SelectInSeq
<1>9. I \in SUBSET (1..Len(nodes)) OBVIOUS
<1> HIDE DEF I
<1>2. CASE I = {}
    BY <1>1, <1>2
<1>3. CASE I # {}
    <2>1. PICK m \in I : \A k \in I : m <= k
        BY <1>3, <1>9, Least
    <2>2. (CHOOSE x \in I : \A y \in I : x =< y) \in I
        BY <2>1
    <2>3. Min(I) = CHOOSE x \in I : \A y \in I : x =< y
        BY DEF Min
    <2>4. Min(I) \in I
        BY <2>2, <2>3
    <2>5. Len(nodes) \in Nat OBVIOUS
    <2>6. \A x \in I : x \in 1..Len(nodes)
        BY <1>9
    <2>7. Min(I) \in 1..Len(nodes)
        BY <2>4, <2>6
    <2>8. 1..Len(nodes) \subseteq 0..Len(nodes)
        BY <2>5
    <2> QED BY <1>1, <1>3, <2>7, <2>8
<1> QED BY <1>2, <1>3

-----------------------------------------------------------------------------
(* Sift, step by step. *)

(* f[k] is what is chosen of the first k nodes. *)
Sifts(nodes, chosen, n, f) ==
    /\ f = [k \in 0..n |-> f[k]] /\ f[0] = <<>>
    /\ \A k \in 1..n :
          f[k] = IF nodes[k] \in chosen THEN Append(f[k - 1], nodes[k]) ELSE f[k - 1]

(* Such a function exists. *)
LEMMA SiftsExist ==
    ASSUME NEW nodes, NEW chosen, NEW n \in Nat
    PROVE  \E f : Sifts(nodes, chosen, n, f)
<1> DEFINE S == {m \in 0..n : \E f : Sifts(nodes, chosen, m, f)}
<1>1. 0 \in S
    <2> DEFINE f == [k \in 0..0 |-> <<>>]
    <2>1. Sifts(nodes, chosen, 0, f)
        BY DEF Sifts
    <2> QED BY <2>1
<1>2. ASSUME NEW m \in 0..(n - 1), m \in S
      PROVE  m + 1 \in S
    <2>1. PICK f : Sifts(nodes, chosen, m, f)
        BY <1>2
    <2> DEFINE next == IF nodes[m + 1] \in chosen THEN Append(f[m], nodes[m + 1]) ELSE f[m]
               g == [k \in 0..(m + 1) |-> IF k = m + 1 THEN next ELSE f[k]]
    <2>2. /\ g = [k \in 0..(m + 1) |-> g[k]]
          /\ g[m + 1] = next /\ \A k \in 0..m : g[k] = f[k] OBVIOUS
    <2> HIDE DEF g
    <2>3. \A k \in 1..(m + 1) : k = m + 1 \/ (k \in 1..m /\ k \in 0..m /\ k - 1 \in 0..m)
        OBVIOUS
    <2>4. g[0] = <<>> /\ g[m] = f[m] /\ (m + 1) - 1 = m
        <3>1. 0 \in 0..m /\ m \in 0..m /\ (m + 1) - 1 = m OBVIOUS
        <3>2. f[0] = <<>>
            BY <2>1 DEF Sifts
        <3> QED BY <3>1, <3>2, <2>2
    <2>5. \A k \in 1..(m + 1) :
             g[k] = IF nodes[k] \in chosen THEN Append(g[k - 1], nodes[k]) ELSE g[k - 1]
        <3> SUFFICES ASSUME NEW k \in 1..(m + 1)
                     PROVE  g[k] = IF nodes[k] \in chosen THEN Append(g[k - 1], nodes[k]) ELSE g[k - 1]
            OBVIOUS
        <3>1. CASE k = m + 1
            BY <3>1, <2>2, <2>4
        <3>2. CASE k \in 1..m /\ k \in 0..m /\ k - 1 \in 0..m
            BY <3>2, <2>1, <2>2 DEF Sifts
        <3> QED BY <3>1, <3>2, <2>3
    <2>6. Sifts(nodes, chosen, m + 1, g)
        BY <2>2, <2>4, <2>5 DEF Sifts
    <2> QED BY <2>6
<1>3. S = 0..n
    <2> HIDE DEF S
    <2>1. S \in SUBSET (0..n)
        BY DEF S
    <2> QED BY <1>1, <1>2, <2>1, UpTo
<1> QED BY <1>3

(* Sift is the last of the partial sifts. *)
LEMMA SiftSteps ==
    ASSUME NEW nodes, NEW chosen, Len(nodes) \in Nat
    PROVE  \E f : Sifts(nodes, chosen, Len(nodes), f) /\ Sift(nodes, chosen) = f[Len(nodes)]
<1> DEFINE n == Len(nodes)
           step(f) == [k \in 0..n |->
               IF k = 0 THEN <<>>
               ELSE IF nodes[k] \in chosen THEN Append(f[k - 1], nodes[k]) ELSE f[k - 1]]
           F == CHOOSE f : f = step(f)
<1>1. PICK g : Sifts(nodes, chosen, n, g)
    BY SiftsExist
<1>2. g = step(g)
    BY <1>1 DEF Sifts
<1>3. F = step(F)
    BY <1>2
<1>4. Sift(nodes, chosen) = F[n]
    BY DEF Sift
<1> HIDE DEF F
<1>5. \A k \in 0..n : F[k] = IF k = 0 THEN <<>>
                             ELSE IF nodes[k] \in chosen THEN Append(F[k - 1], nodes[k])
                             ELSE F[k - 1]
    BY <1>3
<1>6. F = [k \in 0..n |-> F[k]]
    BY <1>3
<1>7. Sifts(nodes, chosen, n, F)
    BY <1>5, <1>6 DEF Sifts
<1> QED BY <1>4, <1>7

(* What is sifted from nodes is among them, and chosen. *)
LEMMA SiftType ==
    ASSUME NEW S, NEW nodes \in Seq(S), NEW chosen
    PROVE  Sift(nodes, chosen) \in Seq(S \cap chosen)
<1> DEFINE n == Len(nodes)
<1>1. n \in Nat OBVIOUS
<1>2. PICK f : Sifts(nodes, chosen, n, f) /\ Sift(nodes, chosen) = f[n]
    BY <1>1, SiftSteps
<1> DEFINE T == {k \in 0..n : f[k] \in Seq(S \cap chosen)}
<1>3. 0 \in T
    BY <1>1, <1>2 DEF Sifts
<1>4. ASSUME NEW k \in 0..(n - 1), k \in T
      PROVE  k + 1 \in T
    <2>1. k + 1 \in 1..n /\ (k + 1) - 1 = k /\ k + 1 \in 0..n
        BY <1>1
    <2>2. f[k + 1] = IF nodes[k + 1] \in chosen THEN Append(f[k], nodes[k + 1]) ELSE f[k]
        BY <2>1, <1>2 DEF Sifts
    <2>3. nodes[k + 1] \in S
        BY <2>1
    <2>4. f[k] \in Seq(S \cap chosen)
        BY <1>4
    <2>5. f[k + 1] \in Seq(S \cap chosen)
        BY <2>2, <2>3, <2>4
    <2> QED BY <2>1, <2>5
<1>5. T = 0..n
    <2> HIDE DEF T
    <2>1. T \in SUBSET (0..n)
        BY DEF T
    <2> QED BY <1>1, <1>3, <1>4, <2>1, UpTo
<1> QED BY <1>1, <1>2, <1>5

(* Only which of the nodes are chosen counts. *)
LEMMA SiftSame ==
    ASSUME NEW S, NEW nodes \in Seq(S), NEW c, NEW d, \A x \in S : x \in c <=> x \in d
    PROVE  Sift(nodes, c) = Sift(nodes, d)
<1> DEFINE n == Len(nodes)
<1>1. n \in Nat OBVIOUS
<1>2. PICK f : Sifts(nodes, c, n, f) /\ Sift(nodes, c) = f[n]
    BY <1>1, SiftSteps
<1>3. PICK g : Sifts(nodes, d, n, g) /\ Sift(nodes, d) = g[n]
    BY <1>1, SiftSteps
<1> DEFINE T == {k \in 0..n : f[k] = g[k]}
<1>4. 0 \in T
    BY <1>1, <1>2, <1>3 DEF Sifts
<1>5. ASSUME NEW k \in 0..(n - 1), k \in T
      PROVE  k + 1 \in T
    <2>1. k + 1 \in 1..n /\ (k + 1) - 1 = k /\ k + 1 \in 0..n
        BY <1>1
    <2>2. f[k + 1] = IF nodes[k + 1] \in c THEN Append(f[k], nodes[k + 1]) ELSE f[k]
        BY <2>1, <1>2 DEF Sifts
    <2>3. g[k + 1] = IF nodes[k + 1] \in d THEN Append(g[k], nodes[k + 1]) ELSE g[k]
        BY <2>1, <1>3 DEF Sifts
    <2>4. nodes[k + 1] \in S
        BY <2>1
    <2> QED BY <1>5, <2>1, <2>2, <2>3, <2>4
<1>6. T = 0..n
    <2> HIDE DEF T
    <2>1. T \in SUBSET (0..n)
        BY DEF T
    <2> QED BY <1>1, <1>4, <1>5, <2>1, UpTo
<1> QED BY <1>1, <1>2, <1>3, <1>6

(* Nothing is sifted from the empty sequence. *)
LEMMA SiftNone ==
    ASSUME NEW chosen
    PROVE  Sift(<<>>, chosen) = <<>>
<1>1. PICK f : Sifts(<<>>, chosen, 0, f) /\ Sift(<<>>, chosen) = f[0]
    BY SiftSteps
<1> QED BY <1>1 DEF Sifts

(* Appending and concatenating associate. *)
LEMMA ConcatAppend ==
    ASSUME NEW S, NEW a \in Seq(S), NEW b \in Seq(S), NEW x \in S
    PROVE  a \o Append(b, x) = Append(a \o b, x) OBVIOUS

(* Two sifts agree as long as their nodes do. *)
LEMMA SiftsPrefix ==
    ASSUME NEW a, NEW q, NEW chosen, NEW m \in Nat, NEW n \in Nat, m <= n, NEW f, NEW h,
           Sifts(a, chosen, m, f), Sifts(q, chosen, n, h), \A k \in 1..m : q[k] = a[k]
    PROVE  h[m] = f[m]
<1> DEFINE T == {k \in 0..m : h[k] = f[k]}
<1>1. 0 \in T
    BY DEF Sifts
<1>2. ASSUME NEW k \in 0..(m - 1), k \in T
      PROVE  k + 1 \in T
    <2>1. k + 1 \in 1..m /\ (k + 1) - 1 = k /\ k + 1 \in 0..m /\ k + 1 \in 1..n OBVIOUS
    <2>2. f[k + 1] = IF a[k + 1] \in chosen THEN Append(f[k], a[k + 1]) ELSE f[k]
        BY <2>1 DEF Sifts
    <2>3. h[k + 1] = IF q[k + 1] \in chosen THEN Append(h[k], q[k + 1]) ELSE h[k]
        BY <2>1 DEF Sifts
    <2> QED BY <1>2, <2>1, <2>2, <2>3
<1>3. T = 0..m
    <2> HIDE DEF T
    <2>1. T \in SUBSET (0..m)
        BY DEF T
    <2> QED BY <1>1, <1>2, <2>1, UpTo
<1> QED BY <1>3

(* From equal nodes on, the longer one continues the shorter. *)
Continues(S, b, q, chosen, m, n, g, h, p) ==
    /\ m \in Nat /\ n \in Nat /\ p \in Seq(S) /\ h[m] = p
    /\ Sifts(b, chosen, n, g) /\ Sifts(q, chosen, m + n, h)
    /\ \A k \in 1..n : q[m + k] = b[k] /\ b[k] \in S
Continued(m, n, g, h, p) == h[m + n] = p \o g[n]

(* A partial sift of the longer sequence is the shorter one's, then its own. *)
LEMMA SiftsTail ==
    ASSUME NEW S, NEW b, NEW q, NEW chosen, NEW m, NEW n, NEW g, NEW h, NEW p,
           Continues(S, b, q, chosen, m, n, g, h, p)
    PROVE  Continued(m, n, g, h, p)
<1>4. m \in Nat /\ n \in Nat /\ p \in Seq(S) /\ h[m] = p
    BY DEF Continues
<1>5. Sifts(b, chosen, n, g) /\ Sifts(q, chosen, m + n, h)
    BY DEF Continues
<1>6. \A k \in 1..n : q[m + k] = b[k] /\ b[k] \in S
    BY DEF Continues
<1> DEFINE U == {k \in 0..n : g[k] \in Seq(S) /\ h[m + k] = p \o g[k]}
<1>1. 0 \in U
    <2>1. g[0] = <<>>
        BY <1>4, <1>5 DEF Sifts
    <2>2. p \o <<>> = p /\ m + 0 = m /\ <<>> \in Seq(S)
        BY <1>4
    <2>3. g[0] \in Seq(S) /\ h[m + 0] = p \o g[0]
        BY <1>4, <2>1, <2>2
    <2> QED BY <1>4, <2>3
<1>2. ASSUME NEW k \in 0..(n - 1), k \in U
      PROVE  k + 1 \in U
    <2>1. /\ k + 1 \in 1..n /\ (k + 1) - 1 = k /\ k + 1 \in 0..n
          /\ m + (k + 1) \in 1..(m + n) /\ (m + (k + 1)) - 1 = m + k
        BY <1>4
    <2>2. g[k + 1] = IF b[k + 1] \in chosen THEN Append(g[k], b[k + 1]) ELSE g[k]
        BY <2>1, <1>5 DEF Sifts
    <2>3. h[m + (k + 1)] = IF q[m + (k + 1)] \in chosen
                           THEN Append(h[m + k], q[m + (k + 1)]) ELSE h[m + k]
        BY <2>1, <1>5 DEF Sifts
    <2>4. q[m + (k + 1)] = b[k + 1] /\ b[k + 1] \in S
        BY <2>1, <1>6
    <2>5. g[k] \in Seq(S) /\ h[m + k] = p \o g[k]
        BY <1>2
    <2>6. Append(p \o g[k], b[k + 1]) = p \o Append(g[k], b[k + 1])
        <3>1. PICK r \in Seq(S) : r = g[k]
            BY <2>5
        <3>2. PICK x \in S : x = b[k + 1]
            BY <2>4
        <3>3. p \o Append(r, x) = Append(p \o r, x)
            BY <1>4, ConcatAppend
        <3> QED BY <3>1, <3>2, <3>3
    <2>7. g[k + 1] \in Seq(S)
        BY <2>2, <2>4, <2>5
    <2>8. h[m + (k + 1)] = p \o g[k + 1]
        BY <2>2, <2>3, <2>4, <2>5, <2>6
    <2> QED BY <2>1, <2>7, <2>8
<1>3. U = 0..n
    <2> HIDE DEF U
    <2>1. U \in SUBSET (0..n)
        BY DEF U
    <2> QED BY <1>1, <1>2, <1>4, <2>1, UpTo
<1>7. n \in U
    <2> HIDE DEF U
    <2> QED BY <1>3, <1>4
<1> QED BY <1>7 DEF Continued

(* Sifting goes part by part. *)
LEMMA SiftJoin ==
    ASSUME NEW S, NEW a \in Seq(S), NEW b \in Seq(S), NEW chosen
    PROVE  Sift(a \o b, chosen) = Sift(a, chosen) \o Sift(b, chosen)
<1>1. PICK m \in Nat : m = Len(a) OBVIOUS
<1>2. PICK n \in Nat : n = Len(b) OBVIOUS
<1>3. PICK q \in Seq(S) : q = a \o b
    <2>1. a \o b \in Seq(S) OBVIOUS
    <2> QED BY <2>1
<1>4. /\ Len(q) = m + n
      /\ \A k \in 1..m : q[k] = a[k]
      /\ \A k \in 1..n : q[m + k] = b[k] /\ b[k] \in S
    BY <1>1, <1>2, <1>3
<1>5. PICK f : Sifts(a, chosen, m, f) /\ Sift(a, chosen) = f[m]
    BY <1>1, SiftSteps
<1>6. PICK g : Sifts(b, chosen, n, g) /\ Sift(b, chosen) = g[n]
    BY <1>2, SiftSteps
<1>7. PICK h : Sifts(q, chosen, m + n, h) /\ Sift(q, chosen) = h[m + n]
    <2>1. m + n \in Nat OBVIOUS
    <2> QED BY <1>4, <2>1, SiftSteps
<1>8. h[m] = f[m]
    <2>1. m + n \in Nat /\ m <= m + n OBVIOUS
    <2> QED BY <1>4, <1>5, <1>7, <2>1, SiftsPrefix
<1>9. f[m] \in Seq(S)
    <2>1. Sift(a, chosen) \in Seq(S \cap chosen)
        BY SiftType
    <2> QED BY <1>5, <2>1
<1>10. h[m + n] = f[m] \o g[n]
    <2>1. \A k \in 1..n : q[m + k] = b[k] /\ b[k] \in S
        BY <1>4
    <2>2. Continues(S, b, q, chosen, m, n, g, h, f[m])
        BY <1>6, <1>7, <1>8, <1>9, <2>1 DEF Continues
    <2>3. Continued(m, n, g, h, f[m])
        BY <2>2, SiftsTail
    <2> QED BY <2>3 DEF Continued
<1> QED BY <1>3, <1>5, <1>6, <1>7, <1>10

-----------------------------------------------------------------------------
(* One event. *)

(* The first part of a sequence, before the place i. *)
LEMMA FirstPart ==
    ASSUME NEW M, NEW q \in Seq(M), NEW i \in 0..Len(q)
    PROVE  /\ SubSeq(q, 1, i - 1) \in Seq(M)
           /\ \A k \in 1..(i - 1) : k \in 1..Len(SubSeq(q, 1, i - 1)) /\ SubSeq(q, 1, i - 1)[k] = q[k]
<1>1. CASE i = 0
    <2>1. SubSeq(q, 1, -1) = <<>> OBVIOUS
    <2>2. \A k \in 1..(i - 1) : FALSE
        BY <1>1
    <2> QED BY <1>1, <2>1, <2>2
<1>2. CASE i \in 1..Len(q)
    BY <1>2
<1> QED BY <1>1, <1>2

(* The last part, behind the place j. *)
LEMMA LastPart ==
    ASSUME NEW M, NEW q \in Seq(M), NEW j \in 0..Len(q)
    PROVE  /\ SubSeq(q, j + 1, Len(q)) \in Seq(M)
           /\ Len(SubSeq(q, j + 1, Len(q))) = Len(q) - j
           /\ \A k \in 1..(Len(q) - j) : SubSeq(q, j + 1, Len(q))[k] = q[j + k] OBVIOUS

(* A part between. *)
LEMMA MidPart ==
    ASSUME NEW M, NEW q \in Seq(M), NEW i \in 0..Len(q), NEW j \in 0..Len(q), NEW k \in i..j
    PROVE  q[k] \in Range(SubSeq(q, i, j))
<1>1. DOMAIN SubSeq(q, i, j) = 1..(j + 1 - i) /\ SubSeq(q, i, j)[k + 1 - i] = q[k]
    OBVIOUS
<1>2. k + 1 - i \in 1..(j + 1 - i) OBVIOUS
<1> QED BY <1>1, <1>2 DEF Range

(* The surface keeps its type. *)
LEMMA PlacedType ==
    ASSUME NEW s, NEW e, NEW M, NEW seq \in M, s.nodes \in Seq(M)
    PROVE  Placed(s, e, seq) \in Seq(M)
<1>1. CASE e.t \notin SurfaceType
    BY <1>1 DEF Placed
<1>2. CASE e.t \in SurfaceType /\ e.at = <<>>
    BY <1>2 DEF Placed
<1>3. CASE e.t \in SurfaceType /\ e.at # <<>>
    <2>1. PICK i \in 0..Len(s.nodes) : i = Position(s.nodes, e.at[1])
        BY PositionFound
    <2>2. PICK j \in 0..Len(s.nodes) : j = Position(s.nodes, e.at[2])
        BY PositionFound
    <2>3. SubSeq(s.nodes, 1, i - 1) \in Seq(M) /\ SubSeq(s.nodes, j + 1, Len(s.nodes)) \in Seq(M)
        BY FirstPart, LastPart
    <2>4. (SubSeq(s.nodes, 1, i - 1) \o <<seq>>) \o SubSeq(s.nodes, j + 1, Len(s.nodes)) \in Seq(M)
        BY <2>3
    <2>5. Placed(s, e, seq)
            = (SubSeq(s.nodes, 1, i - 1) \o <<seq>>) \o SubSeq(s.nodes, j + 1, Len(s.nodes))
        BY <1>3, <2>1, <2>2 DEF Placed
    <2> QED BY <2>4, <2>5
<1> QED BY <1>1, <1>2, <1>3

(* What stands in either part of a concatenation stands in the whole. *)
LEMMA RangeConcat ==
    ASSUME NEW M, NEW a \in Seq(M), NEW b \in Seq(M)
    PROVE  Range(a) \subseteq Range(a \o b) /\ Range(b) \subseteq Range(a \o b)
<1>1. /\ DOMAIN a = 1..Len(a) /\ DOMAIN b = 1..Len(b) /\ DOMAIN (a \o b) = 1..(Len(a) + Len(b))
      /\ Len(a) \in Nat /\ Len(b) \in Nat OBVIOUS
<1>2. \A k \in DOMAIN a : k \in DOMAIN (a \o b) /\ (a \o b)[k] = a[k] OBVIOUS
<1>3. \A k \in DOMAIN b : Len(a) + k \in DOMAIN (a \o b) /\ (a \o b)[Len(a) + k] = b[k]
    OBVIOUS
<1> QED BY <1>2, <1>3 DEF Range

(* A node that an event does not shadow stays on the surface. *)
LEMMA PlacedKeeps ==
    ASSUME NEW s, NEW e, NEW M, NEW seq \in M, s.nodes \in Seq(M),
           NEW x \in Range(s.nodes), x \notin Shadowed(s, e)
    PROVE  x \in Range(Placed(s, e, seq))
<1>1. CASE e.t \notin SurfaceType
    BY <1>1 DEF Placed
<1>2. CASE e.t \in SurfaceType /\ e.at = <<>>
    <2>1. Placed(s, e, seq) = s.nodes \o <<seq>>
        BY <1>2 DEF Placed
    <2>2. <<seq>> \in Seq(M) OBVIOUS
    <2> QED BY <2>1, <2>2, RangeConcat
<1>3. CASE e.t \in SurfaceType /\ e.at # <<>>
    <2>1. PICK i \in 0..Len(s.nodes) : i = Position(s.nodes, e.at[1])
        BY PositionFound
    <2>2. PICK j \in 0..Len(s.nodes) : j = Position(s.nodes, e.at[2])
        BY PositionFound
    <2> DEFINE a == SubSeq(s.nodes, 1, i - 1)
               b == SubSeq(s.nodes, j + 1, Len(s.nodes))
    <2>3. a \in Seq(M) /\ b \in Seq(M)
        BY FirstPart, LastPart
    <2>4. Placed(s, e, seq) = (a \o <<seq>>) \o b
        BY <1>3, <2>1, <2>2 DEF Placed
    <2>5. PICK k \in 1..Len(s.nodes) : x = s.nodes[k]
        BY DEF Range
    <2>6. k \notin i..j
        BY <1>3, <2>1, <2>2, <2>5, MidPart DEF Shadowed, Span
    <2>7. CASE k < i
        <3>1. k \in 1..Len(a) /\ a[k] = x
            BY <2>5, <2>7, FirstPart
        <3>2. x \in Range(a)
            <4> HIDE DEF a, b
            <4>1. DOMAIN a = 1..Len(a)
                BY <2>3
            <4> QED BY <3>1, <4>1 DEF Range
        <3>3. a \o <<seq>> \in Seq(M) /\ <<seq>> \in Seq(M)
            BY <2>3
        <3>4. x \in Range(a \o <<seq>>)
            BY <2>3, <3>2, <3>3, RangeConcat
        <3>5. Range(a \o <<seq>>) \subseteq Range((a \o <<seq>>) \o b)
            <4> HIDE DEF a, b
            <4> QED BY <2>3, <3>3, RangeConcat
        <3> QED BY <2>4, <3>4, <3>5
    <2>8. CASE k > j
        <3>1. Len(b) = Len(s.nodes) - j /\ k - j \in 1..Len(b) /\ b[k - j] = x
            BY <2>5, <2>8, LastPart
        <3>2. x \in Range(b)
            <4> HIDE DEF a, b
            <4>1. DOMAIN b = 1..Len(b)
                BY <2>3
            <4> QED BY <3>1, <4>1 DEF Range
        <3>3. a \o <<seq>> \in Seq(M)
            BY <2>3
        <3>4. Range(b) \subseteq Range((a \o <<seq>>) \o b)
            <4> HIDE DEF a, b
            <4> QED BY <2>3, <3>3, RangeConcat
        <3> QED BY <2>4, <3>2, <3>4
    <2> QED BY <2>6, <2>7, <2>8
<1> QED BY <1>1, <1>2, <1>3

(* A new node stands on the surface. *)
LEMMA PlacedNew ==
    ASSUME NEW s, NEW e, NEW M, NEW seq \in M, s.nodes \in Seq(M), e.t \in SurfaceType
    PROVE  seq \in Range(Placed(s, e, seq))
<1>1. <<seq>> \in Seq(M) /\ seq \in Range(<<seq>>)
    BY DEF Range
<1>2. CASE e.at = <<>>
    <2>1. Placed(s, e, seq) = s.nodes \o <<seq>>
        BY <1>2 DEF Placed
    <2> QED BY <1>1, <2>1, RangeConcat
<1>3. CASE e.at # <<>>
    <2>1. PICK i \in 0..Len(s.nodes) : i = Position(s.nodes, e.at[1])
        BY PositionFound
    <2>2. PICK j \in 0..Len(s.nodes) : j = Position(s.nodes, e.at[2])
        BY PositionFound
    <2> DEFINE a == SubSeq(s.nodes, 1, i - 1)
               b == SubSeq(s.nodes, j + 1, Len(s.nodes))
    <2>3. a \in Seq(M) /\ b \in Seq(M)
        BY FirstPart, LastPart
    <2>4. Placed(s, e, seq) = (a \o <<seq>>) \o b
        BY <1>3, <2>1, <2>2 DEF Placed
    <2> HIDE DEF a, b
    <2>5. seq \in Range(a \o <<seq>>)
        BY <1>1, <2>3, RangeConcat
    <2>6. a \o <<seq>> \in Seq(M)
        BY <2>3
    <2>7. Range(a \o <<seq>>) \subseteq Range((a \o <<seq>>) \o b)
        BY <2>3, <2>6, RangeConcat
    <2> QED BY <2>4, <2>5, <2>7
<1> QED BY <1>2, <1>3

(* How a session goes on: the log and the content counters only grow, and what
   did not count keeps what is there. *)
Leads(p, q) == Len(p) <= Len(q) /\ \A i \in 1..Len(p) : q[i] = p[i]
Grown(s, t) ==
    /\ Leads(s.log, t.log)
    /\ s.contents <= t.contents /\ s.replaces <= t.replaces
    /\ s.offloaded \subseteq t.offloaded
    /\ s.contents = t.contents => s.offloaded = t.offloaded /\ Leads(s.nodes, t.nodes)
    /\ s.replaces = t.replaces => Leads(s.nodes, t.nodes)

(* A session goes on from itself. *)
LEMMA GrownSelf ==
    ASSUME NEW s, Folded(s)
    PROVE  Grown(s, s)
BY DEF Grown, Leads, Folded

(* Being a prefix is transitive. *)
LEMMA PrefixesOn ==
    ASSUME NEW p, NEW q, NEW r, Leads(p, q), Leads(q, r),
           Len(p) \in Nat, Len(q) \in Nat, Len(r) \in Nat
    PROVE  Leads(p, r)
BY DEF Leads

(* The numbers of a session. *)
LEMMA FoldedNumbers ==
    ASSUME NEW s, Folded(s)
    PROVE  Len(s.log) \in Nat /\ Len(s.nodes) \in Nat /\ s.contents \in Nat /\ s.replaces \in Nat
<1>1. Len(s.log) \in Nat
    BY DEF Folded
<1>2. Len(s.nodes) \in Nat
    BY DEF Folded
<1> QED BY <1>1, <1>2 DEF Folded

(* Going on is transitive. *)
LEMMA GrownOn ==
    ASSUME NEW s, NEW t, NEW u, Folded(s), Folded(t), Folded(u), Grown(s, t), Grown(t, u)
    PROVE  Grown(s, u)
<1>1. /\ Len(s.log) \in Nat /\ Len(t.log) \in Nat /\ Len(u.log) \in Nat
      /\ Len(s.nodes) \in Nat /\ Len(t.nodes) \in Nat /\ Len(u.nodes) \in Nat
      /\ {s.contents, t.contents, u.contents, s.replaces, t.replaces, u.replaces} \subseteq Nat
    BY FoldedNumbers
<1>2. Leads(s.log, u.log)
    BY <1>1, PrefixesOn DEF Grown
<1>5. /\ s.contents <= t.contents /\ t.contents <= u.contents
      /\ s.replaces <= t.replaces /\ t.replaces <= u.replaces
    BY DEF Grown
<1>6. s.contents <= u.contents /\ s.replaces <= u.replaces
    <2>1. \A i, j, k \in Nat : i <= j /\ j <= k => i <= k OBVIOUS
    <2>2. s.contents \in Nat /\ t.contents \in Nat /\ u.contents \in Nat
        BY <1>1
    <2>3. s.replaces \in Nat /\ t.replaces \in Nat /\ u.replaces \in Nat
        BY <1>1
    <2>4. s.contents <= u.contents
        BY <1>5, <2>1, <2>2
    <2>5. s.replaces <= u.replaces
        BY <1>5, <2>1, <2>3
    <2> QED BY <2>4, <2>5
<1>7. s.offloaded \subseteq u.offloaded
    BY DEF Grown
<1>3. ASSUME s.contents = u.contents PROVE s.offloaded = u.offloaded /\ Leads(s.nodes, u.nodes)
    <2>1. s.contents = t.contents /\ t.contents = u.contents
        BY <1>1, <1>3, <1>5
    <2>2. /\ s.offloaded = t.offloaded /\ t.offloaded = u.offloaded
          /\ Leads(s.nodes, t.nodes) /\ Leads(t.nodes, u.nodes)
        BY <2>1 DEF Grown
    <2> QED BY <1>1, <2>2, PrefixesOn
<1>4. ASSUME s.replaces = u.replaces PROVE Leads(s.nodes, u.nodes)
    <2>1. s.replaces = t.replaces /\ t.replaces = u.replaces
        BY <1>1, <1>4, <1>5
    <2>2. Leads(s.nodes, t.nodes) /\ Leads(t.nodes, u.nodes)
        BY <2>1 DEF Grown
    <2> QED BY <1>1, <2>2, PrefixesOn
<1> QED BY <1>2, <1>3, <1>4, <1>6, <1>7 DEF Grown

(* What the fields of a session are behind one more event. *)
LEMMA PutFields ==
    ASSUME NEW s, NEW e
    PROVE  /\ DOMAIN Put(s, e) = DOMAIN NewSession
           /\ Put(s, e).log = Append(s.log, e)
           /\ Put(s, e).nodes = Placed(s, e, Len(s.log) + 1)
           /\ Put(s, e).replaces = s.replaces + (IF e.at # <<>> THEN 1 ELSE 0)
           /\ Put(s, e).contents = s.contents + (IF e.at # <<>> \/ e.t = "offload" THEN 1 ELSE 0)
           /\ Put(s, e).offloaded = s.offloaded \cup (IF e.t = "offload" THEN {e.v} ELSE {})
           /\ Put(s, e).context = Tracked(s, e, Len(s.log) + 1)
BY DEF Put, NewSession

(* A new last event cites what an earlier one says. *)
LEMMA LegalOn ==
    ASSUME NEW l, NEW e, SeqLike(l), Legal(l), Counted(e),
           e.t = "offload" => e.v \in DOMAIN l /\ l[e.v].t = "input"
    PROVE  Legal(Append(l, e))
<1>1. /\ Len(l) \in Nat /\ DOMAIN l = 1..Len(l) /\ DOMAIN Append(l, e) = 1..(Len(l) + 1)
      /\ \A i \in 1..Len(l) : Append(l, e)[i] = l[i]
      /\ Append(l, e)[Len(l) + 1] = e
    BY LikeAppend
<1> DEFINE m == Append(l, e)
<1> HIDE DEF m
<1>2. ASSUME NEW i \in DOMAIN m, m[i].t = "offload"
      PROVE  m[i].v \in 1..(i - 1) /\ m[m[i].v].t = "input"
    <2>1. CASE i = Len(l) + 1
        BY <1>1, <1>2, <2>1 DEF m
    <2>2. CASE i \in 1..Len(l)
        <3>1. m[i] = l[i] /\ l[i].t = "offload"
            BY <1>1, <1>2, <2>2 DEF m
        <3>2. l[i].v \in 1..(i - 1) /\ l[l[i].v].t = "input"
            BY <1>1, <2>2, <3>1 DEF Legal
        <3>3. l[i].v \in 1..Len(l)
            BY <1>1, <2>2, <3>2
        <3> QED BY <1>1, <3>1, <3>2, <3>3 DEF m
    <2> QED BY <1>1, <1>2, <2>1, <2>2 DEF m
<1>3. ASSUME NEW i \in DOMAIN m
      PROVE  Counted(m[i])
    <2>1. CASE i = Len(l) + 1
        BY <1>1, <2>1 DEF m
    <2>2. CASE i \in 1..Len(l)
        BY <1>1, <2>2 DEF m, Legal
    <2> QED BY <1>1, <1>3, <2>1, <2>2 DEF m
<1>4. Legal(m)
    BY <1>2, <1>3 DEF Legal
<1> QED BY <1>4 DEF m

(* One event keeps a session folded, and goes on from it. *)
LEMMA PutFolds ==
    ASSUME NEW s, NEW e, Folded(s), Counted(e),
           e.t = "offload" => e.v \in OfType(s, "input")
    PROVE  Folded(Put(s, e)) /\ Grown(s, Put(s, e))
<1>1. SeqLike(s.log)
    BY DEF Folded, SeqLike
<1>2. PICK l : l = Append(s.log, e) OBVIOUS
<1>3. /\ Len(s.log) \in Nat /\ DOMAIN s.log = 1..Len(s.log) /\ DOMAIN l = 1..(Len(s.log) + 1)
      /\ \A i \in 1..Len(s.log) : l[i] = s.log[i]
      /\ l[Len(s.log) + 1] = e
      /\ SeqLike(l) /\ Len(l) = Len(s.log) + 1
    BY <1>1, <1>2, LikeAppend
<1>4. PICK t : t = Put(s, e) OBVIOUS
<1>5. /\ DOMAIN t = DOMAIN NewSession
      /\ t.log = l
      /\ t.nodes = Placed(s, e, Len(s.log) + 1)
      /\ t.replaces = s.replaces + (IF e.at # <<>> THEN 1 ELSE 0)
      /\ t.contents = s.contents + (IF e.at # <<>> \/ e.t = "offload" THEN 1 ELSE 0)
      /\ t.offloaded = s.offloaded \cup (IF e.t = "offload" THEN {e.v} ELSE {})
      /\ t.context = Tracked(s, e, Len(s.log) + 1)
    BY <1>2, <1>4, PutFields
<1> DEFINE N == {i \in DOMAIN s.log : s.log[i].t \in SurfaceType}
           M == {i \in DOMAIN l : l[i].t \in SurfaceType}
<1>6. N \subseteq M /\ (e.t \in SurfaceType => Len(s.log) + 1 \in M)
    BY <1>3
<1>7. s.nodes \in Seq(N)
    BY DEF Folded
<1>8. s.nodes \in Seq(M)
    BY <1>6, <1>7
<1>9. t.nodes \in Seq(M)
    <2>1. CASE e.t \in SurfaceType
        <3> HIDE DEF N, M
        <3> QED BY <1>5, <1>6, <1>8, <2>1, PlacedType
    <2>2. CASE e.t \notin SurfaceType
        BY <1>5, <1>8, <2>2 DEF Placed
    <2> QED BY <2>1, <2>2
<1>10. Legal(l)
    <2>1. e.t = "offload" => e.v \in DOMAIN s.log /\ s.log[e.v].t = "input"
        BY DEF OfType
    <2> QED BY <1>1, <1>2, <2>1, LegalOn DEF Folded
<1>11. t.offloaded \subseteq OfType(t, "input")
    <2>1. s.offloaded \subseteq OfType(s, "input")
        BY DEF Folded
    <2>2. OfType(s, "input") \subseteq OfType(t, "input")
        BY <1>3, <1>5 DEF OfType
    <2> QED BY <1>5, <2>1, <2>2
<1>12. t.context \in {NoContext, LostContext} \cup Range(t.nodes)
    <2>1. CASE e.t = "context"
        <3>1. t.context = Len(s.log) + 1 /\ e.t \in SurfaceType
            BY <1>5, <2>1 DEF Tracked, SurfaceType
        <3>2. Len(s.log) + 1 \in Range(t.nodes)
            <4> HIDE DEF N, M
            <4> QED BY <1>5, <1>6, <1>8, <3>1, PlacedNew
        <3> QED BY <3>1, <3>2
    <2>2. CASE e.t # "context" /\ s.context \in Shadowed(s, e)
        BY <1>5, <2>2 DEF Tracked
    <2>3. CASE e.t # "context" /\ s.context \notin Shadowed(s, e)
        <3>1. t.context = s.context
            BY <1>5, <2>3 DEF Tracked
        <3>2. CASE s.context \in Range(s.nodes)
            <4>1. CASE e.t \in SurfaceType
                <5> HIDE DEF N, M
                <5> QED BY <1>5, <1>6, <1>8, <2>3, <3>1, <3>2, <4>1, PlacedKeeps
            <4>2. CASE e.t \notin SurfaceType
                BY <1>5, <3>1, <3>2, <4>2 DEF Placed
            <4> QED BY <4>1, <4>2
        <3> QED BY <3>1, <3>2 DEF Folded
    <2> QED BY <2>1, <2>2, <2>3
<1>13. t.replaces \in Nat /\ t.contents \in Nat
    BY <1>5 DEF Folded
<1>14. Folded(t)
    BY <1>3, <1>5, <1>9, <1>10, <1>11, <1>12, <1>13 DEF Folded, SeqLike
<1>15. Grown(s, t)
    <2>1. Leads(s.log, t.log)
        BY <1>3, <1>5 DEF Leads
    <2>2. ASSUME e.at = <<>> PROVE Leads(s.nodes, t.nodes)
        <3>1. t.nodes = s.nodes \/ t.nodes = Append(s.nodes, Len(s.log) + 1)
            BY <1>5, <2>2 DEF Placed
        <3>2. SeqLike(s.nodes)
            BY <1>7, LikeSeq
        <3>3. /\ Len(s.nodes) \in Nat
              /\ Len(Append(s.nodes, Len(s.log) + 1)) = Len(s.nodes) + 1
              /\ \A i \in 1..Len(s.nodes) : Append(s.nodes, Len(s.log) + 1)[i] = s.nodes[i]
            BY <3>2, LikeAppend
        <3> QED BY <3>1, <3>3 DEF Leads
    <2>3. s.replaces \in Nat /\ s.contents \in Nat
        BY DEF Folded
    <2> QED BY <1>5, <2>1, <2>2, <2>3 DEF Grown
<1> QED BY <1>4, <1>14, <1>15

-----------------------------------------------------------------------------
(* Several events. *)

(* f[k] is the session behind the first k events. *)
Puts(s, es, n, f) ==
    /\ f = [k \in 0..n |-> f[k]] /\ f[0] = s
    /\ \A k \in 1..n : f[k] = Put(f[k - 1], es[k])

(* The sessions behind the first events exist, one by one. *)
LEMMA PutsExist ==
    ASSUME NEW s, NEW es, NEW n \in Nat
    PROVE  \E f : Puts(s, es, n, f)
<1> DEFINE S == {m \in 0..n : \E f : Puts(s, es, m, f)}
<1>1. 0 \in S
    <2> DEFINE f == [k \in 0..0 |-> s]
    <2>1. Puts(s, es, 0, f)
        BY DEF Puts
    <2> QED BY <2>1
<1>2. ASSUME NEW m \in 0..(n - 1), m \in S
      PROVE  m + 1 \in S
    <2>1. PICK f : Puts(s, es, m, f)
        BY <1>2
    <2> DEFINE next == Put(f[m], es[m + 1])
               g == [k \in 0..(m + 1) |-> IF k = m + 1 THEN next ELSE f[k]]
    <2>2. /\ g = [k \in 0..(m + 1) |-> g[k]]
          /\ g[m + 1] = next /\ \A k \in 0..m : g[k] = f[k] OBVIOUS
    <2> HIDE DEF g
    <2>3. \A k \in 1..(m + 1) : k = m + 1 \/ (k \in 1..m /\ k \in 0..m /\ k - 1 \in 0..m)
        OBVIOUS
    <2>4. g[0] = s /\ g[m] = f[m] /\ (m + 1) - 1 = m
        <3>1. 0 \in 0..m /\ m \in 0..m /\ (m + 1) - 1 = m OBVIOUS
        <3>2. f[0] = s
            BY <2>1 DEF Puts
        <3> QED BY <3>1, <3>2, <2>2
    <2>5. ASSUME NEW k \in 1..(m + 1)
          PROVE  g[k] = Put(g[k - 1], es[k])
        <3>1. CASE k = m + 1
            BY <3>1, <2>2, <2>4
        <3>2. CASE k \in 1..m /\ k \in 0..m /\ k - 1 \in 0..m
            BY <3>2, <2>1, <2>2 DEF Puts
        <3> QED BY <3>1, <3>2, <2>3
    <2>6. Puts(s, es, m + 1, g)
        BY <2>2, <2>4, <2>5 DEF Puts
    <2> QED BY <2>6
<1>3. S = 0..n
    <2> HIDE DEF S
    <2>1. S \in SUBSET (0..n)
        BY DEF S
    <2> QED BY <1>1, <1>2, <2>1, UpTo
<1> QED BY <1>3

(* PutAll is the last of them. *)
LEMMA PutAllSteps ==
    ASSUME NEW s, NEW es, Len(es) \in Nat
    PROVE  \E f : Puts(s, es, Len(es), f) /\ PutAll(s, es) = f[Len(es)]
<1> DEFINE n == Len(es)
           step(f) == [k \in 0..n |->
               IF k = 0 THEN s
               ELSE CHOOSE s2 \in {Put(d, e) : d \in {f[k - 1]}, e \in {es[k]}} : TRUE]
           F == CHOOSE f : f = step(f)
<1>0. ASSUME NEW d, NEW e
      PROVE  (CHOOSE s2 \in {Put(d2, e2) : d2 \in {d}, e2 \in {e}} : TRUE) = Put(d, e)
    <2>1. {Put(d2, e2) : d2 \in {d}, e2 \in {e}} = {Put(d, e)} OBVIOUS
    <2> QED BY <2>1
<1>1. PICK g : Puts(s, es, n, g)
    BY PutsExist
<1>2. g = step(g)
    <2>1. \A k \in 0..n : g[k] = step(g)[k]
        <3> SUFFICES ASSUME NEW k \in 0..n PROVE g[k] = step(g)[k] OBVIOUS
        <3>1. CASE k = 0
            BY <3>1, <1>1 DEF Puts
        <3>2. CASE k \in 1..n
            <4>1. g[k] = Put(g[k - 1], es[k])
                BY <3>2, <1>1 DEF Puts
            <4>2. step(g)[k] = CHOOSE s2 \in {Put(d, e) : d \in {g[k - 1]}, e \in {es[k]}} : TRUE
                BY <3>2
            <4> QED BY <4>1, <4>2, <1>0
        <3> QED BY <3>1, <3>2
    <2>2. g = [k \in 0..n |-> g[k]]
        BY <1>1 DEF Puts
    <2>3. step(g) = [k \in 0..n |-> step(g)[k]] OBVIOUS
    <2> HIDE DEF step, n
    <2>4. [k \in 0..n |-> g[k]] = [k \in 0..n |-> step(g)[k]]
        BY <2>1
    <2> QED BY <2>2, <2>3, <2>4
<1>3. F = step(F)
    <2> HIDE DEF step
    <2> QED BY <1>2
<1>4. PutAll(s, es) = F[n]
    BY DEF PutAll
<1> HIDE DEF F
<1>5. \A k \in 0..n : F[k] = IF k = 0 THEN s
            ELSE CHOOSE s2 \in {Put(d, e) : d \in {F[k - 1]}, e \in {es[k]}} : TRUE
    BY <1>3
<1>6. F = [k \in 0..n |-> F[k]]
    BY <1>3
<1>7. F[0] = s
    BY <1>5
<1>8. ASSUME NEW k \in 1..n PROVE F[k] = Put(F[k - 1], es[k])
    <2>1. F[k] = CHOOSE s2 \in {Put(d, e) : d \in {F[k - 1]}, e \in {es[k]}} : TRUE
        BY <1>5
    <2> QED BY <2>1, <1>0
<1>9. Puts(s, es, n, F)
    BY <1>6, <1>7, <1>8 DEF Puts
<1> QED BY <1>4, <1>9

(* The session behind the first k events, of which the whole log will be l. *)
Along(s, l, k, t) ==
    /\ Folded(t) /\ Grown(s, t) /\ Len(t.log) = Len(s.log) + k
    /\ \A i \in 1..Len(t.log) : t.log[i] = l[i]

(* Events that cite what is there keep a session folded, and are its log. *)
LEMMA PutAllFolds ==
    ASSUME NEW s, NEW es, Folded(s), SeqLike(es), Legal(s.log \o es)
    PROVE  /\ Folded(PutAll(s, es)) /\ Grown(s, PutAll(s, es))
           /\ PutAll(s, es).log = s.log \o es
<1> DEFINE n == Len(es)
           m == Len(s.log)
           l == s.log \o es
<1>1. SeqLike(s.log)
    BY DEF Folded, SeqLike
<1>2. /\ SeqLike(l) /\ Len(l) = m + n /\ m \in Nat /\ n \in Nat /\ DOMAIN l = 1..(m + n)
      /\ DOMAIN s.log = 1..m
      /\ \A i \in 1..m : l[i] = s.log[i]
      /\ \A i \in 1..n : l[m + i] = es[i]
    BY <1>1, LikeConcat
<1>3. Legal(l) OBVIOUS
<1>4. PICK f : Puts(s, es, n, f) /\ PutAll(s, es) = f[n]
    BY <1>2, PutAllSteps
<1> HIDE DEF l, n, m
<1> DEFINE T == {k \in 0..n : Along(s, l, k, f[k])}
<1>5. 0 \in T
    <2>1. f[0] = s /\ Len(s.log) + 0 = Len(s.log)
        BY <1>2, <1>4 DEF Puts, m
    <2>2. Along(s, l, 0, s)
        BY <1>2, <2>1, GrownSelf DEF Along, m
    <2> QED BY <1>2, <2>1, <2>2
<1>6. ASSUME NEW k \in 0..(n - 1), k \in T
      PROVE  k + 1 \in T
    <2>1. k + 1 \in 1..n /\ (k + 1) - 1 = k /\ k + 1 \in 0..n
        BY <1>2
    <2>2. PICK t : t = f[k] OBVIOUS
    <2>3. PICK e : e = es[k + 1] OBVIOUS
    <2>4. f[k + 1] = Put(t, e)
        BY <1>4, <2>1, <2>2, <2>3 DEF Puts
    <2>5. Along(s, l, k, t)
        BY <1>6, <2>2
    <2>6. /\ Folded(t) /\ Grown(s, t) /\ Len(t.log) = m + k
          /\ \A i \in 1..Len(t.log) : t.log[i] = l[i]
        BY <2>5 DEF Along, m
    <2>7. e = l[m + (k + 1)] /\ m + (k + 1) \in DOMAIN l /\ (m + (k + 1)) - 1 = m + k
        BY <1>2, <2>1, <2>3
    <2>8. SeqLike(t.log)
        BY <2>6 DEF Folded, SeqLike
    <2>9. /\ Len(Append(t.log, e)) = (m + k) + 1 /\ DOMAIN t.log = 1..(m + k)
          /\ \A i \in 1..(m + k) : Append(t.log, e)[i] = t.log[i]
          /\ Append(t.log, e)[(m + k) + 1] = e
        BY <2>6, <2>8, LikeAppend
    <2>10. e.t = "offload" => e.v \in OfType(t, "input")
        <3>1. e.t = "offload" => e.v \in 1..(m + k) /\ l[e.v].t = "input"
            BY <1>3, <2>7 DEF Legal
        <3> QED BY <2>6, <2>9, <3>1 DEF OfType
    <2>18. Counted(e)
        BY <1>3, <2>7 DEF Legal
    <2>11. Folded(Put(t, e)) /\ Grown(t, Put(t, e))
        BY <2>6, <2>10, <2>18, PutFolds
    <2>12. Grown(s, Put(t, e))
        BY <2>6, <2>11, GrownOn
    <2>13. Put(t, e).log = Append(t.log, e)
        BY PutFields
    <2>14. \A i \in 1..((m + k) + 1) : i \in 1..(m + k) \/ i = (m + k) + 1
        BY <1>2
    <2>15. \A i \in 1..Len(Put(t, e).log) : Put(t, e).log[i] = l[i]
        BY <1>2, <2>6, <2>7, <2>9, <2>13, <2>14
    <2>16. Len(Put(t, e).log) = Len(s.log) + (k + 1)
        <3>1. (m + k) + 1 = m + (k + 1)
            BY <1>2
        <3> QED BY <2>9, <2>13, <3>1 DEF m
    <2>17. Along(s, l, k + 1, f[k + 1])
        BY <2>4, <2>11, <2>12, <2>15, <2>16 DEF Along
    <2> QED BY <2>1, <2>17
<1>7. T = 0..n
    <2> HIDE DEF T
    <2>1. T \in SUBSET (0..n)
        BY DEF T
    <2> QED BY <1>2, <1>5, <1>6, <2>1, UpTo
<1>8. Along(s, l, n, f[n])
    <2>1. n \in T
        BY <1>2, <1>7
    <2> QED BY <2>1
<1>9. Folded(f[n]) /\ Grown(s, f[n]) /\ Len(f[n].log) = Len(l) /\ SeqLike(f[n].log)
    BY <1>2, <1>8 DEF Along, m, Folded, SeqLike
<1>10. f[n].log = l
    BY <1>2, <1>8, <1>9, SameSeq DEF Along
<1> QED BY <1>4, <1>9, <1>10 DEF l

(* Events of some types. *)
Of(es, types) == SeqLike(es) /\ \A i \in 1..Len(es) : es[i].t \in types /\ Counted(es[i])

(* No events are of any types. *)
LEMMA OfNone ==
    ASSUME NEW types
    PROVE  Of(<<>>, types) /\ Len(<<>>) = 0
BY DEF Of, SeqLike, Range

(* One event is of its types. *)
LEMMA OfOne ==
    ASSUME NEW types, NEW e, e.t \in types, Counted(e)
    PROVE  Of(<<e>>, types) /\ Len(<<e>>) = 1 /\ <<e>>[1] = e
<1>1. <<e>> \in Seq({e}) /\ Len(<<e>>) = 1 /\ <<e>>[1] = e OBVIOUS
<1>2. SeqLike(<<e>>)
    BY <1>1, LikeSeq
<1> QED BY <1>1, <1>2 DEF Of

(* Equal events are of their type. *)
LEMMA OfEach ==
    ASSUME NEW types, NEW n \in Nat, NEW q, q = [i \in 1..n |-> q[i]],
           \A i \in 1..n : q[i].t \in types /\ Counted(q[i])
    PROVE  Of(q, types) /\ Len(q) = n
<1> DEFINE S == {q[i] : i \in 1..n}
<1>1. q \in [1..n -> S] OBVIOUS
<1> HIDE DEF S
<1>2. q \in Seq(S) /\ Len(q) = n
    BY <1>1
<1> QED BY <1>2, LikeSeq DEF Of

(* Events of some types followed by such events are such events. *)
LEMMA OfConcat ==
    ASSUME NEW types, NEW a, NEW b, Of(a, types), Of(b, types)
    PROVE  Of(a \o b, types) /\ Len(a \o b) = Len(a) + Len(b)
<1>1. /\ SeqLike(a \o b) /\ Len(a \o b) = Len(a) + Len(b)
      /\ \A i \in 1..Len(a) : (a \o b)[i] = a[i]
      /\ \A i \in 1..Len(b) : (a \o b)[Len(a) + i] = b[i]
      /\ Len(a) \in Nat /\ Len(b) \in Nat
    BY LikeConcat DEF Of
<1>2. ASSUME NEW i \in 1..Len(a \o b)
      PROVE  (a \o b)[i].t \in types /\ Counted((a \o b)[i])
    <2>1. i \in 1..Len(a) \/ (i - Len(a) \in 1..Len(b) /\ Len(a) + (i - Len(a)) = i)
        BY <1>1
    <2> QED BY <1>1, <2>1 DEF Of
<1> QED BY <1>1, <1>2 DEF Of

(* Events of some types are of more types. *)
LEMMA OfMore ==
    ASSUME NEW types, NEW more, types \subseteq more, NEW es, Of(es, types)
    PROVE  Of(es, more)
BY DEF Of

(* Events that offload nothing cite nothing. *)
LEMMA LegalPlain ==
    ASSUME NEW l, NEW es, NEW types, SeqLike(l), Legal(l), Of(es, types), "offload" \notin types
    PROVE  Legal(l \o es)
<1>1. /\ \A i \in 1..Len(l) : (l \o es)[i] = l[i]
      /\ \A i \in 1..Len(es) : (l \o es)[Len(l) + i] = es[i]
      /\ Len(l) \in Nat /\ Len(es) \in Nat
      /\ DOMAIN l = 1..Len(l) /\ DOMAIN (l \o es) = 1..(Len(l) + Len(es))
    BY LikeConcat DEF Of
<1>5. ASSUME NEW i \in DOMAIN (l \o es)
      PROVE  Counted((l \o es)[i])
    <2>1. i \in 1..Len(l) \/ (i - Len(l) \in 1..Len(es) /\ Len(l) + (i - Len(l)) = i)
        BY <1>1
    <2> QED BY <1>1, <2>1 DEF Of, Legal
<1> SUFFICES ASSUME NEW i \in DOMAIN (l \o es), (l \o es)[i].t = "offload"
             PROVE  (l \o es)[i].v \in 1..(i - 1) /\ (l \o es)[(l \o es)[i].v].t = "input"
    BY <1>5 DEF Legal
<1>2. CASE i \in 1..Len(l)
    <2>1. (l \o es)[i] = l[i] /\ l[i].t = "offload"
        BY <1>1, <1>2
    <2>2. l[i].v \in 1..(i - 1) /\ l[l[i].v].t = "input" /\ l[i].v \in 1..Len(l)
        BY <1>1, <1>2, <2>1 DEF Legal
    <2> QED BY <1>1, <2>1, <2>2
<1>3. CASE i - Len(l) \in 1..Len(es) /\ Len(l) + (i - Len(l)) = i
    BY <1>1, <1>3 DEF Of
<1> QED BY <1>1, <1>2, <1>3

(* Such events keep a session folded. *)
LEMMA PutAllPlain ==
    ASSUME NEW s, NEW es, NEW types, Folded(s), Of(es, types), "offload" \notin types
    PROVE  /\ Folded(PutAll(s, es)) /\ Grown(s, PutAll(s, es))
           /\ PutAll(s, es).log = s.log \o es
<1>1. SeqLike(s.log) /\ Legal(s.log) /\ SeqLike(es)
    BY DEF Folded, SeqLike, Of
<1>2. Legal(s.log \o es)
    BY <1>1, LegalPlain
<1> QED BY <1>1, <1>2, PutAllFolds

(* Brackets: events of other types leave one as it is ... *)
LEMMA StandsOn ==
    ASSUME NEW l, NEW es, NEW types, NEW type, NEW ends, SeqLike(l), Of(es, types),
           type \notin types, types \cap ends = {}
    PROVE  Stands(l \o es, type, ends) <=> Stands(l, type, ends)
<1>1. PICK m : m = l \o es OBVIOUS
<1>2. /\ \A i \in 1..Len(l) : m[i] = l[i]
      /\ \A i \in 1..Len(es) : m[Len(l) + i] = es[i]
      /\ Len(l) \in Nat /\ Len(es) \in Nat
      /\ DOMAIN l = 1..Len(l) /\ DOMAIN m = 1..(Len(l) + Len(es))
    BY <1>1, LikeConcat DEF Of
<1>3. ASSUME NEW i \in DOMAIN m
      PROVE  i \in DOMAIN l \/ m[i].t \in types
    <2>1. i \in DOMAIN l \/ (i - Len(l) \in 1..Len(es) /\ Len(l) + (i - Len(l)) = i)
        BY <1>2
    <2> QED BY <1>2, <2>1 DEF Of
<1>4. \A i \in DOMAIN l : i \in DOMAIN m /\ m[i] = l[i]
    BY <1>2
<1>5. ASSUME Stands(l, type, ends) PROVE Stands(m, type, ends)
    BY <1>3, <1>4, <1>5 DEF Stands
<1>6. ASSUME Stands(m, type, ends) PROVE Stands(l, type, ends)
    BY <1>3, <1>4, <1>6 DEF Stands
<1> QED BY <1>1, <1>5, <1>6

(* ... an end closes it ... *)
LEMMA StandsEnded ==
    ASSUME NEW l, NEW es, NEW types, NEW type, NEW ends, SeqLike(l), Of(es, types),
           type \notin types, Len(es) > 0, es[Len(es)].t \in ends
    PROVE  ~ Stands(l \o es, type, ends)
<1>1. PICK m : m = l \o es OBVIOUS
<1>2. /\ \A i \in 1..Len(l) : m[i] = l[i]
      /\ \A i \in 1..Len(es) : m[Len(l) + i] = es[i]
      /\ Len(l) \in Nat /\ Len(es) \in Nat
      /\ DOMAIN l = 1..Len(l) /\ DOMAIN m = 1..(Len(l) + Len(es))
    BY <1>1, LikeConcat DEF Of
<1>3. ASSUME NEW i \in DOMAIN m, m[i].t = type
      PROVE  i \in DOMAIN l
    <2>1. i \in DOMAIN l \/ (i - Len(l) \in 1..Len(es) /\ Len(l) + (i - Len(l)) = i)
        BY <1>2
    <2> QED BY <1>2, <1>3, <2>1 DEF Of
<1>4. /\ Len(l) + Len(es) \in DOMAIN m /\ m[Len(l) + Len(es)].t \in ends
      /\ \A i \in DOMAIN l : i < Len(l) + Len(es)
    <2>1. Len(es) \in 1..Len(es)
        BY <1>2
    <2> QED BY <1>2, <2>1
<1> QED BY <1>1, <1>3, <1>4 DEF Stands

(* ... and a start opens it. *)
LEMMA StandsBegun ==
    ASSUME NEW l, NEW e, NEW ends, SeqLike(l), Counted(e), e.t \notin ends
    PROVE  Stands(l \o <<e>>, e.t, ends)
<1>1. PICK m : m = l \o <<e>> OBVIOUS
<1>2. SeqLike(<<e>>) /\ Len(<<e>>) = 1 /\ <<e>>[1] = e
    <2>1. Of(<<e>>, {e.t}) /\ Len(<<e>>) = 1 /\ <<e>>[1] = e
        BY OfOne
    <2> QED BY <2>1 DEF Of
<1>3. m[Len(l) + 1] = e /\ DOMAIN m = 1..(Len(l) + 1) /\ Len(l) \in Nat
    BY <1>1, <1>2, LikeConcat
<1>4. Len(l) + 1 \in DOMAIN m /\ \A j \in DOMAIN m : ~(Len(l) + 1 < j)
    BY <1>3
<1> QED BY <1>1, <1>3, <1>4 DEF Stands

-----------------------------------------------------------------------------
(* Messages and their cache. *)

(* What nodes tell depends on their events, and on which are offloaded. *)
LEMMA MessagesSame ==
    ASSUME NEW s, NEW t, NEW D, NEW nodes \in Seq(D),
           D \subseteq DOMAIN s.log, D \subseteq DOMAIN t.log,
           \A n \in D : s.log[n] = t.log[n] /\ (n \in s.offloaded <=> n \in t.offloaded)
    PROVE  Messages(s, nodes) = Messages(t, nodes)
<1>1. \A n \in D : n \in Audible(s) <=> n \in Audible(t)
    BY DEF Audible, Silent
<1>2. Sift(nodes, Audible(s)) = Sift(nodes, Audible(t))
    BY <1>1, SiftSame
<1>3. Sift(nodes, Audible(s)) \in Seq(D \cap Audible(s))
    BY SiftType
<1>4. PICK heard : heard = Sift(nodes, Audible(s)) OBVIOUS
<1>5. \A i \in DOMAIN heard : heard[i] \in D
    BY <1>3, <1>4
<1>6. \A i \in DOMAIN heard : Message(s, heard[i]) = Message(t, heard[i])
    BY <1>5 DEF Message
<1>7. Messages(s, nodes) = [i \in DOMAIN heard |-> Message(s, heard[i])]
    BY <1>4 DEF Messages
<1>8. Messages(t, nodes) = [i \in DOMAIN heard |-> Message(t, heard[i])]
    BY <1>2, <1>4 DEF Messages
<1> QED BY <1>6, <1>7, <1>8

(* Messages are a sequence. *)
LEMMA MessagesLike ==
    ASSUME NEW s, NEW D, NEW nodes \in Seq(D)
    PROVE  /\ SeqLike(Messages(s, nodes))
           /\ Len(Messages(s, nodes)) = Len(Sift(nodes, Audible(s)))
           /\ \A i \in 1..Len(Messages(s, nodes)) :
                 Messages(s, nodes)[i] = Message(s, Sift(nodes, Audible(s))[i])
<1>1. Sift(nodes, Audible(s)) \in Seq(D \cap Audible(s))
    BY SiftType
<1>2. PICK heard : heard = Sift(nodes, Audible(s)) OBVIOUS
<1>3. DOMAIN heard = 1..Len(heard) /\ Len(heard) \in Nat
    BY <1>1, <1>2
<1>4. PICK m : m = Messages(s, nodes) OBVIOUS
<1>5. m = [i \in 1..Len(heard) |-> Message(s, heard[i])]
    BY <1>2, <1>3, <1>4 DEF Messages
<1> DEFINE S == {Message(s, heard[i]) : i \in 1..Len(heard)}
<1>6. m \in [1..Len(heard) -> S] /\ \A i \in 1..Len(heard) : m[i] = Message(s, heard[i])
    BY <1>5
<1> HIDE DEF S
<1>7. m \in Seq(S) /\ Len(m) = Len(heard)
    BY <1>3, <1>6
<1> QED BY <1>2, <1>4, <1>6, <1>7, LikeSeq

(* Messages go part by part. *)
LEMMA MessagesJoin ==
    ASSUME NEW s, NEW D, NEW a \in Seq(D), NEW b \in Seq(D)
    PROVE  Messages(s, a \o b) = Messages(s, a) \o Messages(s, b)
<1>0. Sift(a \o b, Audible(s)) = Sift(a, Audible(s)) \o Sift(b, Audible(s))
    <2>1. \A chosen : Sift(a \o b, chosen) = Sift(a, chosen) \o Sift(b, chosen)
        BY SiftJoin, SMTT(30)
    <2> QED BY <2>1
<1>1. PICK f \in Seq(D) : f = Sift(a, Audible(s))
    <2>1. Sift(a, Audible(s)) \in Seq(D \cap Audible(s))
        BY SiftType
    <2>2. Sift(a, Audible(s)) \in Seq(D)
        BY <2>1
    <2> QED BY <2>2
<1>2. PICK g \in Seq(D) : g = Sift(b, Audible(s))
    <2>1. Sift(b, Audible(s)) \in Seq(D \cap Audible(s))
        BY SiftType
    <2>2. PICK g : g = Sift(b, Audible(s)) OBVIOUS
    <2>3. g \in Seq(D \cap Audible(s))
        BY <2>1, <2>2
    <2>4. g \in Seq(D)
        BY <2>3
    <2> QED BY <2>2, <2>4
<1>3. Sift(a \o b, Audible(s)) = f \o g
    BY <1>0, <1>1, <1>2
<1>4. PICK p : p = Messages(s, a) OBVIOUS
<1>5. PICK q : q = Messages(s, b) OBVIOUS
<1>6. PICK r : r = Messages(s, a \o b) OBVIOUS
<1>7. /\ SeqLike(p) /\ Len(p) = Len(f) /\ \A i \in 1..Len(p) : p[i] = Message(s, f[i])
      /\ SeqLike(q) /\ Len(q) = Len(g) /\ \A i \in 1..Len(q) : q[i] = Message(s, g[i])
    BY <1>1, <1>2, <1>4, <1>5, MessagesLike
<1>8. a \o b \in Seq(D) OBVIOUS
<1>9. SeqLike(r) /\ Len(r) = Len(f \o g) /\ \A i \in 1..Len(r) : r[i] = Message(s, (f \o g)[i])
    BY <1>3, <1>6, <1>8, MessagesLike
<1>10. /\ Len(f) \in Nat /\ Len(g) \in Nat /\ Len(f \o g) = Len(f) + Len(g)
       /\ \A i \in 1..Len(f) : (f \o g)[i] = f[i]
       /\ \A i \in 1..Len(g) : (f \o g)[Len(f) + i] = g[i] OBVIOUS
<1>11. /\ SeqLike(p \o q) /\ Len(p \o q) = Len(p) + Len(q)
       /\ \A i \in 1..Len(p) : (p \o q)[i] = p[i]
       /\ \A i \in 1..Len(q) : (p \o q)[Len(p) + i] = q[i]
    <2>1. SeqLike(p) /\ SeqLike(q)
        BY <1>7
    <2> QED BY <2>1, LikeConcat
<1>12. ASSUME NEW i \in 1..Len(r)
       PROVE  r[i] = (p \o q)[i]
    <2>1. CASE i \in 1..Len(f)
        BY <1>7, <1>9, <1>10, <1>11, <2>1
    <2>2. CASE i - Len(f) \in 1..Len(g) /\ Len(f) + (i - Len(f)) = i
        <3>1. PICK j \in 1..Len(g) : i = Len(f) + j
            BY <2>2
        <3>2. r[i] = Message(s, g[j]) /\ (p \o q)[i] = q[j] /\ q[j] = Message(s, g[j])
            BY <1>7, <1>9, <1>10, <1>11, <3>1
        <3> QED BY <3>2
    <2>3. Len(r) = Len(f) + Len(g) /\ Len(f) \in Nat /\ Len(g) \in Nat
        BY <1>9, <1>10
    <2>4. i \in 1..Len(f) \/ (i - Len(f) \in 1..Len(g) /\ Len(f) + (i - Len(f)) = i)
        BY <2>3
    <2> QED BY <2>1, <2>2, <2>4
<1>13. Len(r) = Len(p \o q)
    BY <1>7, <1>9, <1>10, <1>11
<1> QED BY <1>4, <1>5, <1>6, <1>9, <1>11, <1>12, <1>13, SameSeq

(* A first part of the surface tells the same as long as content only grows. *)
LEMMA DerivedOn ==
    ASSUME NEW s, NEW t, NEW cache, Folded(s), Folded(t), Grown(s, t), DerivedFor(cache, s)
    PROVE  DerivedFor(cache, t)
<1>1. /\ s.contents \in Nat /\ t.contents \in Nat /\ s.contents <= t.contents
      /\ cache.generation \in 0..s.contents
    BY DEF Folded, Grown, DerivedFor
<1>2. cache.generation \in 0..t.contents
    BY <1>1
<1>3. ASSUME cache.generation = t.contents
      PROVE  /\ cache.upto \in 0..Len(t.nodes)
             /\ cache.messages = Messages(t, SubSeq(t.nodes, 1, cache.upto))
    <2>1. cache.generation = s.contents /\ s.contents = t.contents
        BY <1>1, <1>3
    <2>2. s.offloaded = t.offloaded /\ Leads(s.nodes, t.nodes) /\ Leads(s.log, t.log)
        BY <2>1 DEF Grown
    <2>3. PICK u : u = cache.upto OBVIOUS
    <2>4. u \in 0..Len(s.nodes) /\ cache.messages = Messages(s, SubSeq(s.nodes, 1, u))
        BY <2>1, <2>3 DEF DerivedFor
    <2> DEFINE D == DOMAIN s.log
    <2>5. s.nodes \in Seq(D) /\ t.nodes \in Seq(DOMAIN t.log)
        BY DEF Folded
    <2>6. D \subseteq DOMAIN t.log /\ \A n \in D : s.log[n] = t.log[n]
        <3>1. SeqLike(s.log) /\ SeqLike(t.log)
            BY DEF Folded, SeqLike
        <3>2. /\ DOMAIN s.log = 1..Len(s.log) /\ DOMAIN t.log = 1..Len(t.log)
              /\ Len(s.log) \in Nat /\ Len(t.log) \in Nat
            BY <3>1, LikeSeq DEF SeqLike
        <3> QED BY <2>2, <3>2 DEF Leads
    <2> HIDE DEF D
    <2>7. u \in 0..Len(t.nodes) /\ \A i \in 1..u : s.nodes[i] = t.nodes[i]
        BY <2>2, <2>4, <2>5 DEF Leads
    <2>8. SubSeq(s.nodes, 1, u) \in Seq(D) /\ SubSeq(s.nodes, 1, u) = SubSeq(t.nodes, 1, u)
        BY <2>4, <2>5, <2>7
    <2>9. Messages(s, SubSeq(s.nodes, 1, u)) = Messages(t, SubSeq(s.nodes, 1, u))
        <3>1. D \subseteq DOMAIN s.log
            BY DEF D
        <3>2. PICK q \in Seq(D) : q = SubSeq(s.nodes, 1, u)
            BY <2>8
        <3>3. \A n \in D : s.log[n] = t.log[n] /\ (n \in s.offloaded <=> n \in t.offloaded)
            BY <2>2, <2>6
        <3>4. Messages(s, q) = Messages(t, q)
            BY <2>6, <3>1, <3>3, MessagesSame
        <3> QED BY <3>2, <3>4
    <2> QED BY <2>3, <2>4, <2>7, <2>8, <2>9
<1> QED BY <1>2, <1>3 DEF DerivedFor

(* No nodes tell no messages. *)
LEMMA MessagesNone ==
    ASSUME NEW s
    PROVE  Messages(s, <<>>) = <<>>
<1>1. Sift(<<>>, Audible(s)) = <<>>
    BY SiftNone
<1>2. DOMAIN (<<>>) = {} OBVIOUS
<1>3. SeqLike(Messages(s, <<>>)) /\ Len(Messages(s, <<>>)) = 0
    <2>1. <<>> \in Seq({}) OBVIOUS
    <2>2. /\ SeqLike(Messages(s, <<>>))
          /\ Len(Messages(s, <<>>)) = Len(Sift(<<>>, Audible(s)))
        BY <2>1, MessagesLike
    <2> QED BY <1>1, <2>2
<1> QED BY <1>3 DEF SeqLike

(* A sequence is its two parts. *)
LEMMA SplitSeq ==
    ASSUME NEW M, NEW q \in Seq(M), NEW u \in 0..Len(q)
    PROVE  SubSeq(q, 1, u) \o SubSeq(q, u + 1, Len(q)) = q
<1>1. PICK a : a = SubSeq(q, 1, u) OBVIOUS
<1>2. PICK b : b = SubSeq(q, u + 1, Len(q)) OBVIOUS
<1>3. a \in Seq(M) /\ Len(a) = u /\ \A i \in 1..u : a[i] = q[i]
    BY <1>1
<1>4. b \in Seq(M) /\ Len(b) = Len(q) - u /\ \A i \in 1..(Len(q) - u) : b[i] = q[u + i]
    BY <1>2, LastPart
<1>5. SeqLike(a) /\ SeqLike(b) /\ SeqLike(q) /\ Len(q) \in Nat
    BY <1>3, <1>4, LikeSeq
<1>6. PICK r : r = a \o b OBVIOUS
<1>7. /\ SeqLike(r) /\ Len(r) = Len(q)
      /\ \A i \in 1..u : r[i] = a[i]
      /\ \A i \in 1..(Len(q) - u) : r[u + i] = b[i]
    BY <1>3, <1>4, <1>5, <1>6, LikeConcat
<1>8. ASSUME NEW i \in 1..Len(r)
      PROVE  r[i] = q[i]
    <2>1. CASE i \in 1..u
        BY <1>3, <1>7, <2>1
    <2>2. CASE i - u \in 1..(Len(q) - u) /\ u + (i - u) = i
        <3>1. PICK j \in 1..(Len(q) - u) : i = u + j
            BY <2>2
        <3> QED BY <1>4, <1>7, <3>1
    <2> QED BY <1>5, <1>7, <2>1, <2>2
<1>9. r = q
    BY <1>5, <1>7, <1>8, SameSeq
<1> QED BY <1>1, <1>2, <1>6, <1>9

(* Whoever derives gets what the whole surface tells. *)
LEMMA DeriveAgrees ==
    ASSUME NEW s, NEW cache, Folded(s), DerivedFor(cache, s)
    PROVE  /\ Derive(cache, s).messages = Messages(s, s.nodes)
           /\ DerivedFor(Derive(cache, s), s)
<1> DEFINE D == DOMAIN s.log
<1>1. s.nodes \in Seq(D) /\ s.contents \in Nat
    BY DEF Folded
<1> HIDE DEF D
<1>2. PICK base : base = IF cache.generation = s.contents THEN cache ELSE NoDerived
    OBVIOUS
<1>3. /\ base.upto \in 0..Len(s.nodes)
      /\ base.messages = Messages(s, SubSeq(s.nodes, 1, base.upto))
    <2>1. CASE cache.generation = s.contents
        BY <1>2, <2>1 DEF DerivedFor
    <2>2. CASE cache.generation # s.contents
        <3>1. base.upto = 0 /\ base.messages = <<>>
            BY <1>2, <2>2 DEF NoDerived
        <3>2. SubSeq(s.nodes, 1, 0) = <<>> /\ 0 \in 0..Len(s.nodes)
            BY <1>1
        <3> QED BY <3>1, <3>2, MessagesNone
    <2> QED BY <2>1, <2>2
<1>4. PICK u \in 0..Len(s.nodes) : u = base.upto
    BY <1>3
<1> DEFINE a == SubSeq(s.nodes, 1, u)
           b == SubSeq(s.nodes, u + 1, Len(s.nodes))
<1>5. a \in Seq(D) /\ b \in Seq(D) /\ a \o b = s.nodes
    <2>1. PICK q \in Seq(D) : q = s.nodes
        BY <1>1
    <2>2. SubSeq(q, 1, u) \in Seq(D) /\ SubSeq(q, u + 1, Len(q)) \in Seq(D)
        BY <2>1
    <2>3. SubSeq(q, 1, u) \o SubSeq(q, u + 1, Len(q)) = q
        BY <2>1, SplitSeq
    <2> QED BY <2>1, <2>2, <2>3
<1> HIDE DEF a, b
<1>6. Messages(s, a \o b) = Messages(s, a) \o Messages(s, b)
    BY <1>5, MessagesJoin
<1>7. Derive(cache, s) = [generation |-> s.contents, upto |-> Len(s.nodes),
                          messages |-> base.messages \o Messages(s, b)]
    BY <1>2, <1>4 DEF Derive, b
<1>8. base.messages = Messages(s, a)
    BY <1>3, <1>4 DEF a
<1>9. Messages(s, s.nodes) = base.messages \o Messages(s, b)
    BY <1>5, <1>6, <1>8
<1>10. Derive(cache, s).messages = Messages(s, s.nodes)
    BY <1>7, <1>9
<1>11. SubSeq(s.nodes, 1, Len(s.nodes)) = s.nodes /\ Len(s.nodes) \in 0..Len(s.nodes)
    BY <1>1
<1>12. Derive(cache, s).generation = s.contents /\ Derive(cache, s).upto = Len(s.nodes)
    BY <1>7
<1>13. DerivedFor(Derive(cache, s), s)
    <2>1. PICK c : c = Derive(cache, s) OBVIOUS
    <2>2. c.generation = s.contents /\ c.upto = Len(s.nodes) /\ c.messages = Messages(s, s.nodes)
        BY <1>10, <1>12, <2>1
    <2>3. c.generation \in 0..s.contents
        BY <1>1, <2>2
    <2>4. DerivedFor(c, s)
        BY <1>11, <2>2, <2>3 DEF DerivedFor
    <2> QED BY <2>1, <2>4
<1> QED BY <1>10, <1>13

-----------------------------------------------------------------------------
(* Tool calls without a result. *)

(* f[k] is the number behind the first k nodes. *)
Sums(s, n, f) ==
    /\ f = [k \in 0..n |-> f[k]] /\ f[0] = 0
    /\ \A k \in 1..n : f[k] = f[k - 1] + Delta(s, s.nodes[k])

(* The numbers of open calls behind the first nodes exist. *)
LEMMA SumsExist ==
    ASSUME NEW s, NEW n \in Nat
    PROVE  \E f : Sums(s, n, f)
<1> DEFINE S == {m \in 0..n : \E f : Sums(s, m, f)}
<1>1. 0 \in S
    <2> DEFINE f == [k \in 0..0 |-> 0]
    <2>1. Sums(s, 0, f)
        BY DEF Sums
    <2> QED BY <2>1
<1>2. ASSUME NEW m \in 0..(n - 1), m \in S
      PROVE  m + 1 \in S
    <2>1. PICK f : Sums(s, m, f)
        BY <1>2
    <2> DEFINE next == f[m] + Delta(s, s.nodes[m + 1])
               g == [k \in 0..(m + 1) |-> IF k = m + 1 THEN next ELSE f[k]]
    <2>2. /\ g = [k \in 0..(m + 1) |-> g[k]]
          /\ g[m + 1] = next /\ \A k \in 0..m : g[k] = f[k] OBVIOUS
    <2> HIDE DEF g
    <2>3. \A k \in 1..(m + 1) : k = m + 1 \/ (k \in 1..m /\ k \in 0..m /\ k - 1 \in 0..m)
        OBVIOUS
    <2>4. g[0] = 0 /\ g[m] = f[m] /\ (m + 1) - 1 = m
        <3>1. 0 \in 0..m /\ m \in 0..m /\ (m + 1) - 1 = m OBVIOUS
        <3>2. f[0] = 0
            BY <2>1 DEF Sums
        <3> QED BY <3>1, <3>2, <2>2
    <2>5. ASSUME NEW k \in 1..(m + 1)
          PROVE  g[k] = g[k - 1] + Delta(s, s.nodes[k])
        <3>1. CASE k = m + 1
            BY <3>1, <2>2, <2>4
        <3>2. CASE k \in 1..m /\ k \in 0..m /\ k - 1 \in 0..m
            BY <3>2, <2>1, <2>2 DEF Sums
        <3> QED BY <3>1, <3>2, <2>3
    <2>6. Sums(s, m + 1, g)
        BY <2>2, <2>4, <2>5 DEF Sums
    <2> QED BY <2>6
<1>3. S = 0..n
    <2> HIDE DEF S
    <2>1. S \in SUBSET (0..n)
        BY DEF S
    <2> QED BY <1>1, <1>2, <2>1, UpTo
<1> QED BY <1>3

(* Unanswered is such a number. *)
LEMMA UnansweredSums ==
    ASSUME NEW s, NEW n \in Nat
    PROVE  \E f : Sums(s, n, f) /\ Unanswered(s, n) = f[n]
<1> DEFINE step(f) == [k \in 0..n |-> IF k = 0 THEN 0 ELSE f[k - 1] + Delta(s, s.nodes[k])]
           F == CHOOSE f : f = step(f)
<1>1. PICK g : Sums(s, n, g)
    BY SumsExist
<1>2. g = step(g)
    <2>1. g = [k \in 0..n |-> g[k]]
        BY <1>1 DEF Sums
    <2>2. \A k \in 0..n : g[k] = IF k = 0 THEN 0 ELSE g[k - 1] + Delta(s, s.nodes[k])
        <3>1. \A k \in 0..n : k = 0 \/ k \in 1..n OBVIOUS
        <3>2. \A k \in 1..n : g[k] = g[k - 1] + Delta(s, s.nodes[k])
            BY <1>1 DEF Sums
        <3>3. g[0] = 0
            BY <1>1 DEF Sums
        <3> QED BY <3>1, <3>2, <3>3
    <2>3. [k \in 0..n |-> g[k]] = step(g)
        BY <2>2
    <2> QED BY <2>1, <2>3
<1>3. F = step(F)
    <2> HIDE DEF step
    <2> QED BY <1>2
<1>4. Unanswered(s, n) = F[n]
    BY DEF Unanswered
<1> HIDE DEF F
<1>5. \A k \in 0..n : F[k] = IF k = 0 THEN 0 ELSE F[k - 1] + Delta(s, s.nodes[k])
    BY <1>3
<1>6. F = [k \in 0..n |-> F[k]]
    BY <1>3
<1>7. \A k \in 1..n : k # 0 /\ k \in 0..n OBVIOUS
<1>8. F[0] = 0
    <2>1. 0 \in 0..n OBVIOUS
    <2> QED BY <1>5, <2>1
<1>9. \A k \in 1..n : F[k] = F[k - 1] + Delta(s, s.nodes[k])
    BY <1>5, <1>7
<1>10. Sums(s, n, F)
    BY <1>6, <1>8, <1>9 DEF Sums
<1> QED BY <1>4, <1>10

(* Sums f over m nodes and g over n, of which the first m count the same. *)
SameSums(s, t, m, n, f, g) ==
    /\ m \in Nat /\ n \in Nat /\ m <= n
    /\ Sums(s, m, f) /\ Sums(t, n, g)
    /\ \A k \in 1..m : Delta(s, s.nodes[k]) = Delta(t, t.nodes[k])

(* They are equal there. *)
LEMMA SumsSame ==
    ASSUME NEW s, NEW t, NEW m, NEW n, NEW f, NEW g, SameSums(s, t, m, n, f, g)
    PROVE  f[m] = g[m]
<1>0. /\ m \in Nat /\ n \in Nat /\ m <= n /\ Sums(s, m, f) /\ Sums(t, n, g)
      /\ \A k \in 1..m : Delta(s, s.nodes[k]) = Delta(t, t.nodes[k])
    BY DEF SameSums
<1> DEFINE T == {k \in 0..m : f[k] = g[k]}
<1>1. 0 \in T
    BY <1>0 DEF Sums
<1>2. ASSUME NEW k \in 0..(m - 1), k \in T
      PROVE  k + 1 \in T
    <2>1. k + 1 \in 1..m /\ (k + 1) - 1 = k /\ k + 1 \in 0..m /\ k + 1 \in 1..n
        BY <1>0
    <2>2. f[k + 1] = f[k] + Delta(s, s.nodes[k + 1])
        BY <1>0, <2>1 DEF Sums
    <2>3. g[k + 1] = g[k] + Delta(t, t.nodes[k + 1])
        BY <1>0, <2>1 DEF Sums
    <2> QED BY <1>0, <1>2, <2>1, <2>2, <2>3
<1>3. T = 0..m
    <2> HIDE DEF T
    <2>1. T \in SUBSET (0..m)
        BY DEF T
    <2> QED BY <1>0, <1>1, <1>2, <2>1, UpTo
<1> QED BY <1>0, <1>3

(* No call is open before the first node. *)
LEMMA UnansweredNone ==
    ASSUME NEW s
    PROVE  Unanswered(s, 0) = 0
<1>1. PICK f : Sums(s, 0, f) /\ Unanswered(s, 0) = f[0]
    BY UnansweredSums
<1> QED BY <1>1 DEF Sums

(* One node more. *)
LEMMA UnansweredNext ==
    ASSUME NEW s, NEW n \in Nat
    PROVE  Unanswered(s, n + 1) = Unanswered(s, n) + Delta(s, s.nodes[n + 1])
<1>1. PICK f : Sums(s, n, f) /\ Unanswered(s, n) = f[n]
    BY UnansweredSums
<1>2. PICK m \in Nat : m = n + 1 OBVIOUS
<1>3. PICK g : Sums(s, m, g) /\ Unanswered(s, m) = g[m]
    BY UnansweredSums
<1>4. f[n] = g[n]
    <2>1. n <= m
        BY <1>2
    <2>2. SameSums(s, s, n, m, f, g)
        BY <1>1, <1>3, <2>1 DEF SameSums
    <2> QED BY <2>2, SumsSame
<1>5. g[n + 1] = g[n] + Delta(s, s.nodes[n + 1])
    <2>1. n + 1 \in 1..m /\ (n + 1) - 1 = n
        BY <1>2
    <2> QED BY <1>3, <2>1 DEF Sums
<1> QED BY <1>1, <1>2, <1>3, <1>4, <1>5

(* The same nodes of the same log. *)
LEMMA UnansweredSame ==
    ASSUME NEW s, NEW t, NEW n \in Nat,
           \A k \in 1..n : Delta(s, s.nodes[k]) = Delta(t, t.nodes[k])
    PROVE  Unanswered(s, n) = Unanswered(t, n)
<1>1. PICK f : Sums(s, n, f) /\ Unanswered(s, n) = f[n]
    BY UnansweredSums
<1>2. PICK g : Sums(t, n, g) /\ Unanswered(t, n) = g[n]
    BY UnansweredSums
<1>3. f[n] = g[n]
    <2>1. n <= n OBVIOUS
    <2>2. SameSums(s, t, n, n, f, g)
        BY <1>1, <1>2, <2>1 DEF SameSums
    <2> QED BY <2>2, SumsSame
<1> QED BY <1>1, <1>2, <1>3

-----------------------------------------------------------------------------
(* The balance of tool calls. *)

(* f[k] is the cache behind node k, from node m on. *)
Pairs(base, s, m, n, f) ==
    /\ f = [k \in m..n |-> f[k]] /\ f[m] = base
    /\ \A k \in (m + 1)..n : f[k] = Paired(f[k - 1], s, s.nodes[k])

(* There are such caches. *)
LEMMA PairsExist ==
    ASSUME NEW base, NEW s, NEW m \in Nat, NEW n \in Nat, m <= n
    PROVE  \E f : Pairs(base, s, m, n, f)
<1> DEFINE S == {i \in m..n : \E f : Pairs(base, s, m, i, f)}
<1>1. m \in S
    <2> DEFINE f == [k \in m..m |-> base]
    <2>1. Pairs(base, s, m, m, f)
        <3>1. (m + 1)..m = {} /\ m \in m..m OBVIOUS
        <3>2. f = [k \in m..m |-> f[k]] /\ f[m] = base
            BY <3>1
        <3> QED BY <3>1, <3>2 DEF Pairs
    <2> QED BY <2>1
<1>2. ASSUME NEW i \in m..(n - 1), i \in S
      PROVE  i + 1 \in S
    <2>1. PICK f : Pairs(base, s, m, i, f)
        BY <1>2
    <2> DEFINE next == Paired(f[i], s, s.nodes[i + 1])
               g == [k \in m..(i + 1) |-> IF k = i + 1 THEN next ELSE f[k]]
    <2>2. /\ g = [k \in m..(i + 1) |-> g[k]]
          /\ g[i + 1] = next /\ \A k \in m..i : g[k] = f[k] OBVIOUS
    <2> HIDE DEF g
    <2>3. \A k \in (m + 1)..(i + 1) :
             k = i + 1 \/ (k \in (m + 1)..i /\ k \in m..i /\ k - 1 \in m..i) OBVIOUS
    <2>4. g[m] = base /\ g[i] = f[i] /\ (i + 1) - 1 = i
        <3>1. m \in m..i /\ i \in m..i /\ (i + 1) - 1 = i OBVIOUS
        <3>2. f[m] = base
            BY <2>1 DEF Pairs
        <3> QED BY <3>1, <3>2, <2>2
    <2>5. ASSUME NEW k \in (m + 1)..(i + 1)
          PROVE  g[k] = Paired(g[k - 1], s, s.nodes[k])
        <3>1. CASE k = i + 1
            BY <3>1, <2>2, <2>4
        <3>2. CASE k \in (m + 1)..i /\ k \in m..i /\ k - 1 \in m..i
            BY <3>2, <2>1, <2>2 DEF Pairs
        <3> QED BY <3>1, <3>2, <2>3
    <2>6. Pairs(base, s, m, i + 1, g)
        BY <2>2, <2>4, <2>5 DEF Pairs
    <2> QED BY <2>6
<1>3. S = m..n
    <2> HIDE DEF S
    <2>1. S \in SUBSET (m..n)
        BY DEF S
    <2> QED BY <1>1, <1>2, <2>1, UpTo
<1> QED BY <1>3

(* PairFrom is the last of them. *)
LEMMA PairFromSteps ==
    ASSUME NEW base, NEW s, Len(base.seqs) \in Nat, Len(s.nodes) \in Nat,
           Len(base.seqs) <= Len(s.nodes)
    PROVE  \E f : /\ Pairs(base, s, Len(base.seqs), Len(s.nodes), f)
                  /\ PairFrom(base, s) = f[Len(s.nodes)]
<1> DEFINE m == Len(base.seqs)
           n == Len(s.nodes)
           step(f) == [k \in m..n |->
               IF k = m THEN base
               ELSE CHOOSE p \in {Paired(d, s, s.nodes[k]) : d \in {f[k - 1]}} : TRUE]
           F == CHOOSE f : f = step(f)
<1>0. ASSUME NEW d, NEW k
      PROVE  (CHOOSE p \in {Paired(d2, s, s.nodes[k]) : d2 \in {d}} : TRUE) = Paired(d, s, s.nodes[k])
    <2>1. {Paired(d2, s, s.nodes[k]) : d2 \in {d}} = {Paired(d, s, s.nodes[k])} OBVIOUS
    <2> QED BY <2>1
<1>1. PICK g : Pairs(base, s, m, n, g)
    BY PairsExist
<1>2. g = step(g)
    <2>1. \A k \in m..n : g[k] = step(g)[k]
        <3> SUFFICES ASSUME NEW k \in m..n PROVE g[k] = step(g)[k] OBVIOUS
        <3>1. CASE k = m
            BY <3>1, <1>1 DEF Pairs
        <3>2. CASE k \in (m + 1)..n
            <4>1. g[k] = Paired(g[k - 1], s, s.nodes[k])
                BY <3>2, <1>1 DEF Pairs
            <4>2. step(g)[k] = CHOOSE p \in {Paired(d, s, s.nodes[k]) : d \in {g[k - 1]}} : TRUE
                BY <3>2
            <4> QED BY <4>1, <4>2, <1>0
        <3> QED BY <3>1, <3>2
    <2>2. g = [k \in m..n |-> g[k]]
        BY <1>1 DEF Pairs
    <2>3. step(g) = [k \in m..n |-> step(g)[k]] OBVIOUS
    <2> HIDE DEF step, n, m
    <2>4. [k \in m..n |-> g[k]] = [k \in m..n |-> step(g)[k]]
        BY <2>1
    <2> QED BY <2>2, <2>3, <2>4
<1>3. F = step(F)
    <2> HIDE DEF step
    <2> QED BY <1>2
<1>4. PairFrom(base, s) = F[n]
    BY DEF PairFrom
<1> HIDE DEF F
<1>5. \A k \in m..n : F[k] = IF k = m THEN base
            ELSE CHOOSE p \in {Paired(d, s, s.nodes[k]) : d \in {F[k - 1]}} : TRUE
    BY <1>3
<1>6. F = [k \in m..n |-> F[k]]
    BY <1>3
<1>7. F[m] = base
    BY <1>5
<1>8. ASSUME NEW k \in (m + 1)..n PROVE F[k] = Paired(F[k - 1], s, s.nodes[k])
    <2>1. F[k] = CHOOSE p \in {Paired(d, s, s.nodes[k]) : d \in {F[k - 1]}} : TRUE
        BY <1>5
    <2> QED BY <2>1, <1>0
<1>9. Pairs(base, s, m, n, F)
    BY <1>6, <1>7, <1>8 DEF Pairs
<1> QED BY <1>4, <1>9

(* What the numbers behind the first nodes say about balance. *)
Level(s, n) == [i \in 1..(n + 1) |-> Unanswered(s, i - 1) = 0]

(* One node more adds one place to the balance. *)
LEMMA LevelNext ==
    ASSUME NEW s, NEW n \in Nat
    PROVE  Append(Level(s, n), Unanswered(s, n + 1) = 0) = Level(s, n + 1)
<1>1. PICK a : a = Level(s, n) OBVIOUS
<1>2. PICK b : b = Level(s, n + 1) OBVIOUS
<1>3. a \in Seq(BOOLEAN) /\ Len(a) = n + 1 /\ \A i \in 1..(n + 1) : a[i] = (Unanswered(s, i - 1) = 0)
    BY <1>1 DEF Level
<1>4. b \in Seq(BOOLEAN) /\ Len(b) = n + 2 /\ \A i \in 1..(n + 2) : b[i] = (Unanswered(s, i - 1) = 0)
    BY <1>2 DEF Level
<1>5. PICK x \in BOOLEAN : x = (Unanswered(s, n + 1) = 0) OBVIOUS
<1>6. b[n + 2] = x
    <2>1. n + 2 \in 1..(n + 2) /\ (n + 2) - 1 = n + 1 OBVIOUS
    <2> QED BY <1>4, <1>5, <2>1
<1>7. \A i \in 1..(n + 1) : a[i] = b[i]
    BY <1>3, <1>4
<1>8. PICK c : c = Append(a, x) OBVIOUS
<1>9. c \in Seq(BOOLEAN) /\ Len(c) = n + 2 /\ c[n + 2] = x /\ \A i \in 1..(n + 1) : c[i] = a[i]
    BY <1>3, <1>8
<1>10. c = b
    BY <1>4, <1>6, <1>7, <1>9
<1> QED BY <1>1, <1>2, <1>5, <1>8, <1>10

(* One node more in the cache. *)
LEMMA BalanceNext ==
    ASSUME NEW s, NEW S, s.nodes \in Seq(S), NEW n \in Nat, n + 1 <= Len(s.nodes),
           NEW c, Balance(c, s, n)
    PROVE  /\ Balance(Paired(c, s, s.nodes[n + 1]), s, n + 1)
           /\ Paired(c, s, s.nodes[n + 1]).generation = c.generation
<1>1. PICK p : p = Paired(c, s, s.nodes[n + 1]) OBVIOUS
<1>2. /\ DOMAIN c = {"generation", "seqs", "open", "balanced"}
      /\ c.seqs = SubSeq(s.nodes, 1, n) /\ c.open = Unanswered(s, n) /\ c.balanced = Level(s, n)
    BY DEF Balance, NoPairing, Level
<1>3. PICK d : d = Delta(s, s.nodes[n + 1]) OBVIOUS
<1>4. p = [c EXCEPT !.seqs = Append(@, s.nodes[n + 1]), !.open = c.open + d,
                    !.balanced = Append(@, c.open + d = 0)]
    BY <1>1, <1>3 DEF Paired
<1>5. /\ DOMAIN p = DOMAIN c /\ p.generation = c.generation
      /\ p.seqs = Append(c.seqs, s.nodes[n + 1])
      /\ p.open = c.open + d
      /\ p.balanced = Append(c.balanced, c.open + d = 0)
    BY <1>2, <1>4
<1>6. Unanswered(s, n + 1) = c.open + d
    BY <1>2, <1>3, UnansweredNext
<1>7. p.balanced = Level(s, n + 1)
    <2>1. PICK u : u = c.open + d OBVIOUS
    <2>2. p.balanced = Append(Level(s, n), u = 0)
        BY <1>2, <1>5, <2>1, Zenon
    <2>3. Append(Level(s, n), u = 0) = Level(s, n + 1)
        <3>1. u = Unanswered(s, n + 1)
            BY <1>6, <2>1
        <3>2. Append(Level(s, n), Unanswered(s, n + 1) = 0) = Level(s, n + 1)
            BY LevelNext
        <3> QED BY <3>1, <3>2, Zenon
    <2> QED BY <2>2, <2>3
<1>8. p.seqs = SubSeq(s.nodes, 1, n + 1)
    <2>1. PICK q \in Seq(S) : q = s.nodes OBVIOUS
    <2>2. Append(SubSeq(q, 1, n), q[n + 1]) = SubSeq(q, 1, n + 1)
        BY <2>1
    <2> QED BY <1>2, <1>5, <2>1, <2>2
<1>9. n + 1 \in 0..Len(s.nodes) OBVIOUS
<1> QED BY <1>1, <1>2, <1>5, <1>6, <1>7, <1>8, <1>9 DEF Balance, NoPairing, Level

(* The empty cache is balanced before the first node. *)
LEMMA BalanceNone ==
    ASSUME NEW s, NEW S, s.nodes \in Seq(S), NEW g
    PROVE  Balance([NoPairing EXCEPT !.generation = g], s, 0)
<1>1. PICK c : c = [NoPairing EXCEPT !.generation = g] OBVIOUS
<1>2. /\ DOMAIN c = DOMAIN NoPairing /\ c.seqs = <<>> /\ c.open = 0 /\ c.balanced = <<TRUE>>
    BY <1>1 DEF NoPairing
<1>3. SubSeq(s.nodes, 1, 0) = <<>> /\ 0 \in 0..Len(s.nodes) OBVIOUS
<1>4. <<TRUE>> = [i \in 1..(0 + 1) |-> Unanswered(s, i - 1) = 0]
    <2>1. PICK b : b = [i \in 1..(0 + 1) |-> Unanswered(s, i - 1) = 0] OBVIOUS
    <2>2. b \in Seq(BOOLEAN) /\ Len(b) = 1 /\ b[1] = (Unanswered(s, 1 - 1) = 0)
        BY <2>1
    <2>3. Unanswered(s, 1 - 1) = 0
        BY UnansweredNone
    <2>4. b[1] = TRUE
        BY <2>2, <2>3
    <2>5. PICK d : d = <<TRUE>> OBVIOUS
    <2>6. d \in Seq(BOOLEAN) /\ Len(d) = 1 /\ d[1] = TRUE
        BY <2>5
    <2>7. d = b
        BY <2>2, <2>4, <2>6
    <2> QED BY <2>1, <2>5, <2>7
<1> QED BY <1>1, <1>2, <1>3, <1>4, UnansweredNone DEF Balance

(* Whoever looks for the balance gets that of the whole surface. *)
LEMMA PairAgrees ==
    ASSUME NEW s, NEW cache, Folded(s), PairedFor(cache, s)
    PROVE  /\ Pair(cache, s).balanced = Level(s, Len(s.nodes))
           /\ Balance(Pair(cache, s), s, Len(s.nodes))
           /\ PairedFor(Pair(cache, s), s)
<1> DEFINE D == DOMAIN s.log
           n == Len(s.nodes)
<1>1. s.nodes \in Seq(D) /\ s.replaces \in Nat /\ n \in Nat
    BY DEF Folded
<1>2. PICK stale : stale = (cache.generation # s.replaces \/ Len(cache.seqs) > Len(s.nodes))
    OBVIOUS
<1>3. PICK base : base = IF stale THEN [NoPairing EXCEPT !.generation = s.replaces] ELSE cache
    OBVIOUS
<1>4. Pair(cache, s) = PairFrom(base, s)
    BY <1>2, <1>3 DEF Pair
<1> HIDE DEF D
<1>5. Balance(base, s, Len(base.seqs)) /\ base.generation = s.replaces
    <2>1. CASE stale
        <3>1. Balance(base, s, 0)
            BY <1>1, <1>3, <2>1, BalanceNone
        <3>2. Len(base.seqs) = 0 /\ base.generation = s.replaces
            BY <1>3, <2>1 DEF NoPairing
        <3> QED BY <3>1, <3>2
    <2>2. CASE ~stale
        BY <1>2, <1>3, <2>2 DEF PairedFor
    <2> QED BY <2>1, <2>2
<1>6. PICK m \in 0..n : m = Len(base.seqs)
    BY <1>5 DEF Balance
<1>7. PICK f : Pairs(base, s, m, n, f) /\ PairFrom(base, s) = f[n]
    <2>1. m \in Nat /\ m <= n
        BY <1>1, <1>6
    <2> QED BY <1>1, <1>6, <2>1, PairFromSteps
<1> HIDE DEF n
<1> DEFINE T == {k \in m..n : Balance(f[k], s, k) /\ f[k].generation = s.replaces}
<1>8. m \in T
    <2>1. f[m] = base
        BY <1>7 DEF Pairs
    <2>2. m \in m..n
        BY <1>1, <1>6
    <2> QED BY <1>5, <1>6, <2>1, <2>2
<1>9. ASSUME NEW k \in m..(n - 1), k \in T
      PROVE  k + 1 \in T
    <2>1. k \in Nat /\ k + 1 \in (m + 1)..n /\ (k + 1) - 1 = k /\ k + 1 \in m..n /\ k + 1 <= n
        BY <1>1, <1>6
    <2>2. PICK c : c = f[k] OBVIOUS
    <2>3. f[k + 1] = Paired(c, s, s.nodes[k + 1])
        BY <1>7, <2>1, <2>2 DEF Pairs
    <2>4. Balance(c, s, k) /\ c.generation = s.replaces
        BY <1>9, <2>2
    <2>5. k + 1 <= Len(s.nodes)
        BY <2>1 DEF n
    <2>6. Balance(Paired(c, s, s.nodes[k + 1]), s, k + 1)
          /\ Paired(c, s, s.nodes[k + 1]).generation = c.generation
        BY <1>1, <2>1, <2>4, <2>5, BalanceNext
    <2> QED BY <2>1, <2>3, <2>4, <2>6
<1>10. T = m..n
    <2> HIDE DEF T
    <2>1. T \in SUBSET (m..n)
        BY DEF T
    <2>2. m \in Int /\ n \in Int /\ m <= n
        BY <1>1, <1>6
    <2> QED BY <1>8, <1>9, <2>1, <2>2, UpTo
<1>11. Balance(f[n], s, n) /\ f[n].generation = s.replaces
    <2>1. n \in T
        BY <1>1, <1>6, <1>10
    <2> QED BY <2>1
<1>12. PICK p : p = Pair(cache, s) OBVIOUS
<1>13. Balance(p, s, n) /\ p.generation = s.replaces
    BY <1>4, <1>7, <1>11, <1>12
<1>14. p.balanced = Level(s, n) /\ p.seqs = SubSeq(s.nodes, 1, n)
    BY <1>13 DEF Balance, Level
<1>15. Len(p.seqs) = n
    BY <1>1, <1>14 DEF n
<1>16. PairedFor(p, s)
    <2>1. p.generation \in -1..s.replaces
        BY <1>1, <1>13
    <2> QED BY <1>13, <1>15, <2>1 DEF PairedFor
<1> QED BY <1>12, <1>13, <1>14, <1>16 DEF n

(* The cache stays true as long as the surface only grows. *)
LEMMA PairedOn ==
    ASSUME NEW s, NEW t, NEW cache, Folded(s), Folded(t), Grown(s, t), PairedFor(cache, s)
    PROVE  PairedFor(cache, t)
<1>1. /\ s.replaces \in Nat /\ t.replaces \in Nat /\ s.replaces <= t.replaces
      /\ cache.generation \in -1..s.replaces
    BY DEF Folded, Grown, PairedFor
<1>2. cache.generation \in -1..t.replaces
    BY <1>1
<1>3. ASSUME cache.generation = t.replaces
      PROVE  Balance(cache, t, Len(cache.seqs))
    <2>1. cache.generation = s.replaces /\ s.replaces = t.replaces
        BY <1>1, <1>3
    <2>2. Leads(s.nodes, t.nodes) /\ Leads(s.log, t.log)
        BY <2>1 DEF Grown
    <2>3. Balance(cache, s, Len(cache.seqs))
        BY <2>1 DEF PairedFor
    <2>4. PICK n \in 0..Len(s.nodes) : n = Len(cache.seqs)
        BY <2>3 DEF Balance
    <2> DEFINE D == DOMAIN s.log
               E == DOMAIN t.log
    <2>5. s.nodes \in Seq(D) /\ t.nodes \in Seq(E)
        <3>1. s.nodes \in Seq(D)
            BY DEF Folded
        <3>2. t.nodes \in Seq(E)
            BY DEF Folded
        <3> QED BY <3>1, <3>2
    <2> HIDE DEF D, E
    <2>6. n \in 0..Len(t.nodes) /\ \A i \in 1..n : s.nodes[i] = t.nodes[i]
        BY <2>2, <2>4, <2>5 DEF Leads
    <2>7. SubSeq(s.nodes, 1, n) = SubSeq(t.nodes, 1, n)
        BY <2>4, <2>5, <2>6
    <2>8. \A k \in 1..n : Delta(s, s.nodes[k]) = Delta(t, t.nodes[k])
        <3>1. \A k \in 1..n : s.nodes[k] \in DOMAIN s.log
            BY <2>4, <2>5 DEF D
        <3>2. SeqLike(s.log)
            BY DEF Folded, SeqLike
        <3>3. DOMAIN s.log = 1..Len(s.log)
            BY <3>2, LikeSeq DEF SeqLike
        <3>4. \A k \in 1..n : s.log[s.nodes[k]] = t.log[t.nodes[k]]
            BY <2>2, <2>6, <3>1, <3>3 DEF Leads
        <3> QED BY <3>4 DEF Delta
    <2>9. ASSUME NEW k \in 0..n
          PROVE  Unanswered(s, k) = Unanswered(t, k)
        <3>1. k \in Nat /\ 1..k \subseteq 1..n OBVIOUS
        <3>2. \A i \in 1..k : Delta(s, s.nodes[i]) = Delta(t, t.nodes[i])
            BY <2>8, <3>1
        <3> QED BY <3>1, <3>2, UnansweredSame
    <2>10. [i \in 1..(n + 1) |-> Unanswered(s, i - 1) = 0] = [i \in 1..(n + 1) |-> Unanswered(t, i - 1) = 0]
        <3>1. \A i \in 1..(n + 1) : i - 1 \in 0..n
            BY <2>4
        <3>2. \A i \in 1..(n + 1) : Unanswered(s, i - 1) = Unanswered(t, i - 1)
            BY <2>9, <3>1
        <3> QED BY <3>2
    <2>11. Unanswered(s, n) = Unanswered(t, n)
        <3>1. n \in 0..n
            BY <2>4
        <3> QED BY <2>9, <3>1
    <2> QED BY <2>3, <2>4, <2>6, <2>7, <2>10, <2>11 DEF Balance
<1> QED BY <1>2, <1>3 DEF PairedFor

-----------------------------------------------------------------------------
(* Restored sessions. *)

(* What is appended to a concatenation is appended to its second part. *)
LEMMA AppendConcat ==
    ASSUME NEW l, NEW e, SeqLike(l)
    PROVE  Append(l, e) = l \o <<e>> /\ SeqLike(<<e>>) /\ Len(<<e>>) = 1 /\ <<e>>[1] = e
<1>1. <<e>> \in Seq({e}) /\ Len(<<e>>) = 1 /\ <<e>>[1] = e OBVIOUS
<1>2. SeqLike(<<e>>)
    BY <1>1, LikeSeq
<1>3. PICK m : m = l \o <<e>> OBVIOUS
<1>4. PICK p : p = Append(l, e) OBVIOUS
<1>5. /\ SeqLike(m) /\ Len(m) = Len(l) + 1 /\ Len(l) \in Nat
      /\ \A i \in 1..Len(l) : m[i] = l[i]
      /\ m[Len(l) + 1] = e
    BY <1>1, <1>2, <1>3, LikeConcat
<1>6. /\ SeqLike(p) /\ Len(p) = Len(l) + 1
      /\ \A i \in 1..Len(l) : p[i] = l[i]
      /\ p[Len(l) + 1] = e
    BY <1>4, LikeAppend
<1>7. ASSUME NEW i \in 1..Len(p)
      PROVE  p[i] = m[i]
    <2>1. i \in 1..Len(l) \/ i = Len(l) + 1
        BY <1>5, <1>6
    <2> QED BY <1>5, <1>6, <2>1
<1>8. p = m
    BY <1>5, <1>6, <1>7, SameSeq
<1> QED BY <1>1, <1>2, <1>3, <1>4, <1>8

(* A new session is the fold of an empty log. *)
LEMMA NewFolded == Folded(NewSession) /\ NewSession.log = <<>>
<1>1. /\ NewSession.log = <<>> /\ NewSession.nodes = <<>> /\ NewSession.replaces = 0
      /\ NewSession.contents = 0 /\ NewSession.offloaded = {} /\ NewSession.context = NoContext
    BY DEF NewSession
<1>2. \A M : <<>> \in Seq(M) OBVIOUS
<1>3. Legal(<<>>)
    BY DEF Legal
<1> QED BY <1>1, <1>2, <1>3 DEF Folded

(* A set of numbers with a bound has a greatest one. *)
LEMMA Greatest ==
    ASSUME NEW n \in Nat, NEW T \in SUBSET (1..n), T # {}
    PROVE  \E m \in T : \A k \in T : k <= m
<1> DEFINE U == {n - k : k \in T}
<1>1. U \in SUBSET Nat /\ U # {}
    <2>1. \A k \in T : n - k \in Nat OBVIOUS
    <2>2. PICK k \in T : TRUE OBVIOUS
    <2>3. n - k \in U
        BY <2>2
    <2> QED BY <2>1, <2>3
<1> HIDE DEF U
<1>2. PICK d \in U : \A k \in U : d <= k
    BY <1>1, Least
<1>3. PICK m \in T : d = n - m
    BY DEF U
<1>4. \A k \in T : n - m <= n - k
    BY <1>2, <1>3 DEF U
<1> QED BY <1>4

(* Its session is folded from what was written. *)
LEMMA RestoreFolds ==
    ASSUME NEW events, SeqLike(events), Legal(events)
    PROVE  Folded(Restore(events)) /\ Restore(events).log = events
<1>1. <<>> \o events = events
    <2>1. PICK q \in Seq(Range(events)) : q = events
        BY DEF SeqLike
    <2>2. <<>> \o q = q
        BY <2>1
    <2> QED BY <2>1, <2>2
<1>2. PICK s : s = PutAll(NewSession, events) OBVIOUS
<1>3. Folded(s) /\ s.log = events
    <2>1. NewSession.log \o events = events
        BY <1>1, NewFolded
    <2> QED BY <1>2, <2>1, NewFolded, PutAllFolds
<1> DEFINE owned == {i \in DOMAIN events : events[i].t = "context"}
           kept == owned \cap Range(s.nodes)
           context == IF owned = {} THEN NoContext
                      ELSE IF kept = {} THEN LostContext
                      ELSE CHOOSE i \in kept : \A j \in kept : j <= i
<1>4. Restore(events) = [s EXCEPT !.context = context]
    BY <1>2 DEF Restore
<1>5. context \in {NoContext, LostContext} \cup Range(s.nodes)
    <2>1. ASSUME kept # {}
          PROVE  \E m \in kept : \A k \in kept : k <= m
        <3>1. DOMAIN events = 1..Len(events) /\ Len(events) \in Nat
            BY LikeSeq DEF SeqLike
        <3>2. kept \in SUBSET (1..Len(events))
            BY <3>1
        <3> HIDE DEF kept
        <3> QED BY <2>1, <3>1, <3>2, Greatest
    <2>2. kept \subseteq Range(s.nodes) OBVIOUS
    <2> HIDE DEF owned, kept
    <2> QED BY <2>1, <2>2
<1>6. PICK c : c = context OBVIOUS
<1>7. DOMAIN s = DOMAIN NewSession
    BY <1>3 DEF Folded
<1>8. PICK t : t = [s EXCEPT !.context = c] OBVIOUS
<1>9. /\ DOMAIN t = DOMAIN s /\ t.log = s.log /\ t.nodes = s.nodes /\ t.replaces = s.replaces
      /\ t.contents = s.contents /\ t.offloaded = s.offloaded /\ t.context = c
    BY <1>7, <1>8 DEF NewSession
<1>10. OfType(t, "input") = OfType(s, "input")
    BY <1>9 DEF OfType
<1>11. Folded(t)
    BY <1>3, <1>5, <1>6, <1>9, <1>10 DEF Folded
<1> QED BY <1>3, <1>4, <1>6, <1>8, <1>9, <1>11

(* The balance is a number. *)
LEMMA UnansweredInt ==
    ASSUME NEW s, Folded(s), NEW n \in 0..Len(s.nodes)
    PROVE  Unanswered(s, n) \in Int
<1> DEFINE D == DOMAIN s.log
           T == {k \in 0..n : Unanswered(s, k) \in Int}
<1>1. s.nodes \in Seq(D)
    BY DEF Folded
<1>2. \A i \in D : Counted(s.log[i])
    BY DEF Folded, Legal
<1> HIDE DEF D
<1>3. Len(s.nodes) \in Nat /\ \A k \in 1..Len(s.nodes) : s.nodes[k] \in D
    BY <1>1
<1>4. 0 \in T
    BY <1>3, UnansweredNone
<1>5. ASSUME NEW k \in 0..(n - 1), k \in T
      PROVE  k + 1 \in T
    <2>1. k \in Nat /\ k + 1 \in 1..Len(s.nodes) /\ k + 1 \in 0..n
        BY <1>3
    <2>2. PICK x \in D : x = s.nodes[k + 1]
        BY <1>3, <2>1
    <2>3. Delta(s, x) \in Int
        BY <1>2 DEF Delta, Counted
    <2>4. Unanswered(s, k + 1) = Unanswered(s, k) + Delta(s, s.nodes[k + 1])
        BY <2>1, UnansweredNext
    <2>5. Unanswered(s, k) \in Int
        BY <1>5
    <2> QED BY <2>1, <2>2, <2>3, <2>4, <2>5
<1>6. T = 0..n
    <2> HIDE DEF T
    <2>1. T \in SUBSET (0..n)
        BY DEF T
    <2>2. 0 \in Int /\ n \in Int /\ 0 <= n
        BY <1>3
    <2> QED BY <1>4, <1>5, <2>1, <2>2, UpTo
<1>7. n \in T
    BY <1>3, <1>6
<1> QED BY <1>7

(* As many equal events as there are open calls. *)
LEMMA OfSome ==
    ASSUME NEW n \in Int, NEW e, NEW types, e.t \in types, Counted(e)
    PROVE  Of([i \in 1..n |-> e], types)
<1>1. CASE n \in Nat
    <2>1. PICK q : q = [i \in 1..n |-> e] OBVIOUS
    <2>2. q = [i \in 1..n |-> q[i]] /\ \A i \in 1..n : q[i] = e
        BY <2>1
    <2>3. Of(q, types)
        BY <1>1, <2>2, OfEach
    <2> QED BY <2>1, <2>3
<1>2. CASE n \notin Nat
    <2>1. 1..n = {}
        BY <1>2
    <2>2. [i \in 1..n |-> e] = <<>>
        BY <2>1
    <2> QED BY <2>2, OfNone
<1> QED BY <1>1, <1>2

(* What repairs a log is tool results and the end of its turn. *)
LEMMA RepairOf ==
    ASSUME NEW events, SeqLike(events), Legal(events)
    PROVE  Of(Repair(events), {"result", "turn/end"})
<1> DEFINE types == {"result", "turn/end"}
<1>1. PICK s : s = PutAll(NewSession, events) OBVIOUS
<1>2. Folded(s)
    <2>1. PICK q \in Seq(Range(events)) : q = events
        BY DEF SeqLike
    <2>2. <<>> \o q = q
        BY <2>1
    <2>3. NewSession.log \o events = events
        BY <2>1, <2>2, NewFolded
    <2> QED BY <1>1, <2>3, NewFolded, PutAllFolds
<1>3. PICK n \in Int : n = Unanswered(s, Len(s.nodes))
    <2> DEFINE D == {i \in DOMAIN s.log : s.log[i].t \in SurfaceType}
    <2>1. s.nodes \in Seq(D)
        BY <1>2 DEF Folded
    <2> HIDE DEF D
    <2>2. Len(s.nodes) \in 0..Len(s.nodes)
        BY <2>1
    <2> QED BY <1>2, <2>2, UnansweredInt
<1>4. Of([i \in 1..n |-> Ev("result", "cut")], types)
    <2>1. PICK e : e = Ev("result", "cut") OBVIOUS
    <2>2. e.t \in types /\ Counted(e)
        BY <2>1 DEF Ev, Counted
    <2>3. Of([i \in 1..n |-> e], types)
        BY <2>2, OfSome
    <2> QED BY <2>1, <2>3
<1>5. Of(<<Ev("turn/end", "")>>, types)
    <2>1. PICK e : e = Ev("turn/end", "") OBVIOUS
    <2>2. e.t \in types /\ Counted(e)
        BY <2>1 DEF Ev, Counted
    <2> HIDE DEF types
    <2>3. Of(<<e>>, types)
        BY <2>2, OfOne
    <2> QED BY <2>1, <2>3
<1> HIDE DEF types
<1>6. Of([i \in 1..n |-> Ev("result", "cut")] \o <<Ev("turn/end", "")>>, types)
    BY <1>4, <1>5, OfConcat
<1>7. CASE OpenTurn(events)
    <2>1. Repair(events) = [i \in 1..n |-> Ev("result", "cut")] \o <<Ev("turn/end", "")>>
        BY <1>1, <1>3, <1>7 DEF Repair
    <2> QED BY <1>6, <2>1 DEF types
<1>8. CASE ~OpenTurn(events)
    <2>1. Repair(events) = <<>>
        BY <1>8 DEF Repair
    <2> QED BY <2>1, OfNone
<1> QED BY <1>7, <1>8

-----------------------------------------------------------------------------
(* What a summary is made from. *)

(* A span that is there is made of nodes. *)
LEMMA SpanType ==
    ASSUME NEW D, NEW nodes \in Seq(D), NEW at, Position(nodes, at[1]) \in 1..Position(nodes, at[2])
    PROVE  Span(nodes, at) \in Seq(D)
<1>1. PICK i \in 0..Len(nodes) : i = Position(nodes, at[1])
    BY PositionFound
<1>2. PICK j \in 0..Len(nodes) : j = Position(nodes, at[2])
    BY PositionFound
<1>3. i \in 1..j
    BY <1>1, <1>2
<1>4. SubSeq(nodes, i, j) \in Seq(D)
    BY <1>3
<1> QED BY <1>1, <1>2, <1>4 DEF Span

(* The fields of what is prepared. *)
LEMMA PrepareFields ==
    ASSUME NEW s, NEW span
    PROVE  /\ Prepare(s, span).whole = Measure(s)
           /\ Prepare(s, span).input = Messages(s, Span(s.nodes, span))
           /\ Prepare(s, span).priced = [i \in DOMAIN Span(s.nodes, span) |->
                 <<Span(s.nodes, span)[i], Price(s, Span(s.nodes, span)[i])>>]
           /\ Prepare(s, span) = [whole |-> Prepare(s, span).whole, input |-> Prepare(s, span).input,
                                  priced |-> Prepare(s, span).priced]
BY DEF Prepare

(* Sessions that agree about the nodes prepare the same. *)
LEMMA PrepareSame ==
    ASSUME NEW s, NEW t, NEW D, NEW span,
           s.nodes \in Seq(D), s.nodes = t.nodes,
           Position(s.nodes, span[1]) \in 1..Position(s.nodes, span[2]),
           D \subseteq DOMAIN s.log, D \subseteq DOMAIN t.log,
           \A n \in D : s.log[n] = t.log[n] /\ (n \in s.offloaded <=> n \in t.offloaded)
    PROVE  Prepare(s, span) = Prepare(t, span)
<1>1. PICK nodes \in Seq(D) : nodes = s.nodes OBVIOUS
<1>2. PICK q \in Seq(D) : q = Span(nodes, span)
    BY <1>1, SpanType
<1>3. \A n \in D : Price(s, n) = Price(t, n)
    BY DEF Price
<1>4. \A i \in DOMAIN nodes : nodes[i] \in D OBVIOUS
<1>5. Measure(s) = Measure(t)
    <2>1. \A i \in DOMAIN nodes : <<nodes[i], Price(s, nodes[i])>> = <<nodes[i], Price(t, nodes[i])>>
        BY <1>3, <1>4
    <2>2. [i \in DOMAIN nodes |-> <<nodes[i], Price(s, nodes[i])>>]
             = [i \in DOMAIN nodes |-> <<nodes[i], Price(t, nodes[i])>>]
        BY <2>1
    <2> QED BY <1>1, <2>2 DEF Measure
<1>6. \A i \in DOMAIN q : q[i] \in D OBVIOUS
<1>7. [i \in DOMAIN q |-> <<q[i], Price(s, q[i])>>] = [i \in DOMAIN q |-> <<q[i], Price(t, q[i])>>]
    BY <1>3, <1>6
<1>8. Messages(s, q) = Messages(t, q)
    BY MessagesSame
<1>9. Span(s.nodes, span) = q /\ Span(t.nodes, span) = q
    BY <1>1, <1>2
<1> QED BY <1>5, <1>7, <1>8, <1>9 DEF Prepare

(* A surface s had once, with what was offloaded then. *)
Once(s, nodes, offloaded) == [s EXCEPT !.nodes = nodes, !.offloaded = offloaded]

(* The fields of an earlier surface. *)
LEMMA OnceFields ==
    ASSUME NEW s, NEW nodes, NEW offloaded, Folded(s)
    PROVE  /\ Once(s, nodes, offloaded).log = s.log
           /\ Once(s, nodes, offloaded).nodes = nodes
           /\ Once(s, nodes, offloaded).offloaded = offloaded
<1>1. DOMAIN s = {"log", "nodes", "replaces", "contents", "offloaded", "context"}
    BY DEF Folded, NewSession
<1> QED BY <1>1 DEF Once

(* A session that goes on keeps it. *)
LEMMA FedOn ==
    ASSUME NEW s, NEW t, NEW job, Folded(s), Folded(t), Grown(s, t), Fed(s, job)
    PROVE  Fed(t, job)
<1>1. PICK nodes : nodes = [i \in DOMAIN job.whole |-> job.whole[i][1]] OBVIOUS
<1>2. PICK off \in SUBSET s.offloaded : Source(s, job, nodes, off)
    BY <1>1 DEF Fed
<1>3. off \in SUBSET t.offloaded
    BY DEF Grown
<1> DEFINE D == DOMAIN s.log
<1>4. D \subseteq DOMAIN t.log /\ \A n \in D : s.log[n] = t.log[n]
    <2>1. SeqLike(s.log) /\ SeqLike(t.log) /\ Leads(s.log, t.log)
        BY DEF Folded, SeqLike, Grown
    <2>2. /\ DOMAIN s.log = 1..Len(s.log) /\ DOMAIN t.log = 1..Len(t.log)
          /\ Len(s.log) \in Nat /\ Len(t.log) \in Nat
        BY <2>1, LikeSeq DEF SeqLike
    <2> QED BY <2>1, <2>2 DEF Leads
<1>5. nodes \in Seq(D) /\ Position(nodes, job.span[1]) \in 1..Position(nodes, job.span[2])
    BY <1>2 DEF Source
<1>6. nodes \in Seq(DOMAIN t.log)
    BY <1>4, <1>5
<1>7. PICK p : p = Once(s, nodes, off) OBVIOUS
<1>8. PICK q : q = Once(t, nodes, off) OBVIOUS
<1>9. p.log = s.log /\ p.nodes = nodes /\ p.offloaded = off
    BY <1>7, OnceFields
<1>10. q.log = t.log /\ q.nodes = nodes /\ q.offloaded = off
    BY <1>8, OnceFields
<1>11. Prepare(p, job.span) = Prepare(q, job.span)
    <2>1. PICK span : span = job.span OBVIOUS
    <2>2. /\ p.nodes \in Seq(D) /\ p.nodes = q.nodes
          /\ Position(p.nodes, span[1]) \in 1..Position(p.nodes, span[2])
          /\ D \subseteq DOMAIN p.log /\ D \subseteq DOMAIN q.log
        BY <1>4, <1>5, <1>9, <1>10, <2>1
    <2>3. \A n \in D : p.log[n] = q.log[n] /\ (n \in p.offloaded <=> n \in q.offloaded)
        BY <1>4, <1>9, <1>10
    <2> HIDE DEF D
    <2>4. Prepare(p, span) = Prepare(q, span)
        BY <2>2, <2>3, PrepareSame
    <2> QED BY <2>1, <2>4
<1>12. Source(t, job, nodes, off)
    BY <1>2, <1>3, <1>5, <1>6, <1>7, <1>8, <1>11 DEF Source, Once
<1> QED BY <1>1, <1>3, <1>12 DEF Fed

(* The nodes a measure names. *)
LEMMA MeasureNodes ==
    ASSUME NEW s, NEW D, s.nodes \in Seq(D)
    PROVE  [i \in DOMAIN Measure(s) |-> Measure(s)[i][1]] = s.nodes
<1>1. PICK q \in Seq(D) : q = s.nodes OBVIOUS
<1>2. PICK m : m = [i \in DOMAIN q |-> <<q[i], Price(s, q[i])>>] OBVIOUS
<1>3. DOMAIN m = DOMAIN q /\ \A i \in DOMAIN q : m[i][1] = q[i]
    BY <1>2
<1>4. [i \in DOMAIN m |-> m[i][1]] = [i \in DOMAIN q |-> q[i]]
    BY <1>3
<1>5. [i \in DOMAIN q |-> q[i]] = q OBVIOUS
<1>6. Measure(s) = m
    BY <1>1, <1>2 DEF Measure
<1> QED BY <1>1, <1>4, <1>5, <1>6

(* A summary is made from the surface it was asked for. *)
LEMMA FedNow ==
    ASSUME NEW s, NEW job, Folded(s),
           Position(s.nodes, job.span[1]) \in 1..Position(s.nodes, job.span[2]),
           job.whole = Prepare(s, job.span).whole, job.input = Prepare(s, job.span).input,
           job.priced = Prepare(s, job.span).priced
    PROVE  Fed(s, job)
<1> DEFINE D == DOMAIN s.log
<1>1. s.nodes \in Seq(D)
    BY DEF Folded
<1>8. PICK span : span = job.span OBVIOUS
<1>9. PICK r : r = Prepare(s, span) OBVIOUS
<1>10. /\ r.whole = Measure(s)
       /\ r = [whole |-> r.whole, input |-> r.input, priced |-> r.priced]
    BY <1>9, PrepareFields
<1>11. job.whole = r.whole /\ job.input = r.input /\ job.priced = r.priced
    BY <1>8, <1>9
<1>2. [i \in DOMAIN job.whole |-> job.whole[i][1]] = s.nodes
    <2>1. [i \in DOMAIN Measure(s) |-> Measure(s)[i][1]] = s.nodes
        BY <1>1, MeasureNodes
    <2> QED BY <1>10, <1>11, <2>1
<1>3. PICK p : p = Once(s, s.nodes, s.offloaded) OBVIOUS
<1>4. p.log = s.log /\ p.nodes = s.nodes /\ p.offloaded = s.offloaded
    BY <1>3, OnceFields
<1>5. Prepare(p, span) = r
    <2>1. /\ p.nodes \in Seq(D) /\ p.nodes = s.nodes
          /\ Position(p.nodes, span[1]) \in 1..Position(p.nodes, span[2])
          /\ D \subseteq DOMAIN p.log /\ D \subseteq DOMAIN s.log
        BY <1>1, <1>4, <1>8
    <2>2. \A n \in D : p.log[n] = s.log[n] /\ (n \in p.offloaded <=> n \in s.offloaded)
        BY <1>4
    <2> HIDE DEF D
    <2>3. Prepare(p, span) = Prepare(s, span)
        BY <2>1, <2>2, PrepareSame
    <2> QED BY <1>9, <2>3
<1>6. [whole |-> job.whole, input |-> job.input, priced |-> job.priced] = Prepare(p, job.span)
    BY <1>5, <1>8, <1>10, <1>11
<1>7. Source(s, job, s.nodes, s.offloaded)
    BY <1>1, <1>3, <1>6 DEF Source, Once
<1> QED BY <1>2, <1>7 DEF Fed

(* The price of a node tells whether it was offloaded. *)
LEMMA PriceTells ==
    ASSUME NEW s, NEW p, NEW n, p.log = s.log, s.offloaded \subseteq OfType(s, "input"),
           p.offloaded \subseteq s.offloaded, Price(p, n) = Price(s, n)
    PROVE  n \in p.offloaded <=> n \in s.offloaded
<1>1. CASE s.log[n].t = "input"
    BY <1>1 DEF Price
<1>2. CASE s.log[n].t # "input"
    BY <1>2 DEF OfType
<1> QED BY <1>1, <1>2

(* A span that passes the check before the commit still tells what its summary
   was made from. *)
LEMMA StableInput ==
    ASSUME NEW s, NEW pair, NEW job, Folded(s), Fed(s, job), Stable(s, pair, job)
    PROVE  /\ job.input = Messages(s, Span(s.nodes, job.span))
           /\ Position(s.nodes, job.span[1]) \in 1..Position(s.nodes, job.span[2])
<1> DEFINE L == DOMAIN s.log
<1>1. s.nodes \in Seq(L) /\ s.offloaded \subseteq OfType(s, "input")
    <2>1. s.nodes \in Seq(L)
        BY DEF Folded
    <2> QED BY <2>1 DEF Folded
<1>2. PICK nodes : nodes = [i \in DOMAIN job.whole |-> job.whole[i][1]] OBVIOUS
<1>3. PICK off \in SUBSET s.offloaded : Source(s, job, nodes, off)
    BY <1>2 DEF Fed
<1>4. PICK p : p = Once(s, nodes, off) OBVIOUS
<1>5. p.log = s.log /\ p.nodes = nodes /\ p.offloaded = off
    BY <1>4, OnceFields
<1>6. PICK span : span = job.span OBVIOUS
<1>7. PICK r : r = Prepare(p, span) OBVIOUS
<1>8. job.whole = r.whole /\ job.input = r.input /\ job.priced = r.priced
    <2>1. [whole |-> job.whole, input |-> job.input, priced |-> job.priced] = r
        BY <1>3, <1>4, <1>6, <1>7 DEF Source, Once
    <2> QED BY <2>1
<1>9. nodes \in Seq(L) /\ Position(nodes, span[1]) \in 1..Position(nodes, span[2])
    BY <1>3, <1>6 DEF Source
<1> DEFINE A == {n \in L : n \in off <=> n \in s.offloaded}
<1>10. \A n \in L : Price(p, n) = Price(s, n) => n \in A
    <2>1. p.offloaded \subseteq s.offloaded
        BY <1>5
    <2>2. \A n \in L : Price(p, n) = Price(s, n) => (n \in p.offloaded <=> n \in s.offloaded)
        BY <1>1, <1>5, <2>1, PriceTells
    <2> QED BY <1>5, <2>2
<1>11. A \subseteq L OBVIOUS
<1>17. \A n \in A : n \in off <=> n \in s.offloaded OBVIOUS
<1> HIDE DEF A
<1>12. PICK q : q = Span(nodes, span) OBVIOUS
<1>13. PICK z : z = Span(s.nodes, span) OBVIOUS
<1>14. q \in Seq(L)
    <2>1. Span(nodes, span) \in Seq(L)
        BY <1>9, SpanType
    <2> QED BY <1>12, <2>1
<1> SUFFICES /\ z = q /\ q \in Seq(A)
             /\ Position(s.nodes, span[1]) \in 1..Position(s.nodes, span[2])
    <2>1. ASSUME z = q, q \in Seq(A)
          PROVE  job.input = Messages(s, z)
        <3>1. \A n \in A : p.log[n] = s.log[n] /\ (n \in p.offloaded <=> n \in s.offloaded)
            BY <1>5, <1>17
        <3>2. A \subseteq DOMAIN s.log /\ A \subseteq DOMAIN p.log
            BY <1>5, <1>11
        <3>3. Messages(p, q) = Messages(s, q)
            BY <2>1, <3>1, <3>2, MessagesSame
        <3>4. r.input = Messages(p, q)
            BY <1>5, <1>7, <1>12, PrepareFields
        <3> QED BY <1>8, <2>1, <3>3, <3>4
    <2> QED BY <1>6, <1>13, <2>1
<1>15. CASE job.mode # "manual"
    <2>1. Measure(s) = job.whole
        BY <1>15 DEF Stable
    <2>2. Measure(p) = Measure(s)
        BY <1>7, <1>8, <2>1, PrepareFields
    <2>3. nodes = s.nodes
        <3>1. [i \in DOMAIN Measure(s) |-> Measure(s)[i][1]] = s.nodes
            BY <1>1, MeasureNodes
        <3> QED BY <1>2, <2>1, <3>1
    <2>4. \A i \in DOMAIN nodes : nodes[i] \in A
        <3>1. Measure(p) = [i \in DOMAIN nodes |-> <<nodes[i], Price(p, nodes[i])>>]
            BY <1>5 DEF Measure
        <3>2. Measure(s) = [i \in DOMAIN nodes |-> <<nodes[i], Price(s, nodes[i])>>]
            BY <2>3 DEF Measure
        <3>3. \A i \in DOMAIN nodes : <<nodes[i], Price(p, nodes[i])>> = <<nodes[i], Price(s, nodes[i])>>
            BY <2>2, <3>1, <3>2
        <3>4. \A i \in DOMAIN nodes : Price(p, nodes[i]) = Price(s, nodes[i])
            BY <3>3
        <3>5. \A i \in DOMAIN nodes : nodes[i] \in L
            BY <1>9
        <3> QED BY <1>10, <3>4, <3>5
    <2>5. nodes \in Seq(A)
        <3> HIDE DEF L
        <3> QED BY <1>9, <2>4
    <2>6. Span(nodes, span) \in Seq(A)
        BY <1>9, <2>5, SpanType
    <2> QED BY <1>9, <1>12, <1>13, <2>3, <2>6
<1>16. CASE job.mode = "manual"
    <2>1. Valid(s, pair, span) /\ Prepare(s, span).priced = job.priced
        BY <1>6, <1>16 DEF Stable
    <2>2. Position(s.nodes, span[1]) \in 1..Position(s.nodes, span[2])
        <3>1. /\ Position(s.nodes, span[1]) \in 0..Len(s.nodes)
              /\ Position(s.nodes, span[2]) \in 0..Len(s.nodes)
            BY <1>1, PositionFound
        <3> QED BY <2>1, <3>1 DEF Valid
    <2>3. z \in Seq(L)
        <3>1. Span(s.nodes, span) \in Seq(L)
            BY <1>1, <2>2, SpanType
        <3> QED BY <1>13, <3>1
    <2>4. [i \in DOMAIN z |-> <<z[i], Price(s, z[i])>>] = [i \in DOMAIN q |-> <<q[i], Price(p, q[i])>>]
        <3>1. Prepare(s, span).priced = [i \in DOMAIN z |-> <<z[i], Price(s, z[i])>>]
            BY <1>13, PrepareFields
        <3>2. r.priced = [i \in DOMAIN q |-> <<q[i], Price(p, q[i])>>]
            BY <1>5, <1>7, <1>12, PrepareFields
        <3> QED BY <1>8, <2>1, <3>1, <3>2
    <2>5. DOMAIN z = DOMAIN q /\ \A i \in DOMAIN q : z[i] = q[i] /\ Price(s, z[i]) = Price(p, q[i])
        <3>1. DOMAIN z = DOMAIN q
            BY <2>4
        <3>2. \A i \in DOMAIN q : <<z[i], Price(s, z[i])>> = <<q[i], Price(p, q[i])>>
            BY <2>4, <3>1
        <3> QED BY <3>1, <3>2
    <2>6. z = q
        <3> HIDE DEF L
        <3> QED BY <1>14, <2>3, <2>5
    <2>7. \A i \in DOMAIN q : q[i] \in A
        <3>1. \A i \in DOMAIN q : q[i] \in L
            BY <1>14
        <3> QED BY <1>10, <2>5, <3>1
    <2>8. q \in Seq(A)
        <3> HIDE DEF L
        <3> QED BY <1>14, <2>7
    <2> QED BY <2>2, <2>6, <2>8
<1> QED BY <1>15, <1>16

-----------------------------------------------------------------------------
(* What an action does to the session. *)

(* The session goes on: its bracket is as it was, no summary joined it. *)
Kept(s, t) ==
    /\ Folded(t) /\ Grown(s, t)
    /\ Locked(t.log) = Locked(s.log)
    /\ \A e \in Range(t.log) \ Range(s.log) : e.t # "checkpoint"

(* So is its turn. *)
Onward(s, t) == Kept(s, t) /\ OpenTurn(t.log) = OpenTurn(s.log)

(* Types of events that say nothing about brackets, turns and images. *)
Quiet == {"system", "input", "context", "assistant", "result", "header"}

(* A session goes onward from itself. *)
LEMMA OnwardSelf ==
    ASSUME NEW s, Folded(s)
    PROVE  Onward(s, s)
BY GrownSelf DEF Onward, Kept

(* Keeping the bracket is transitive. *)
LEMMA KeptOn ==
    ASSUME NEW s, NEW t, NEW u, Folded(s), Kept(s, t), Kept(t, u)
    PROVE  Kept(s, u)
<1>1. Folded(t) /\ Folded(u) /\ Grown(s, t) /\ Grown(t, u)
    BY DEF Kept
<1>2. Grown(s, u)
    BY <1>1, GrownOn
<1> QED BY <1>1, <1>2 DEF Kept

(* Keeping bracket and turn is transitive. *)
LEMMA OnwardOn ==
    ASSUME NEW s, NEW t, NEW u, Folded(s), Onward(s, t), Onward(t, u)
    PROVE  Onward(s, u)
BY KeptOn DEF Onward

(* One event put is a sequence of one put. *)
LEMMA PutOne ==
    ASSUME NEW s, NEW e
    PROVE  Put(s, e) = PutAll(s, <<e>>)
<1>1. PICK es : es = <<e>> OBVIOUS
<1>2. Len(es) = 1 /\ es[1] = e
    BY <1>1
<1>3. Len(es) \in Nat
    BY <1>2
<1>4. PICK f : Puts(s, es, Len(es), f) /\ PutAll(s, es) = f[Len(es)]
    BY <1>3, PutAllSteps
<1>5. Puts(s, es, 1, f) /\ PutAll(s, es) = f[1]
    BY <1>2, <1>4
<1>6. f[0] = s /\ \A k \in 1..1 : f[k] = Put(f[k - 1], es[k])
    BY <1>5 DEF Puts
<1>7. f[1] = Put(f[1 - 1], es[1]) /\ 1 - 1 = 0
    BY <1>6
<1> QED BY <1>1, <1>2, <1>5, <1>6, <1>7

(* What is new is what was put. *)
LEMMA NewEvents ==
    ASSUME NEW l, NEW es, NEW types, SeqLike(l), Of(es, types)
    PROVE  \A e \in Range(l \o es) \ Range(l) : e \in Range(es) /\ e.t \in types
<1>1. PICK m : m = l \o es OBVIOUS
<1>2. /\ \A i \in 1..Len(l) : m[i] = l[i]
      /\ \A i \in 1..Len(es) : m[Len(l) + i] = es[i]
      /\ Len(l) \in Nat /\ Len(es) \in Nat
      /\ DOMAIN l = 1..Len(l) /\ DOMAIN m = 1..(Len(l) + Len(es)) /\ DOMAIN es = 1..Len(es)
    BY <1>1, LikeConcat DEF Of
<1> SUFFICES ASSUME NEW e \in Range(m), e \notin Range(l)
             PROVE  e \in Range(es) /\ e.t \in types
    BY <1>1
<1>3. PICK i \in DOMAIN m : m[i] = e
    BY DEF Range
<1>4. i \in 1..Len(l) \/ (i - Len(l) \in 1..Len(es) /\ Len(l) + (i - Len(l)) = i)
    BY <1>2
<1>5. i \notin 1..Len(l)
    BY <1>2, <1>3 DEF Range
<1>6. PICK j \in 1..Len(es) : i = Len(l) + j
    BY <1>4, <1>5
<1>7. es[j] = e
    BY <1>2, <1>3, <1>6
<1> QED BY <1>2, <1>7 DEF Of, Range

(* Events of the loop keep the session's bracket ... *)
LEMMA KeptPlain ==
    ASSUME NEW s, NEW es, NEW types, Folded(s), Of(es, types),
           types \cap {"offload", "checkpoint", "compaction/start", "compaction/end", "end-seed"} = {}
    PROVE  Kept(s, PutAll(s, es)) /\ PutAll(s, es).log = s.log \o es
<1>1. "offload" \notin types /\ "checkpoint" \notin types /\ "compaction/start" \notin types
    OBVIOUS
<1>2. types \cap {"compaction/end", "end-seed"} = {} OBVIOUS
<1>3. PICK t : t = PutAll(s, es) OBVIOUS
<1>4. Folded(t) /\ Grown(s, t) /\ t.log = s.log \o es
    BY <1>1, <1>3, PutAllPlain
<1>5. SeqLike(s.log)
    BY DEF Folded, SeqLike
<1>6. Locked(t.log) = Locked(s.log)
    <2>1. Stands(s.log \o es, "compaction/start", {"compaction/end", "end-seed"})
             <=> Stands(s.log, "compaction/start", {"compaction/end", "end-seed"})
        BY <1>1, <1>2, <1>5, StandsOn
    <2>2. Stands(s.log \o es, "compaction/start", {"compaction/end", "end-seed"})
             = Stands(s.log, "compaction/start", {"compaction/end", "end-seed"})
        BY <2>1 DEF Stands
    <2> QED BY <1>4, <2>2 DEF Locked
<1>7. \A e \in Range(t.log) \ Range(s.log) : e.t # "checkpoint"
    BY <1>1, <1>4, <1>5, NewEvents
<1> QED BY <1>3, <1>4, <1>6, <1>7 DEF Kept

(* ... and, unless they are about turns, its turn. *)
LEMMA OnwardQuiet ==
    ASSUME NEW s, NEW es, Folded(s), Of(es, Quiet)
    PROVE  Onward(s, PutAll(s, es))
<1>1. PICK types : types = Quiet OBVIOUS
<1>2. /\ types \cap {"offload", "checkpoint", "compaction/start", "compaction/end", "end-seed"} = {}
      /\ "turn/start" \notin types /\ types \cap {"turn/end"} = {}
    BY <1>1 DEF Quiet
<1>3. PICK t : t = PutAll(s, es) OBVIOUS
<1>4. Kept(s, t) /\ t.log = s.log \o es
    BY <1>1, <1>2, <1>3, KeptPlain
<1>5. SeqLike(s.log)
    BY DEF Folded, SeqLike
<1>6. Stands(s.log \o es, "turn/start", {"turn/end"}) <=> Stands(s.log, "turn/start", {"turn/end"})
    BY <1>1, <1>2, <1>5, StandsOn
<1>7. OpenTurn(t.log) = OpenTurn(s.log)
    <2>1. Stands(s.log \o es, "turn/start", {"turn/end"}) = Stands(s.log, "turn/start", {"turn/end"})
        BY <1>6 DEF Stands
    <2> QED BY <1>4, <2>1 DEF OpenTurn
<1> QED BY <1>3, <1>4, <1>7 DEF Onward

(* One quiet event keeps both. *)
LEMMA OnwardPut ==
    ASSUME NEW s, NEW e, Folded(s), e.t \in Quiet, Counted(e)
    PROVE  Onward(s, Put(s, e))
<1>1. Of(<<e>>, Quiet)
    BY OfOne
<1> QED BY <1>1, OnwardQuiet, PutOne

(* An image that is offloaded. *)
LEMMA OnwardOffload ==
    ASSUME NEW s, NEW n \in OfType(s, "input"), Folded(s)
    PROVE  Onward(s, Put(s, Ev("offload", n)))
<1>1. PICK e : e = Ev("offload", n) OBVIOUS
<1>2. e.t = "offload" /\ e.v = n /\ Counted(e)
    BY <1>1 DEF Ev, Counted
<1>3. PICK t : t = Put(s, e) OBVIOUS
<1>4. Folded(t) /\ Grown(s, t)
    BY <1>2, <1>3, PutFolds
<1>5. SeqLike(s.log)
    BY DEF Folded, SeqLike
<1>6. t.log = s.log \o <<e>>
    BY <1>3, <1>5, PutFields, AppendConcat
<1>7. Of(<<e>>, {"offload"})
    BY <1>2, OfOne
<1>8. Locked(t.log) = Locked(s.log)
    <2>1. Stands(s.log \o <<e>>, "compaction/start", {"compaction/end", "end-seed"})
             <=> Stands(s.log, "compaction/start", {"compaction/end", "end-seed"})
        <3>1. {"offload"} \cap {"compaction/end", "end-seed"} = {} /\ "compaction/start" \notin {"offload"}
            OBVIOUS
        <3> QED BY <1>5, <1>7, <3>1, StandsOn
    <2>2. Stands(s.log \o <<e>>, "compaction/start", {"compaction/end", "end-seed"})
             = Stands(s.log, "compaction/start", {"compaction/end", "end-seed"})
        BY <2>1 DEF Stands
    <2> QED BY <1>6, <2>2 DEF Locked
<1>9. OpenTurn(t.log) = OpenTurn(s.log)
    <2>1. Stands(s.log \o <<e>>, "turn/start", {"turn/end"}) <=> Stands(s.log, "turn/start", {"turn/end"})
        <3>1. {"offload"} \cap {"turn/end"} = {} /\ "turn/start" \notin {"offload"}
            OBVIOUS
        <3> QED BY <1>5, <1>7, <3>1, StandsOn
    <2>2. Stands(s.log \o <<e>>, "turn/start", {"turn/end"}) = Stands(s.log, "turn/start", {"turn/end"})
        BY <2>1 DEF Stands
    <2> QED BY <1>6, <2>2 DEF OpenTurn
<1>10. \A x \in Range(t.log) \ Range(s.log) : x.t # "checkpoint"
    BY <1>5, <1>6, <1>7, NewEvents
<1> QED BY <1>1, <1>3, <1>4, <1>8, <1>9, <1>10 DEF Onward, Kept

(* Pruning is quiet. *)
LEMMA OnwardPruned ==
    ASSUME NEW s, Folded(s)
    PROVE  Onward(s, Pruned(s))
<1> DEFINE D == {i \in DOMAIN s.log : s.log[i].t \in SurfaceType}
           chosen == {n \in OfType(s, "result") : s.log[n].v = "full"}
<1>1. s.nodes \in Seq(D)
    BY DEF Folded
<1>2. PICK q : q = Full(s) OBVIOUS
<1> HIDE DEF D, chosen
<1>3. q \in Seq(D \cap chosen)
    BY <1>1, <1>2, SiftType DEF Full, chosen
<1>4. DOMAIN q = 1..Len(q) /\ Len(q) \in Nat
    BY <1>3
<1>5. PICK es : es = [i \in DOMAIN q |-> Rewrite("result", "cut", q[i], q[i])] OBVIOUS
<1>6. es = [i \in 1..Len(q) |-> es[i]] /\ \A i \in 1..Len(q) : es[i].t = "result"
    BY <1>4, <1>5 DEF Rewrite
<1>7. \A i \in 1..Len(q) : es[i].t \in Quiet /\ Counted(es[i])
    BY <1>6 DEF Quiet, Counted
<1>8. Of(es, Quiet)
    BY <1>4, <1>6, <1>7, OfEach
<1>9. Pruned(s) = PutAll(s, es)
    BY <1>2, <1>5 DEF Pruned
<1> QED BY <1>8, <1>9, OnwardQuiet

(* A turn begins or ends. *)
LEMMA KeptTurn ==
    ASSUME NEW s, NEW e, Folded(s), e.t \in {"turn/start", "turn/end"}
    PROVE  Kept(s, PutAll(s, <<e>>))
<1>1. Counted(e)
    BY DEF Counted
<1>2. PICK types : types = {"turn/start", "turn/end"} OBVIOUS
<1>3. types \cap {"offload", "checkpoint", "compaction/start", "compaction/end", "end-seed"} = {}
    BY <1>2
<1>4. Of(<<e>>, types)
    BY <1>1, <1>2, OfOne
<1> QED BY <1>3, <1>4, KeptPlain

(* The bracket opens ... *)
LEMMA Opens ==
    ASSUME NEW s, NEW mode, Folded(s)
    PROVE  /\ Folded(PutAll(s, <<Ev("compaction/start", mode)>>))
           /\ Grown(s, PutAll(s, <<Ev("compaction/start", mode)>>))
           /\ Locked(PutAll(s, <<Ev("compaction/start", mode)>>).log)
           /\ OpenTurn(PutAll(s, <<Ev("compaction/start", mode)>>).log) = OpenTurn(s.log)
           /\ \A e \in Range(PutAll(s, <<Ev("compaction/start", mode)>>).log) \ Range(s.log) :
                 e.t # "checkpoint"
<1>1. PICK e : e = Ev("compaction/start", mode) OBVIOUS
<1>2. e.t = "compaction/start" /\ Counted(e)
    BY <1>1 DEF Ev, Counted
<1>3. Of(<<e>>, {"compaction/start"})
    BY <1>2, OfOne
<1>4. PICK t : t = PutAll(s, <<e>>) OBVIOUS
<1>5. Folded(t) /\ Grown(s, t) /\ t.log = s.log \o <<e>>
    <2>1. "offload" \notin {"compaction/start"} OBVIOUS
    <2> QED BY <1>3, <1>4, <2>1, PutAllPlain
<1>6. SeqLike(s.log)
    BY DEF Folded, SeqLike
<1>7. Locked(t.log)
    <2>1. e.t \notin {"compaction/end", "end-seed"}
        BY <1>2
    <2>2. Stands(s.log \o <<e>>, e.t, {"compaction/end", "end-seed"})
        BY <1>2, <1>6, <2>1, StandsBegun
    <2> QED BY <1>2, <1>5, <2>2 DEF Locked
<1>8. OpenTurn(t.log) = OpenTurn(s.log)
    <2>1. Stands(s.log \o <<e>>, "turn/start", {"turn/end"}) <=> Stands(s.log, "turn/start", {"turn/end"})
        <3>1. {"compaction/start"} \cap {"turn/end"} = {} /\ "turn/start" \notin {"compaction/start"}
            OBVIOUS
        <3> QED BY <1>3, <1>6, <3>1, StandsOn
    <2>2. Stands(s.log \o <<e>>, "turn/start", {"turn/end"}) = Stands(s.log, "turn/start", {"turn/end"})
        BY <2>1 DEF Stands
    <2> QED BY <1>5, <2>2 DEF OpenTurn
<1>9. \A x \in Range(t.log) \ Range(s.log) : x.t # "checkpoint"
    BY <1>3, <1>5, <1>6, NewEvents
<1> QED BY <1>1, <1>4, <1>5, <1>7, <1>8, <1>9

(* ... and closes. *)
LEMMA Closes ==
    ASSUME NEW s, NEW es, NEW types, Folded(s), Of(es, types),
           types \subseteq {"compaction/summary", "checkpoint", "compaction/end"},
           Len(es) > 0, es[Len(es)].t = "compaction/end"
    PROVE  /\ Folded(PutAll(s, es)) /\ Grown(s, PutAll(s, es))
           /\ ~Locked(PutAll(s, es).log)
           /\ OpenTurn(PutAll(s, es).log) = OpenTurn(s.log)
           /\ \A e \in Range(PutAll(s, es).log) \ Range(s.log) : e \in Range(es)
<1>1. PICK t : t = PutAll(s, es) OBVIOUS
<1>2. Folded(t) /\ Grown(s, t) /\ t.log = s.log \o es
    <2>1. "offload" \notin types OBVIOUS
    <2> QED BY <1>1, <2>1, PutAllPlain
<1>3. SeqLike(s.log)
    BY DEF Folded, SeqLike
<1>4. ~Locked(t.log)
    <2>1. "compaction/start" \notin types /\ es[Len(es)].t \in {"compaction/end", "end-seed"}
        OBVIOUS
    <2>2. ~Stands(s.log \o es, "compaction/start", {"compaction/end", "end-seed"})
        BY <1>3, <2>1, StandsEnded
    <2> QED BY <1>2, <2>2 DEF Locked
<1>5. OpenTurn(t.log) = OpenTurn(s.log)
    <2>1. Stands(s.log \o es, "turn/start", {"turn/end"}) <=> Stands(s.log, "turn/start", {"turn/end"})
        <3>1. types \cap {"turn/end"} = {} /\ "turn/start" \notin types OBVIOUS
        <3> QED BY <1>3, <3>1, StandsOn
    <2>2. Stands(s.log \o es, "turn/start", {"turn/end"}) = Stands(s.log, "turn/start", {"turn/end"})
        BY <2>1 DEF Stands
    <2> QED BY <1>2, <2>2 DEF OpenTurn
<1>6. \A e \in Range(t.log) \ Range(s.log) : e \in Range(es)
    BY <1>2, <1>3, NewEvents
<1> QED BY <1>1, <1>2, <1>4, <1>5, <1>6

-----------------------------------------------------------------------------
(* What a request adds. *)

(* A plain event of the loop. *)
LEMMA QuietOne ==
    ASSUME NEW t \in Quiet \ {"assistant"}, NEW v
    PROVE  Of(<<Ev(t, v)>>, Quiet)
<1>1. PICK e : e = Ev(t, v) OBVIOUS
<1>2. e.t \in Quiet /\ Counted(e)
    BY <1>1 DEF Ev, Counted
<1>3. Of(<<e>>, Quiet)
    BY <1>2, OfOne
<1> QED BY <1>1, <1>3

(* The prompt reaches the surface by events of its own. *)
LEMMA PromptQuiet ==
    ASSUME NEW s, Folded(s), NEW rendered, NEW inHistory, NEW startsSeries
    PROVE  Of(PromptEvents(s, rendered, inHistory, startsSeries), Quiet)
<1> DEFINE D == {i \in DOMAIN s.log : s.log[i].t \in SurfaceType}
<1>1. s.nodes \in Seq(D)
    BY DEF Folded
<1> HIDE DEF D
<1>2. PICK system : system = SystemNodes(s) OBVIOUS
<1>3. PICK E : system \in Seq(E)
    <2>1. Sift(s.nodes, OfType(s, "system")) \in Seq(D \cap OfType(s, "system"))
        BY <1>1, SiftType
    <2> QED BY <1>2, <2>1 DEF SystemNodes
<1>4. \A v : Of(<<Ev("system", v)>>, Quiet)
    BY QuietOne DEF Quiet
<1>5. PICK head : head = Head(system) OBVIOUS
<1>6. PICK latest : latest = IF Spoken(s) = <<>> THEN s.log[head].v ELSE EffectivePrompt(s)
    OBVIOUS
<1>7. PICK tail : tail = Sift(Tail(system), Audible(s)) OBVIOUS
<1>8. PICK silence : silence = [i \in DOMAIN tail |-> Rewrite("system", "", tail[i], tail[i])]
    OBVIOUS
<1>9. PICK again : again = IF s.log[head].v = rendered THEN <<>>
                           ELSE <<Rewrite("system", rendered, head, head)>> OBVIOUS
<1>10. PromptEvents(s, rendered, inHistory, startsSeries) =
          CASE system = <<>> -> <<Ev("system", rendered)>>
            [] system # <<>> /\ (~inHistory \/ rendered = "" \/ (startsSeries /\ latest # rendered)) ->
                  silence \o again
            [] OTHER -> IF latest = rendered THEN <<>> ELSE <<Ev("system", rendered)>>
    BY <1>2, <1>5, <1>6, <1>7, <1>8, <1>9 DEF PromptEvents
<1>11. ASSUME system # <<>>
       PROVE  Of(silence \o again, Quiet)
    <2>8. Tail(system) \in Seq(E)
        <3>1. PICK y \in Seq(E) : y = system /\ y # <<>>
            BY <1>3, <1>11
        <3>2. Tail(y) \in Seq(E)
            BY <3>1
        <3> QED BY <3>1, <3>2
    <2>1. PICK p \in Seq(E) : p = Tail(system)
        BY <2>8
    <2>2. tail \in Seq(E \cap Audible(s))
        BY <1>7, <2>1, SiftType
    <2>3. DOMAIN tail = 1..Len(tail) /\ Len(tail) \in Nat
        BY <2>2
    <2>4. silence = [i \in 1..Len(tail) |-> silence[i]] /\ \A i \in 1..Len(tail) : silence[i].t = "system"
        BY <1>8, <2>3 DEF Rewrite
    <2>5. \A i \in 1..Len(tail) : silence[i].t \in Quiet /\ Counted(silence[i])
        BY <2>4 DEF Quiet, Counted
    <2>6. Of(silence, Quiet)
        BY <2>3, <2>4, <2>5, OfEach
    <2>7. Of(again, Quiet)
        <3>1. PICK e : e = Rewrite("system", rendered, head, head) OBVIOUS
        <3>2. e.t \in Quiet /\ Counted(e)
            BY <3>1 DEF Rewrite, Quiet, Counted
        <3>3. Of(<<e>>, Quiet)
            BY <3>2, OfOne
        <3>4. Of(<<>>, Quiet)
            BY OfNone
        <3> QED BY <1>9, <3>1, <3>3, <3>4
    <2> QED BY <2>6, <2>7, OfConcat
<1>12. Of(<<>>, Quiet)
    BY OfNone
<1> QED BY <1>4, <1>10, <1>11, <1>12

(* So does the runtime context. *)
LEMMA ContextQuiet ==
    ASSUME NEW s, NEW text
    PROVE  Of(ContextEvents(s, text), Quiet)
<1>1. \A v : Of(<<Ev("context", v)>>, Quiet)
    BY QuietOne DEF Quiet
<1>2. Of(<<>>, Quiet)
    BY OfNone
<1> QED BY <1>1, <1>2 DEF ContextEvents

-----------------------------------------------------------------------------
(* The invariant of the session and of what is kept with it. *)

Base(s, heard, paired, kept, gen) ==
    /\ Folded(s) /\ DerivedFor(heard, s) /\ PairedFor(paired, s)
    /\ kept \in 0..Len(s.log) /\ gen \in 0..s.contents

(* Base, from its parts, after a step that goes on. *)
LEMMA BaseVia ==
    ASSUME NEW s, NEW d, NEW p, NEW f, NEW g, Base(s, d, p, f, g),
           NEW u, Folded(u), Grown(s, u), NEW t, Folded(t), Grown(u, t),
           NEW d2, d2 \in {d, Derive(d, t)}, NEW p2, p2 \in {p, Pair(p, u)},
           NEW f2, f2 \in {f, Len(s.log)}, NEW g2, g2 \in {g, t.contents}
    PROVE  Base(t, d2, p2, f2, g2)
<1>1. Folded(s) /\ DerivedFor(d, s) /\ PairedFor(p, s) /\ f \in 0..Len(s.log) /\ g \in 0..s.contents
    BY DEF Base
<1>2. Grown(s, t)
    BY <1>1, GrownOn
<1>3. DerivedFor(d, t)
    BY <1>1, <1>2, DerivedOn
<1>4. DerivedFor(d2, t)
    <2>1. DerivedFor(Derive(d, t), t)
        BY <1>3, DeriveAgrees
    <2> QED BY <1>3, <2>1
<1>5. PairedFor(p2, t)
    <2>1. PairedFor(p, u)
        BY <1>1, PairedOn
    <2>2. PairedFor(Pair(p, u), u)
        BY <2>1, PairAgrees
    <2>3. PairedFor(p, t) /\ PairedFor(Pair(p, u), t)
        BY <2>1, <2>2, PairedOn
    <2> QED BY <2>3
<1>6. f2 \in 0..Len(t.log)
    <2>1. SeqLike(s.log) /\ SeqLike(t.log)
        BY <1>1 DEF Folded, SeqLike
    <2>2. Len(s.log) \in Nat /\ Len(t.log) \in Nat
        BY <2>1, LikeSeq DEF SeqLike
    <2>3. Len(s.log) <= Len(t.log)
        BY <1>2 DEF Grown, Leads
    <2> QED BY <1>1, <2>2, <2>3
<1>7. g2 \in 0..t.contents
    <2>1. s.contents \in Nat /\ t.contents \in Nat /\ s.contents <= t.contents
        BY <1>1, <1>2 DEF Folded, Grown
    <2> QED BY <1>1, <2>1
<1> QED BY <1>4, <1>5, <1>6, <1>7 DEF Base

(* A session that goes on, with its caches as they were, keeps its part. *)
LEMMA BaseOn ==
    ASSUME NEW s, NEW d, NEW p, NEW f, NEW g, Base(s, d, p, f, g),
           NEW t, Folded(t), Grown(s, t),
           NEW d2, d2 \in {d, Derive(d, t)}, NEW p2, p2 \in {p, Pair(p, s)},
           NEW f2, f2 \in {f, Len(s.log)}, NEW g2, g2 \in {g, t.contents}
    PROVE  Base(t, d2, p2, f2, g2)
<1>1. Folded(s) /\ Grown(s, s)
    BY GrownSelf DEF Base
<1> QED BY <1>1, BaseVia

(* A session that was just restored. *)
LEMMA BaseFresh ==
    ASSUME NEW s, Folded(s)
    PROVE  /\ Base(s, NoDerived, NoPairing, Len(s.log), s.contents)
<1>1. s.contents \in Nat /\ s.replaces \in Nat
    BY DEF Folded
<1>2. SeqLike(s.log)
    BY DEF Folded, SeqLike
<1>3. Len(s.log) \in Nat
    BY <1>2, LikeSeq DEF SeqLike
<1>4. DerivedFor(NoDerived, s)
    <2> DEFINE D == DOMAIN s.log
    <2>1. s.nodes \in Seq(D)
        BY DEF Folded
    <2> HIDE DEF D
    <2>2. SubSeq(s.nodes, 1, 0) = <<>> /\ 0 \in 0..Len(s.nodes)
        BY <2>1
    <2>3. Messages(s, <<>>) = <<>>
        BY MessagesNone
    <2>4. PICK c : c = NoDerived OBVIOUS
    <2>5. c.generation = 0 /\ c.upto = 0 /\ c.messages = <<>>
        BY <2>4 DEF NoDerived
    <2>6. c.generation \in 0..s.contents /\ c.upto \in 0..Len(s.nodes)
        BY <1>1, <2>2, <2>5
    <2>7. SubSeq(s.nodes, 1, c.upto) = <<>>
        BY <2>2, <2>5
    <2>8. c.messages = Messages(s, SubSeq(s.nodes, 1, c.upto))
        BY <2>3, <2>5, <2>7
    <2>9. DerivedFor(c, s)
        BY <2>6, <2>8 DEF DerivedFor
    <2> QED BY <2>4, <2>9
<1>5. PairedFor(NoPairing, s)
    BY <1>1 DEF PairedFor, NoPairing
<1> QED BY <1>1, <1>3, <1>4, <1>5 DEF Base

-----------------------------------------------------------------------------
(* The invariant of the lock. *)

Awaits(job) == job # NoJob /\ job.at = "summary"

Lock(s, j, jam) ==
    /\ Locked(s.log) = (jam \/ \E w \in Who : Awaits(j[w]))
    /\ ~(Awaits(j["driver"]) /\ Awaits(j["caller"]))
    /\ Awaits(j["driver"]) => OpenTurn(s.log) = (j["driver"].mode # "manual")
    /\ jam => \A w \in Who : ~Awaits(j[w])
    /\ \A w \in Who : Awaits(j[w]) => Fed(s, j[w])

(* It stays what it is while the session goes on, and a turn does not end below
   the driver's transaction. *)
LEMMA LockOn ==
    ASSUME NEW s, NEW t, NEW j, NEW k, NEW jam, Folded(s), Lock(s, j, jam), Kept(s, t),
           \A w \in Who : k[w] = j[w] \/ (~Awaits(j[w]) /\ ~Awaits(k[w])),
           Onward(s, t) \/ ~Awaits(k["driver"])
    PROVE  Lock(t, k, jam)
<1>1. \A w \in Who : Awaits(k[w]) = Awaits(j[w]) /\ (Awaits(k[w]) => k[w] = j[w])
    <2> SUFFICES ASSUME NEW w \in Who
                 PROVE  Awaits(k[w]) = Awaits(j[w]) /\ (Awaits(k[w]) => k[w] = j[w])
        OBVIOUS
    <2>1. CASE k[w] = j[w]
        BY <2>1
    <2>2. CASE ~Awaits(j[w]) /\ ~Awaits(k[w])
        BY <2>2 DEF Awaits
    <2> QED BY <2>1, <2>2
<1>2. "driver" \in Who /\ "caller" \in Who
    BY DEF Who
<1>3. Folded(t) /\ Grown(s, t) /\ Locked(t.log) = Locked(s.log)
    BY DEF Kept
<1>4. \A w \in Who : Awaits(k[w]) => Fed(t, k[w])
    <2> SUFFICES ASSUME NEW w \in Who, Awaits(k[w])
                 PROVE  Fed(t, k[w]) OBVIOUS
    <2>1. Fed(s, k[w])
        BY <1>1 DEF Lock
    <2> QED BY <1>3, <2>1, FedOn
<1>5. Locked(t.log) = (jam \/ \E w \in Who : Awaits(k[w]))
    <2>1. (\E w \in Who : Awaits(k[w])) = (\E w \in Who : Awaits(j[w]))
        BY <1>1
    <2>2. Locked(s.log) = (jam \/ \E w \in Who : Awaits(j[w]))
        BY DEF Lock
    <2> QED BY <1>3, <2>1, <2>2, Zenon
<1>6. Awaits(k["driver"]) => OpenTurn(t.log) = (k["driver"].mode # "manual")
    <2>1. ASSUME Awaits(k["driver"])
          PROVE  OpenTurn(t.log) = (k["driver"].mode # "manual")
        <3>1. k["driver"] = j["driver"] /\ Awaits(j["driver"])
            BY <1>1, <1>2, <2>1
        <3>2. OpenTurn(s.log) = (j["driver"].mode # "manual")
            BY <3>1 DEF Lock
        <3>3. OpenTurn(t.log) = OpenTurn(s.log)
            BY <2>1 DEF Onward
        <3> QED BY <3>1, <3>2, <3>3
    <2> QED BY <2>1
<1>7. ~(Awaits(k["driver"]) /\ Awaits(k["caller"]))
    BY <1>1, <1>2 DEF Lock
<1>8. jam => \A w \in Who : ~Awaits(k[w])
    BY <1>1 DEF Lock
<1> QED BY <1>4, <1>5, <1>6, <1>7, <1>8 DEF Lock

(* Nobody holds it. *)
LEMMA LockFresh ==
    ASSUME NEW s, NEW j, ~Locked(s.log), \A w \in Who : ~Awaits(j[w])
    PROVE  Lock(s, j, FALSE)
<1>1. "driver" \in Who /\ "caller" \in Who
    BY DEF Who
<1>2. Locked(s.log) = (FALSE \/ \E w \in Who : Awaits(j[w]))
    BY DEF Locked, Stands
<1> QED BY <1>1, <1>2 DEF Lock

(* The driver's brackets lie in its turn, a manual one between turns. *)
InTurn(s, job) == OpenTurn(s.log) = (job.mode # "manual")

(* One transaction takes it ... *)
LEMMA LockTaken ==
    ASSUME NEW s, NEW t, NEW j, NEW k, NEW jam \in BOOLEAN, NEW w \in Who, Folded(s), Lock(s, j, jam),
           ~Locked(s.log), Locked(t.log), OpenTurn(t.log) = OpenTurn(s.log),
           Awaits(k[w]), Fed(t, k[w]),
           InTurn(s, k[w]), \A v \in Who \ {w} : k[v] = j[v]
    PROVE  Lock(t, k, jam)
<1>1. "driver" \in Who /\ "caller" \in Who
    BY DEF Who
<1>2. ~jam /\ \A v \in Who : ~Awaits(j[v])
    BY DEF Lock
<1>3. \A v \in Who : Awaits(k[v]) => v = w
    BY <1>2
<1>4. Locked(t.log) = (jam \/ \E v \in Who : Awaits(k[v]))
    BY DEF Locked, Stands
<1>5. Awaits(k["driver"]) => OpenTurn(t.log) = (k["driver"].mode # "manual")
    BY <1>1, <1>3 DEF InTurn
<1> QED BY <1>1, <1>2, <1>3, <1>4, <1>5 DEF Lock

(* ... and gives it back ... *)
LEMMA LockGiven ==
    ASSUME NEW s, NEW t, NEW j, NEW k, NEW jam \in BOOLEAN, NEW w \in Who, Lock(s, j, jam),
           Awaits(j[w]), ~Locked(t.log), ~Awaits(k[w]), \A v \in Who \ {w} : k[v] = j[v]
    PROVE  Lock(t, k, jam)
<1>1. "driver" \in Who /\ "caller" \in Who /\ \A v \in Who : v = "driver" \/ v = "caller"
    BY DEF Who
<1>2. ~jam /\ \A v \in Who \ {w} : ~Awaits(j[v])
    BY <1>1 DEF Lock
<1>3. \A v \in Who : ~Awaits(k[v])
    BY <1>2
<1>4. jam = FALSE
    BY <1>2
<1>5. Lock(t, k, FALSE)
    BY <1>3, LockFresh
<1> QED BY <1>4, <1>5

(* ... or cannot. *)
LEMMA LockLost ==
    ASSUME NEW s, NEW j, NEW k, NEW jam \in BOOLEAN, NEW w \in Who, Lock(s, j, jam),
           Awaits(j[w]), ~Awaits(k[w]), \A v \in Who \ {w} : k[v] = j[v]
    PROVE  Lock(s, k, TRUE)
<1>1. "driver" \in Who /\ "caller" \in Who /\ \A v \in Who : v = "driver" \/ v = "caller"
    BY DEF Who
<1>2. \A v \in Who \ {w} : ~Awaits(j[v])
    BY <1>1 DEF Lock
<1>3. \A v \in Who : ~Awaits(k[v])
    BY <1>2
<1>4. Locked(s.log) = (TRUE \/ \E v \in Who : Awaits(k[v]))
    BY DEF Lock
<1> QED BY <1>1, <1>3, <1>4 DEF Lock

(* A transaction that asks anew keeps it. *)
LEMMA LockRenewed ==
    ASSUME NEW s, NEW t, NEW j, NEW k, NEW jam, NEW w \in Who, Folded(s), Lock(s, j, jam), Onward(s, t),
           Awaits(j[w]), Awaits(k[w]), k[w].mode = j[w].mode, Fed(t, k[w]),
           \A v \in Who \ {w} : k[v] = j[v]
    PROVE  Lock(t, k, jam)
<1>1. "driver" \in Who /\ "caller" \in Who /\ \A v \in Who : v = "driver" \/ v = "caller"
    BY DEF Who
<1>2. \A v \in Who : Awaits(k[v]) = Awaits(j[v])
    <2> SUFFICES ASSUME NEW v \in Who PROVE Awaits(k[v]) = Awaits(j[v]) OBVIOUS
    <2>1. CASE v = w
        BY <2>1 DEF Awaits
    <2>2. CASE v # w
        BY <2>2
    <2> QED BY <2>1, <2>2
<1>3. Folded(t) /\ Grown(s, t) /\ Locked(t.log) = Locked(s.log) /\ OpenTurn(t.log) = OpenTurn(s.log)
    BY DEF Kept, Onward
<1>4. \A v \in Who : Awaits(k[v]) => v = w
    BY <1>1, <1>2 DEF Lock
<1>5. Locked(t.log) = (jam \/ \E v \in Who : Awaits(k[v]))
    <2>1. (\E v \in Who : Awaits(k[v])) = (\E v \in Who : Awaits(j[v]))
        BY <1>2
    <2>2. Locked(s.log) = (jam \/ \E v \in Who : Awaits(j[v]))
        BY DEF Lock
    <2> QED BY <1>3, <2>1, <2>2, Zenon
<1>6. Awaits(k["driver"]) => OpenTurn(t.log) = (k["driver"].mode # "manual")
    <2>1. ASSUME Awaits(k["driver"])
          PROVE  OpenTurn(t.log) = (k["driver"].mode # "manual")
        <3>1. w = "driver"
            BY <1>1, <1>4, <2>1
        <3>2. OpenTurn(s.log) = (j["driver"].mode # "manual")
            BY <3>1 DEF Lock
        <3> QED BY <1>3, <3>1, <3>2
    <2> QED BY <2>1
<1>7. ~(Awaits(k["driver"]) /\ Awaits(k["caller"])) /\ (jam => \A v \in Who : ~Awaits(k[v]))
    BY <1>1, <1>2 DEF Lock
<1> QED BY <1>4, <1>5, <1>6, <1>7 DEF Lock

-----------------------------------------------------------------------------
(* The invariant of the whole. *)

JobOK(job) ==
    /\ DOMAIN job = JobFields
    /\ job.mode \in {"pressure", "switch", "overflow", "manual", "region"}
    /\ job.at \in {"info", "summary", "flush", "done"}

Control ==
    /\ phase \in Phase
    /\ aborted \in BOOLEAN /\ admitted \in BOOLEAN /\ headed \in BOOLEAN /\ jammed \in BOOLEAN
    /\ prompt \in {r.prompt : r \in Renderings} \cup {""}
    /\ current \in {r.context : r \in Renderings} \cup {""}
    /\ retries \in 0..MaxOverflowRetries
    /\ DOMAIN jobs = Who
    /\ \A w \in Who : jobs[w] # NoJob => JobOK(jobs[w])
    /\ jobs["driver"] # NoJob => phase \in {"pressure", "switching", "compacting", "maintenance"}
    /\ Assigned

Inv ==
    /\ Base(session, derived, pairing, floor, reqGen)
    /\ Lock(session, jobs, jammed)
    /\ Control

NoSummary == \A e \in Range(session'.log) \ Range(session.log) : e.t # "checkpoint"

(* The table of transactions has an entry for each of the two of Who. *)
LEMMA TwoJobs ==
    /\ "driver" \in Who /\ "caller" \in Who /\ \A w \in Who : w = "driver" \/ w = "caller"
    /\ "driver" # "caller"
BY DEF Who

(* A transaction that does not run awaits nothing. *)
LEMMA NotAwaiting == ~Awaits(NoJob)
BY DEF Awaits

(* The policy's bounds are numbers (PolicyAssumption). *)
LEMMA Bounds == MaxOverflowRetries \in Nat /\ MaxCalls \in Nat
<1>1. \A x \in {Threshold, Retain, CompactionRetries, MaxOverflowRetries, MaxCalls} : x \in Nat
    BY PolicyAssumption
<1> QED BY <1>1

(* The fields of a transaction. *)
Fields(job, mode, at, left, gen, span, prepared) ==
    /\ DOMAIN job = JobFields /\ job # NoJob
    /\ job.mode = mode /\ job.at = at /\ job.left = left /\ job.gen = gen
    /\ job.span = span /\ job.ok = FALSE
    /\ job.whole = prepared.whole /\ job.input = prepared.input
    /\ job.priced = prepared.priced

(* A record of these fields is a transaction of JobFields. *)
LEMMA JobIs ==
    ASSUME NEW mode, NEW at, NEW left, NEW gen, NEW span, NEW prepared
    PROVE  Fields(Job(mode, at, left, gen, span, prepared), mode, at, left, gen, span, prepared)
<1>1. DOMAIN NoJob = {"at"}
    BY DEF NoJob
<1>2. PICK job : job = Job(mode, at, left, gen, span, prepared) OBVIOUS
<1>3. /\ DOMAIN job = JobFields
      /\ job.mode = mode /\ job.at = at /\ job.left = left /\ job.gen = gen
      /\ job.span = span /\ job.ok = FALSE
      /\ job.whole = prepared.whole /\ job.input = prepared.input
      /\ job.priced = prepared.priced
    BY <1>2 DEF Job, JobFields
<1>4. job # NoJob
    <2>1. "mode" \in DOMAIN job /\ "mode" \notin DOMAIN NoJob
        BY <1>1, <1>3 DEF JobFields
    <2> QED BY <2>1
<1> QED BY <1>2, <1>3, <1>4 DEF Fields

(* The driver has no transaction that awaits, or its phase says so. *)
LEMMA DriverFree ==
    ASSUME Control, phase \notin {"compacting", "maintenance"}
    PROVE  ~Awaits(jobs["driver"])
BY DEF Control, Assigned, Awaits

(* A turn ends. *)
LEMMA Ends ==
    ASSUME Inv, NEW s, Onward(session, s), EndTurn(s),
           floor' = floor, derived' = derived, jammed' = jammed,
           pairing' \in {pairing, Pair(pairing, s)},
           \A w \in Who \ {"driver"} : jobs'[w] = jobs[w], DOMAIN jobs' = Who,
           jobs'["driver"] = NoJob, ~Awaits(jobs["driver"])
    PROVE  Inv' /\ NoSummary
<1>1. Base(session, derived, pairing, floor, reqGen) /\ Folded(session)
    BY DEF Inv, Base
<1>2. PICK e : e = Ev("turn/end", "") OBVIOUS
<1>3. e.t = "turn/end"
    BY <1>2 DEF Ev
<1>4. session' = PutAll(s, <<e>>)
    BY <1>2 DEF EndTurn
<1>5. Folded(s) /\ Grown(session, s) /\ Kept(session, s)
    BY DEF Onward, Kept
<1>6. Kept(s, session')
    BY <1>3, <1>4, <1>5, KeptTurn
<1>7. Kept(session, session')
    BY <1>1, <1>5, <1>6, KeptOn
<1>8. Base(session', derived', pairing', floor', reqGen')
    <2>1. Folded(session') /\ Grown(s, session')
        BY <1>6 DEF Kept
    <2>2. reqGen' = reqGen
        BY DEF EndTurn
    <2> QED BY <1>1, <1>5, <2>1, <2>2, BaseVia
<1>9. \A w \in Who : jobs'[w] = jobs[w] \/ (~Awaits(jobs[w]) /\ ~Awaits(jobs'[w]))
    BY NotAwaiting
<1>10. Lock(session', jobs', jammed')
    <2>1. Lock(session, jobs, jammed) /\ ~Awaits(jobs'["driver"])
        BY NotAwaiting DEF Inv
    <2>2. PICK k : k = jobs' OBVIOUS
    <2>3. Lock(session', k, jammed)
        BY <1>1, <1>7, <1>9, <2>1, <2>2, LockOn
    <2> QED BY <2>2, <2>3
<1>11. NoSummary
    BY <1>7 DEF Kept, NoSummary
<1>12. Control'
    <2>1. phase' = "idle" /\ aborted' = FALSE /\ retries' \in {0, retries} /\ prompt' = ""
          /\ current' = "" /\ admitted' = TRUE /\ headed' = headed
        BY DEF EndTurn
    <2>2. phase' \in Phase
        BY <2>1 DEF Phase
    <2>3. retries' \in 0..MaxOverflowRetries
        <3>1. retries \in 0..MaxOverflowRetries
            BY DEF Inv, Control
        <3>2. retries' = 0 \/ retries' = retries
            BY <2>1
        <3>3. 0 \in 0..MaxOverflowRetries
            BY Bounds
        <3> QED BY <3>1, <3>2, <3>3
    <2>4. \A w \in Who : jobs'[w] # NoJob => JobOK(jobs'[w])
        BY DEF Inv, Control
    <2>5. Assigned'
        <3>1. jobs["caller"] # NoJob => jobs["caller"].at = "summary"
            BY DEF Inv, Control, Assigned
        <3>2. jobs'["caller"] = jobs["caller"]
            BY TwoJobs
        <3> QED BY <2>1, <3>1, <3>2 DEF Assigned
    <2> QED BY <2>1, <2>2, <2>3, <2>4, <2>5 DEF Inv, Control
<1> QED BY <1>8, <1>10, <1>11, <1>12 DEF Inv

(* The driver goes on after its compaction. *)
LEMMA GoesOn ==
    ASSUME Inv, NEW s, Onward(session, s), NEW mode \in {"pressure", "switch", "overflow"},
           mode = "overflow" => retries < MaxOverflowRetries,
           NEW ok, NEW gen, Continue(mode, ok, gen, s),
           floor' = floor, derived' = derived, jammed' = jammed,
           pairing' \in {pairing, Pair(pairing, s)},
           jobs' = [jobs EXCEPT !["driver"] = NoJob], ~Awaits(jobs["driver"])
    PROVE  Inv' /\ NoSummary
<1>1. Base(session, derived, pairing, floor, reqGen) /\ Folded(session)
    BY DEF Inv, Base
<1>2. /\ \A w \in Who \ {"driver"} : jobs'[w] = jobs[w]
      /\ DOMAIN jobs' = Who /\ jobs'["driver"] = NoJob
    BY TwoJobs DEF Inv, Control
<1>3. CASE After(mode, ok, gen, s) = "fail"
    <2>1. EndTurn(s)
        BY <1>3 DEF Continue
    <2> QED BY <1>2, <2>1, Ends
<1>4. CASE After(mode, ok, gen, s) # "fail"
    <2>1. /\ session' = s /\ phase' = After(mode, ok, gen, s)
          /\ retries' = IF mode = "overflow" THEN retries + 1 ELSE retries
          /\ aborted' = aborted /\ prompt' = prompt /\ admitted' = admitted
          /\ headed' = headed /\ reqGen' = reqGen /\ current' = current
        BY <1>4 DEF Continue
    <2>2. phase' \in {"preparing", "prepared"}
        BY <1>4, <2>1 DEF After
    <2>3. Folded(s) /\ Grown(session, s) /\ Grown(s, s) /\ Kept(session, s)
        BY GrownSelf DEF Onward, Kept
    <2>4. Base(session', derived', pairing', floor', reqGen')
        BY <1>1, <2>1, <2>3, BaseVia
    <2>5. Lock(session', jobs', jammed')
        <3>1. \A w \in Who : jobs'[w] = jobs[w] \/ (~Awaits(jobs[w]) /\ ~Awaits(jobs'[w]))
            BY <1>2, NotAwaiting
        <3>2. Lock(session, jobs, jammed)
            BY DEF Inv
        <3>3. PICK k : k = jobs' OBVIOUS
        <3>4. Lock(s, k, jammed)
            BY <1>1, <2>3, <3>1, <3>2, <3>3, LockOn
        <3> QED BY <2>1, <3>3, <3>4
    <2>6. NoSummary
        BY <2>1, <2>3 DEF Kept, NoSummary
    <2>7. Control'
        <3>1. phase' \in Phase
            BY <2>2 DEF Phase
        <3>2. retries' \in 0..MaxOverflowRetries
            <4>1. retries \in 0..MaxOverflowRetries /\ MaxOverflowRetries \in Nat
                BY Bounds DEF Inv, Control
            <4> QED BY <2>1, <4>1
        <3>3. \A w \in Who : jobs'[w] # NoJob => JobOK(jobs'[w])
            BY <1>2 DEF Inv, Control
        <3>4. Assigned'
            <4>1. jobs["caller"] # NoJob => jobs["caller"].at = "summary"
                BY DEF Inv, Control, Assigned
            <4>2. jobs'["caller"] = jobs["caller"]
                BY <1>2, TwoJobs
            <4> QED BY <1>2, <2>2, <4>1, <4>2 DEF Assigned
        <3> QED BY <1>2, <2>1, <3>1, <3>2, <3>3, <3>4 DEF Inv, Control
    <2> QED BY <2>4, <2>5, <2>6, <2>7 DEF Inv
<1> QED BY <1>3, <1>4

(* A transaction opens its bracket. *)
Begun(u, t, j, k, w, mode, left, gen, span) ==
    /\ t = PutAll(u, <<Ev("compaction/start", mode)>>)
    /\ k = [j EXCEPT ![w] = Job(mode, "summary", left, gen, span, Prepare(u, span))]

(* A transaction that begins keeps the invariant, its measure just taken. *)
LEMMA Begins ==
    ASSUME NEW s, NEW t, NEW u, NEW j, NEW k, NEW jam \in BOOLEAN, NEW w \in Who,
           Folded(s), Onward(s, u), Lock(s, j, jam), DOMAIN j = Who,
           NEW pair, NEW mode, NEW left, NEW gen, NEW span, ~Refused(u, pair, mode, span),
           Begun(u, t, j, k, w, mode, left, gen, span), ~Awaits(j[w])
    PROVE  /\ Folded(t) /\ Grown(u, t) /\ Lock(t, k, jam)
           /\ \A e \in Range(t.log) \ Range(s.log) : e.t # "checkpoint"
<1>1. /\ Folded(u) /\ Grown(s, u) /\ Kept(s, u) /\ Locked(u.log) = Locked(s.log)
      /\ OpenTurn(u.log) = OpenTurn(s.log) /\ \A e \in Range(u.log) \ Range(s.log) : e.t # "checkpoint"
    BY DEF Onward, Kept
<1>2. Valid(u, pair, span) /\ ~Locked(u.log) /\ OpenTurn(u.log) # (mode = "manual")
    BY DEF Refused
<1>3. OpenTurn(u.log) = (mode # "manual")
    <2>1. OpenTurn(u.log) \in BOOLEAN
        BY DEF OpenTurn, Stands
    <2> QED BY <1>2, <2>1
<1>4. /\ Folded(t) /\ Grown(u, t) /\ Locked(t.log) /\ OpenTurn(t.log) = OpenTurn(u.log)
      /\ \A e \in Range(t.log) \ Range(u.log) : e.t # "checkpoint"
    BY <1>1, Opens DEF Begun
<1>5. PICK job : job = Job(mode, "summary", left, gen, span, Prepare(u, span)) OBVIOUS
<1>6. /\ job # NoJob /\ job.mode = mode /\ job.at = "summary" /\ job.span = span
      /\ job.whole = Prepare(u, span).whole /\ job.input = Prepare(u, span).input
      /\ job.priced = Prepare(u, span).priced
    <2>1. PICK prepared : prepared = Prepare(u, span) OBVIOUS
    <2>2. job = Job(mode, "summary", left, gen, span, prepared)
        BY <1>5, <2>1
    <2>3. Fields(job, mode, "summary", left, gen, span, prepared)
        BY <2>2, JobIs
    <2> QED BY <2>1, <2>3 DEF Fields
<1>7. k[w] = job /\ \A v \in Who \ {w} : k[v] = j[v]
    BY <1>5 DEF Begun
<1>8. Fed(u, job)
    <2> DEFINE D == {i \in DOMAIN u.log : u.log[i].t \in SurfaceType}
    <2>1. u.nodes \in Seq(D)
        BY <1>1 DEF Folded
    <2> HIDE DEF D
    <2>2. /\ Position(u.nodes, span[1]) \in 0..Len(u.nodes)
          /\ Position(u.nodes, span[2]) \in 0..Len(u.nodes)
        BY <2>1, PositionFound
    <2>3. Position(u.nodes, span[1]) \in 1..Position(u.nodes, span[2])
        BY <1>2, <2>2 DEF Valid
    <2> QED BY <1>1, <1>6, <2>3, FedNow
<1>9. Fed(t, job)
    BY <1>1, <1>4, <1>8, FedOn
<1>10. Lock(u, j, jam)
    BY <1>1, LockOn
<1>11. Awaits(k[w]) /\ Fed(t, k[w]) /\ InTurn(u, k[w])
    BY <1>3, <1>6, <1>7, <1>9 DEF Awaits, InTurn
<1>12. Lock(t, k, jam)
    BY <1>1, <1>2, <1>4, <1>7, <1>10, <1>11, LockTaken
<1> QED BY <1>1, <1>4, <1>12

(* The driver compacts the best range, or goes on without. *)
LEMMA Attempts ==
    ASSUME Inv, NEW s, Onward(session, s), NEW mode \in {"pressure", "switch", "overflow"},
           mode = "overflow" => retries < MaxOverflowRetries,
           NEW priced, NEW retain, NEW left, NEW gen, Attempt(mode, s, priced, retain, left, gen),
           floor' = floor, derived' = derived, jammed' = jammed, ~Awaits(jobs["driver"])
    PROVE  Inv' /\ NoSummary
<1>1. Base(session, derived, pairing, floor, reqGen) /\ Folded(session)
    BY DEF Inv, Base
<1>2. PICK pair, span :
         /\ pair = Pair(pairing, s)
         /\ pairing' \in {pairing, pair}
         /\ IF span = <<>> \/ Refused(s, pair, mode, span)
            THEN jobs' = [jobs EXCEPT !["driver"] = NoJob] /\ Continue(mode, FALSE, gen, s)
            ELSE /\ Begin("driver", s, mode, left, gen, span)
                 /\ phase' = "compacting"
                 /\ UNCHANGED <<aborted, prompt, admitted, headed, reqGen, retries, current>>
    BY DEF Attempt
<1>3. CASE span = <<>> \/ Refused(s, pair, mode, span)
    <2>1. jobs' = [jobs EXCEPT !["driver"] = NoJob] /\ Continue(mode, FALSE, gen, s)
        BY <1>2, <1>3
    <2>2. pairing' \in {pairing, Pair(pairing, s)}
        BY <1>2
    <2> QED BY <2>1, <2>2, GoesOn
<1>4. CASE ~Refused(s, pair, mode, span) /\ span # <<>>
    <2>1. /\ Begin("driver", s, mode, left, gen, span) /\ phase' = "compacting"
          /\ aborted' = aborted /\ prompt' = prompt /\ admitted' = admitted
          /\ headed' = headed /\ reqGen' = reqGen /\ retries' = retries /\ current' = current
        BY <1>2, <1>4
    <2>2. PICK job : job = Job(mode, "summary", left, gen, span, Prepare(s, span))
        OBVIOUS
    <2>3. /\ session' = PutAll(s, <<Ev("compaction/start", mode)>>)
          /\ jobs' = [jobs EXCEPT !["driver"] = job]
        BY <2>1, <2>2 DEF Begin
    <2>4. /\ Folded(session') /\ Grown(s, session') /\ Lock(session', jobs', jammed)
          /\ \A e \in Range(session'.log) \ Range(session.log) : e.t # "checkpoint"
        <3>1. Lock(session, jobs, jammed) /\ DOMAIN jobs = Who /\ jammed \in BOOLEAN
            BY DEF Inv, Control
        <3>2. PICK k : k = jobs' OBVIOUS
        <3>3. PICK t : t = session' OBVIOUS
        <3>4. Begun(s, t, jobs, k, "driver", mode, left, gen, span)
            BY <2>2, <2>3, <3>2, <3>3 DEF Begun
        <3>6. /\ Folded(t) /\ Grown(s, t) /\ Lock(t, k, jammed)
              /\ \A e \in Range(t.log) \ Range(session.log) : e.t # "checkpoint"
            BY <1>1, <1>4, <3>1, <3>4, TwoJobs, Begins
        <3> QED BY <3>2, <3>3, <3>6
    <2>5. Folded(s) /\ Grown(session, s)
        BY DEF Onward, Kept
    <2>6. Base(session', derived', pairing', floor', reqGen')
        BY <1>1, <1>2, <2>1, <2>4, <2>5, BaseVia
    <2>7. /\ job # NoJob /\ DOMAIN job = JobFields /\ job.mode = mode /\ job.at = "summary"
        <3>1. PICK prepared : prepared = Prepare(s, span) OBVIOUS
        <3>2. job = Job(mode, "summary", left, gen, span, prepared)
            BY <2>2, <3>1
        <3>3. Fields(job, mode, "summary", left, gen, span, prepared)
            BY <3>2, JobIs
        <3> QED BY <3>3 DEF Fields
    <2>8. jobs'["driver"] = job /\ jobs'["caller"] = jobs["caller"] /\ DOMAIN jobs' = Who
        BY <2>3, TwoJobs DEF Inv, Control
    <2>9. Control'
        <3>1. phase' \in Phase
            BY <2>1 DEF Phase
        <3>2. JobOK(job)
            BY <2>7 DEF JobOK
        <3>3. \A w \in Who : jobs'[w] # NoJob => JobOK(jobs'[w])
            BY <2>8, <3>2, TwoJobs DEF Inv, Control
        <3>4. Assigned'
            <4>1. jobs["caller"] # NoJob => jobs["caller"].at = "summary"
                BY DEF Inv, Control, Assigned
            <4> QED BY <2>1, <2>7, <2>8, <4>1 DEF Assigned
        <3> QED BY <2>1, <2>8, <3>1, <3>3, <3>4 DEF Inv, Control
    <2> QED BY <2>4, <2>6, <2>9 DEF Inv, NoSummary
<1> QED BY <1>3, <1>4

-----------------------------------------------------------------------------
(* The steps of the loop. *)

(* Phases without a transaction of the driver. *)
Free == {"idle", "intake", "preparing", "prepared", "requesting", "tools", "stopping"}

(* In these phases the driver has no transaction. *)
LEMMA FreeDriver ==
    ASSUME Control, phase \in Free
    PROVE  jobs["driver"] = NoJob /\ ~Awaits(jobs["driver"])
BY NotAwaiting DEF Control, Free

Prompts == {r.prompt : r \in Renderings} \cup {""}
Contexts == {r.context : r \in Renderings} \cup {""}

(* A step that opens and closes no bracket keeps the invariant. *)
LEMMA Walks ==
    ASSUME Inv, Kept(session, session'), Control',
           \A w \in Who : jobs'[w] = jobs[w] \/ (~Awaits(jobs[w]) /\ ~Awaits(jobs'[w])),
           Onward(session, session') \/ ~Awaits(jobs'["driver"]),
           jammed' = jammed, floor' \in {floor, Len(session.log)},
           derived' \in {derived, Derive(derived, session')},
           pairing' \in {pairing, Pair(pairing, session)},
           reqGen' \in {reqGen, session'.contents}
    PROVE  Inv' /\ NoSummary
<1>1. /\ Base(session, derived, pairing, floor, reqGen) /\ Folded(session)
      /\ Lock(session, jobs, jammed)
    BY DEF Inv, Base
<1>2. Folded(session') /\ Grown(session, session')
    BY DEF Kept
<1>3. Base(session', derived', pairing', floor', reqGen')
    BY <1>1, <1>2, BaseOn
<1>4. Lock(session', jobs', jammed')
    <2>1. PICK k : k = jobs' OBVIOUS
    <2>2. Lock(session', k, jammed)
        BY <1>1, <2>1, LockOn
    <2> QED BY <2>1, <2>2
<1>5. NoSummary
    BY DEF Kept, NoSummary
<1> QED BY <1>3, <1>4, <1>5 DEF Inv

(* So does one that leaves the session alone. *)
LEMMA Strolls ==
    ASSUME Inv, Kept(session, session'), phase \in Free, phase' \in Free,
           jobs' = jobs, jammed' = jammed, floor' = floor, pairing' = pairing,
           aborted' \in BOOLEAN, admitted' \in BOOLEAN, headed' \in BOOLEAN,
           prompt' \in Prompts, current' \in Contexts, retries' \in {0, retries},
           derived' \in {derived, Derive(derived, session')},
           reqGen' \in {reqGen, session'.contents}
    PROVE  Inv' /\ NoSummary
<1>1. Control
    BY DEF Inv
<1>2. jobs["driver"] = NoJob /\ ~Awaits(jobs["driver"])
    BY <1>1, FreeDriver
<1>3. Control'
    <2>1. phase' \in Phase
        BY DEF Free, Phase
    <2>2. retries' \in 0..MaxOverflowRetries
        <3>1. retries \in 0..MaxOverflowRetries
            BY <1>1 DEF Control
        <3>2. 0 \in 0..MaxOverflowRetries
            BY Bounds
        <3> QED BY <3>1, <3>2
    <2>3. Assigned'
        BY <1>1, <1>2 DEF Control, Assigned, Free
    <2> QED BY <1>1, <1>2, <2>1, <2>2, <2>3 DEF Control, Prompts, Contexts
<1> QED BY <1>2, <1>3, Walks

(* The session's part of the invariant gives the types of its fields. *)
LEMMA TypesNow ==
    ASSUME Inv
    PROVE  /\ Folded(session) /\ Control
           /\ aborted \in BOOLEAN /\ admitted \in BOOLEAN /\ headed \in BOOLEAN
           /\ prompt \in Prompts /\ current \in Contexts
BY DEF Inv, Base, Control, Prompts, Contexts

(* A turn opens (agent.ts), with no transaction of the driver. *)
LEMMA StartTurnKeeps ==
    ASSUME Inv, StartTurn
    PROVE  Inv' /\ NoSummary
<1>1. PICK e : e = Ev("turn/start", "") OBVIOUS
<1>2. e.t = "turn/start" /\ session' = Put(session, e)
    BY <1>1 DEF StartTurn, Ev
<1>3. Kept(session, session')
    BY <1>2, TypesNow, KeptTurn, PutOne
<1>4. phase \in Free /\ phase' \in Free
    BY DEF StartTurn, Free
<1> QED BY <1>3, <1>4, TypesNow, Strolls DEF StartTurn, cacheVars

(* The intake answers an input. *)
LEMMA IntakeReplyKeeps ==
    ASSUME Inv, IntakeReply
    PROVE  Inv' /\ NoSummary
<1>1. PICK a : a = IF session.nodes = <<>> THEN <<Ev("system", "")>> ELSE <<>> OBVIOUS
<1>2. PICK b : b = IF admitted THEN <<>> ELSE <<Ev("input", "")>> OBVIOUS
<1>3. PICK c : c = <<Ev("assistant", 0)>> OBVIOUS
<1>4. session' = PutAll(session, a \o b \o c)
    BY <1>1, <1>2, <1>3 DEF IntakeReply
<1>5. Of(<<>>, Quiet)
    BY OfNone
<1>6. Of(a, Quiet)
    <2>1. Of(<<Ev("system", "")>>, Quiet)
        BY QuietOne DEF Quiet
    <2> QED BY <1>1, <1>5, <2>1
<1>7. Of(b, Quiet)
    <2>1. Of(<<Ev("input", "")>>, Quiet)
        BY QuietOne DEF Quiet
    <2> QED BY <1>2, <1>5, <2>1
<1>8. Of(c, Quiet)
    <2>1. PICK e : e = Ev("assistant", 0) OBVIOUS
    <2>2. e.t \in Quiet /\ Counted(e)
        BY <2>1 DEF Ev, Quiet, Counted
    <2>3. Of(<<e>>, Quiet)
        BY <2>2, OfOne
    <2> QED BY <1>3, <2>1, <2>3
<1>9. Of(a \o b \o c, Quiet)
    BY <1>6, <1>7, <1>8, OfConcat
<1>10. Kept(session, session')
    <2>1. Onward(session, PutAll(session, a \o b \o c))
        BY <1>9, TypesNow, OnwardQuiet
    <2> QED BY <1>4, <2>1 DEF Onward
<1>11. phase \in Free /\ phase' \in Free
    BY DEF IntakeReply, Free
<1> QED BY <1>10, <1>11, TypesNow, Strolls DEF IntakeReply, cacheVars

(* What the driver's phase and transaction are while it asks for the capacity. *)
LEMMA AskingIs ==
    ASSUME NEW mode, NEW s
    PROVE  /\ DOMAIN Asking(mode, s) = JobFields /\ Asking(mode, s) # NoJob
           /\ Asking(mode, s).mode = mode /\ Asking(mode, s).at = "info"
<1>1. PICK left, gen, prepared : Asking(mode, s) = Job(mode, "info", left, gen, <<>>, prepared)
    BY DEF Asking
<1>2. PICK job : job = Job(mode, "info", left, gen, <<>>, prepared) OBVIOUS
<1>3. Fields(job, mode, "info", left, gen, <<>>, prepared)
    BY <1>2, JobIs
<1> QED BY <1>1, <1>2, <1>3 DEF Fields

(* The driver asks for the capacity of the model. *)
LEMMA Asks ==
    ASSUME Inv, phase \in Free, NEW mode \in {"pressure", "switch"},
           jobs' = [jobs EXCEPT !["driver"] = Asking(mode, session)],
           phase' \in {"pressure", "switching"}, prompt' \in Prompts,
           UNCHANGED <<session, floor, aborted, admitted, headed, reqGen, retries, current, cacheVars,
                       jammed>>
    PROVE  Inv' /\ NoSummary
<1>1. Control /\ Folded(session)
    BY TypesNow
<1>2. jobs["driver"] = NoJob /\ ~Awaits(jobs["driver"])
    BY <1>1, FreeDriver
<1>3. PICK job : job = Asking(mode, session) OBVIOUS
<1>4. DOMAIN job = JobFields /\ job # NoJob /\ job.mode = mode /\ job.at = "info"
    BY <1>3, AskingIs
<1>5. jobs'["driver"] = job /\ jobs'["caller"] = jobs["caller"] /\ DOMAIN jobs' = Who
    BY <1>1, <1>3, TwoJobs DEF Control
<1>6. ~Awaits(jobs'["driver"])
    BY <1>4, <1>5 DEF Awaits
<1>7. Control'
    <2>1. phase' \in Phase
        BY DEF Phase
    <2>2. JobOK(job)
        BY <1>4 DEF JobOK
    <2>3. \A w \in Who : jobs'[w] # NoJob => JobOK(jobs'[w])
        BY <1>1, <1>5, <2>2, TwoJobs DEF Control
    <2>4. Assigned'
        <3>1. jobs["caller"] # NoJob => jobs["caller"].at = "summary"
            BY <1>1 DEF Control, Assigned
        <3> QED BY <1>4, <1>5, <3>1 DEF Assigned
    <2> QED BY <1>1, <1>5, <2>1, <2>3, <2>4 DEF Control, Prompts
<1>8. Kept(session, session') /\ Onward(session, session')
    BY <1>1, OnwardSelf DEF Onward
<1>9. \A w \in Who : jobs'[w] = jobs[w] \/ (~Awaits(jobs[w]) /\ ~Awaits(jobs'[w]))
    BY <1>2, <1>5, <1>6, TwoJobs
<1> QED BY <1>7, <1>8, <1>9, Walks DEF cacheVars

(* The intake passes an input on to the loop. *)
LEMMA IntakePassKeeps ==
    ASSUME Inv, IntakePass
    PROVE  Inv' /\ NoSummary
<1>1. phase \in Free /\ prompt' \in Prompts
    BY DEF IntakePass, Free, Prompts
<1>2. CASE headed /\ ~aborted
    <2>1. phase' = "pressure" /\ jobs' = [jobs EXCEPT !["driver"] = Asking("pressure", session)]
        BY <1>2 DEF IntakePass
    <2> QED BY <1>1, <2>1, Asks DEF IntakePass
<1>3. CASE ~(headed /\ ~aborted)
    <2>1. phase' \in Free /\ jobs' = jobs
        BY <1>3 DEF IntakePass, Free
    <2>2. Kept(session, session')
        BY TypesNow, OnwardSelf DEF Onward, IntakePass
    <2> QED BY <1>1, <2>1, <2>2, TypesNow, Strolls DEF IntakePass, cacheVars
<1> QED BY <1>2, <1>3

(* A change of model touches neither session nor transaction. *)
LEMMA SwitchModelKeeps ==
    ASSUME Inv, SwitchModel
    PROVE  Inv' /\ NoSummary
<1>1. phase \in Free /\ prompt' \in Prompts
    BY TypesNow DEF SwitchModel, Free
<1>2. phase' = "switching" /\ jobs' = [jobs EXCEPT !["driver"] = Asking("switch", session)]
    BY DEF SwitchModel
<1> QED BY <1>1, <1>2, Asks DEF SwitchModel

(* A prepared step is about to send its request. *)
LEMMA PreparedKeeps ==
    ASSUME Inv, Prepared
    PROVE  Inv' /\ NoSummary
<1>1. phase \in Free /\ phase' \in Free
    BY DEF Prepared, Enter, Free
<1>2. Kept(session, session')
    BY TypesNow, OnwardSelf DEF Onward, Prepared
<1> QED BY <1>1, <1>2, TypesNow, Strolls DEF Prepared, Enter, cacheVars

(* The request brings header, prompt and context to the surface. *)
LEMMA RequestKeeps ==
    ASSUME Inv, Request
    PROVE  Inv' /\ NoSummary
<1>0. PICK r \in Renderings :
         \E starts, a, b, c, d :
         /\ a = PromptEvents(session, prompt, r.inHistory, starts)
         /\ b = IF admitted THEN <<>> ELSE <<Ev("input", "")>>
         /\ c = ContextEvents(session, r.context)
         /\ d = IF headed THEN <<>> ELSE <<Ev("header", "")>>
         /\ current' = r.context
         /\ session' = PutAll(session, a \o b \o c \o d)
         /\ reqGen' = session'.contents /\ derived' = Derive(derived, session')
    BY DEF Request
<1>1. PICK starts, a, b, c, d :
         /\ a = PromptEvents(session, prompt, r.inHistory, starts)
         /\ b = IF admitted THEN <<>> ELSE <<Ev("input", "")>>
         /\ c = ContextEvents(session, r.context)
         /\ d = IF headed THEN <<>> ELSE <<Ev("header", "")>>
         /\ current' = r.context
         /\ session' = PutAll(session, a \o b \o c \o d)
         /\ reqGen' = session'.contents /\ derived' = Derive(derived, session')
    BY <1>0
<1>2. Of(<<>>, Quiet)
    BY OfNone
<1>3. Of(a, Quiet)
    BY <1>1, TypesNow, PromptQuiet
<1>4. Of(b, Quiet)
    <2>1. Of(<<Ev("input", "")>>, Quiet)
        BY QuietOne DEF Quiet
    <2> QED BY <1>1, <1>2, <2>1
<1>5. Of(c, Quiet)
    BY <1>1, ContextQuiet
<1>6. Of(d, Quiet)
    <2>1. Of(<<Ev("header", "")>>, Quiet)
        BY QuietOne DEF Quiet
    <2> QED BY <1>1, <1>2, <2>1
<1>7. Of(a \o b \o c \o d, Quiet)
    <2>1. Of(a \o b, Quiet)
        BY <1>3, <1>4, OfConcat
    <2>2. Of(a \o b \o c, Quiet)
        BY <1>5, <2>1, OfConcat
    <2> QED BY <1>6, <2>2, OfConcat
<1>8. Kept(session, session')
    <2>1. Onward(session, PutAll(session, a \o b \o c \o d))
        BY <1>7, TypesNow, OnwardQuiet
    <2> QED BY <1>1, <2>1 DEF Onward
<1>9. phase \in Free /\ phase' \in Free /\ current' \in Contexts
    BY <1>1 DEF Request, Free, Contexts
<1> QED BY <1>1, <1>8, <1>9, TypesNow, Strolls DEF Request

(* The answer joins the surface, with the calls it opens. *)
LEMMA RespondKeeps ==
    ASSUME Inv, Respond
    PROVE  Inv' /\ NoSummary
<1>1. PICK calls \in 0..MaxCalls : session' = Put(session, Ev("assistant", calls))
    BY DEF Respond
<1>2. PICK e : e = Ev("assistant", calls) OBVIOUS
<1>3. calls \in Nat
    BY Bounds
<1>4. e.t \in Quiet /\ Counted(e)
    BY <1>2, <1>3 DEF Ev, Quiet, Counted
<1>5. Kept(session, session')
    BY <1>1, <1>2, <1>4, TypesNow, OnwardPut DEF Onward
<1>6. phase \in Free /\ phase' \in Free
    BY DEF Respond, Free
<1> QED BY <1>5, <1>6, TypesNow, Strolls DEF Respond, cacheVars

(* A tool result joins the surface. *)
LEMMA ToolResultKeeps ==
    ASSUME Inv, ToolResult
    PROVE  Inv' /\ NoSummary
<1>1. PICK e : e = Ev("result", "full") OBVIOUS
<1>2. session' = Put(session, e) /\ e.t \in Quiet /\ Counted(e)
    BY <1>1 DEF ToolResult, Ev, Quiet, Counted
<1>3. Kept(session, session')
    BY <1>2, TypesNow, OnwardPut DEF Onward
<1>4. phase \in Free /\ phase' \in Free
    BY DEF ToolResult, Free
<1> QED BY <1>3, <1>4, TypesNow, Strolls DEF ToolResult, cacheVars

(* The abort of a turn changes no bracket by itself. *)
LEMMA AbortKeeps ==
    ASSUME Inv, Abort
    PROVE  Inv' /\ NoSummary
<1>1. Kept(session, session') /\ Onward(session, session')
    BY TypesNow, OnwardSelf DEF Onward, Abort
<1>2. Control'
    BY TypesNow DEF Control, Assigned, Abort
<1> QED BY <1>1, <1>2, Walks DEF Abort, cacheVars

(* An observer's edit or offload goes on from the surface as it is. *)
LEMMA EditKeeps ==
    ASSUME Inv, Edit
    PROVE  Inv' /\ NoSummary
<1>1. Folded(session) /\ Control
    BY TypesNow
<1>2. Onward(session, session')
    <2>1. CASE session' = Put(session, Ev("input", ""))
        <3>1. PICK e : e = Ev("input", "") OBVIOUS
        <3>2. e.t \in Quiet /\ Counted(e)
            BY <3>1 DEF Ev, Quiet, Counted
        <3> QED BY <1>1, <2>1, <3>1, <3>2, OnwardPut
    <2>2. ASSUME NEW n \in Range(session.nodes), session' = Put(session, Rewrite("result", "cut", n, n))
          PROVE  Onward(session, session')
        <3>1. PICK e : e = Rewrite("result", "cut", n, n) OBVIOUS
        <3>2. e.t \in Quiet /\ Counted(e)
            BY <3>1 DEF Rewrite, Quiet, Counted
        <3> QED BY <1>1, <2>2, <3>1, <3>2, OnwardPut
    <2>3. ASSUME NEW n \in Range(session.nodes), session.log[n].t = "input",
                 session' = Put(session, Ev("offload", n))
          PROVE  Onward(session, session')
        <3>1. n \in OfType(session, "input")
            <4> DEFINE D == {i \in DOMAIN session.log : session.log[i].t \in SurfaceType}
            <4>1. session.nodes \in Seq(D)
                BY <1>1 DEF Folded
            <4> HIDE DEF D
            <4>2. n \in D
                BY <4>1 DEF Range
            <4> QED BY <2>3, <4>2 DEF D, OfType
        <3> QED BY <1>1, <2>3, <3>1, OnwardOffload
    <2> QED BY <2>1, <2>2, <2>3 DEF Edit
<1>3. Kept(session, session')
    BY <1>2 DEF Onward
<1>4. Control'
    <2>1. /\ jobs' = jobs /\ jammed' = jammed /\ phase' = phase /\ retries' = retries
          /\ aborted' = aborted /\ admitted' = admitted /\ headed' = headed
          /\ prompt' = prompt /\ current' = current
        BY DEF Edit, turnVars
    <2>2. Assigned'
        BY <1>1, <2>1 DEF Control, Assigned
    <2> QED BY <1>1, <2>1, <2>2 DEF Control
<1>5. /\ jobs' = jobs /\ jammed' = jammed /\ floor' = floor
      /\ derived' = derived /\ pairing' = pairing /\ reqGen' = reqGen
    BY DEF Edit, turnVars, cacheVars
<1> QED BY <1>2, <1>3, <1>4, <1>5, Walks

-----------------------------------------------------------------------------
(* Ends of turns and the triggers of compaction. *)

(* A failed step ends its turn. *)
LEMMA FailStepKeeps ==
    ASSUME Inv, FailStep
    PROVE  Inv' /\ NoSummary
<1>1. Folded(session) /\ Control
    BY TypesNow
<1>2. phase \in Free
    BY DEF FailStep, Free
<1>3. jobs["driver"] = NoJob /\ ~Awaits(jobs["driver"]) /\ DOMAIN jobs = Who
    BY <1>1, <1>2, FreeDriver DEF Control
<1>4. PICK s : Onward(session, s) /\ EndTurn(s)
    <2>1. CASE EndTurn(session)
        BY <1>1, <2>1, OnwardSelf
    <2>2. CASE EndTurn(Put(session, Ev("assistant", 0)))
        <3>1. PICK e : e = Ev("assistant", 0) OBVIOUS
        <3>2. e.t \in Quiet /\ Counted(e)
            BY <3>1 DEF Ev, Quiet, Counted
        <3>3. Onward(session, Put(session, e))
            BY <1>1, <3>2, OnwardPut
        <3> QED BY <2>2, <3>1, <3>3
    <2> QED BY <2>1, <2>2 DEF FailStep
<1> QED BY <1>3, <1>4, Ends DEF FailStep, cacheVars

(* A failed batch of tools ends its turn. *)
LEMMA ToolsFailKeeps ==
    ASSUME Inv, ToolsFail
    PROVE  Inv' /\ NoSummary
<1>1. Folded(session) /\ Control
    BY TypesNow
<1>2. phase \in Free
    BY DEF ToolsFail, Free
<1>3. jobs["driver"] = NoJob /\ ~Awaits(jobs["driver"]) /\ DOMAIN jobs = Who
    BY <1>1, <1>2, FreeDriver DEF Control
<1>4. Unanswered(session, Len(session.nodes)) \in Int
    <2> DEFINE D == {i \in DOMAIN session.log : session.log[i].t \in SurfaceType}
    <2>1. session.nodes \in Seq(D)
        BY <1>1 DEF Folded
    <2> HIDE DEF D
    <2>2. Len(session.nodes) \in 0..Len(session.nodes)
        BY <2>1
    <2> QED BY <1>1, <2>2, UnansweredInt
<1>5. PICK n \in Int : EndTurn(PutAll(session, [i \in 1..n |-> Ev("result", "cut")]))
    BY <1>4 DEF ToolsFail
<1>6. PICK e : e = Ev("result", "cut") OBVIOUS
<1>7. e.t \in Quiet /\ Counted(e)
    BY <1>6 DEF Ev, Quiet, Counted
<1>8. Of([i \in 1..n |-> e], Quiet)
    BY <1>7, OfSome
<1>9. PICK es : es = [i \in 1..n |-> e] OBVIOUS
<1>10. Onward(session, PutAll(session, es)) /\ EndTurn(PutAll(session, es))
    BY <1>1, <1>5, <1>6, <1>8, <1>9, OnwardQuiet
<1> QED BY <1>3, <1>10, Ends DEF ToolsFail, cacheVars

(* A turn stops. *)
LEMMA StopKeeps ==
    ASSUME Inv, Stop
    PROVE  Inv' /\ NoSummary
<1>1. Folded(session) /\ Control
    BY TypesNow
<1>2. phase \in Free
    BY DEF Stop, Free
<1>3. jobs["driver"] = NoJob /\ ~Awaits(jobs["driver"]) /\ DOMAIN jobs = Who
    BY <1>1, <1>2, FreeDriver DEF Control
<1>4. Onward(session, session) /\ Kept(session, session)
    BY <1>1, OnwardSelf DEF Onward
<1>5. CASE EndTurn(session)
    BY <1>3, <1>4, <1>5, Ends DEF Stop, cacheVars
<1>6. CASE ~EndTurn(session)
    <2>1. phase' \in Free
        BY <1>6 DEF Stop, Free
    <2> QED BY <1>2, <1>4, <1>6, <2>1, TypesNow, Strolls DEF Stop, cacheVars
<1> QED BY <1>5, <1>6

(* A transaction of the driver in a turn. *)
LEMMA DriverMode ==
    ASSUME Control, jobs["driver"] # NoJob, jobs["driver"].mode # "manual"
    PROVE  /\ jobs["driver"].mode \in {"pressure", "switch", "overflow"}
           /\ jobs["driver"].mode = "overflow" => retries < MaxOverflowRetries
BY TwoJobs DEF Control, Assigned, JobOK

(* The capacity check lets the step go on, prunes, or opens a bracket. *)
LEMMA PricedKeeps ==
    ASSUME Inv, Priced
    PROVE  Inv' /\ NoSummary
<1>1. Folded(session) /\ Control
    BY TypesNow
<1>2. PICK job : job = jobs["driver"] OBVIOUS
<1>3. /\ jobs["driver"] # NoJob /\ jobs["driver"].at = "info"
      /\ jobs["driver"].mode # "manual"
    BY <1>1 DEF Priced, Control, Assigned
<1>4. /\ job.mode \in {"pressure", "switch", "overflow"}
      /\ job.mode = "overflow" => retries < MaxOverflowRetries
      /\ ~Awaits(jobs["driver"])
    BY <1>1, <1>2, <1>3, DriverMode DEF Awaits
<1>5. PICK mode \in {"pressure", "switch", "overflow"} : mode = job.mode
    BY <1>4
<1>6. Onward(session, session)
    BY <1>1, OnwardSelf
<1>7. floor' = floor /\ derived' = derived /\ jammed' = jammed
    BY DEF Priced
<1>8. PICK u : u = Pruned(session) OBVIOUS
<1>9. Onward(session, u)
    BY <1>1, <1>8, OnwardPruned
<1>10. \/ \E s \in {session, u}, ok \in BOOLEAN :
             /\ jobs' = [jobs EXCEPT !["driver"] = NoJob]
             /\ Continue(mode, ok, job.gen, s) /\ pairing' = pairing
       \/ Attempt(mode, session, job.whole, Retain, CompactionRetries, job.gen)
       \/ Attempt(mode, u, Measure(u), Retain, CompactionRetries, job.gen)
    BY <1>2, <1>5, <1>8 DEF Priced
<1>11. ASSUME NEW s \in {session, u}, NEW ok \in BOOLEAN,
              jobs' = [jobs EXCEPT !["driver"] = NoJob],
              Continue(mode, ok, job.gen, s), pairing' = pairing
       PROVE  Inv' /\ NoSummary
    <2>1. Onward(session, s) /\ (mode = "overflow" => retries < MaxOverflowRetries)
        BY <1>4, <1>5, <1>6, <1>9
    <2> QED BY <1>4, <1>7, <1>11, <2>1, GoesOn
<1>12. CASE Attempt(mode, session, job.whole, Retain, CompactionRetries, job.gen)
    BY <1>4, <1>5, <1>6, <1>7, <1>12, Attempts
<1>13. CASE Attempt(mode, u, Measure(u), Retain, CompactionRetries, job.gen)
    BY <1>4, <1>5, <1>9, <1>7, <1>13, Attempts
<1> QED BY <1>10, <1>11, <1>12, <1>13

(* An overflow at the model prunes or opens a bracket. *)
LEMMA OverflowKeeps ==
    ASSUME Inv, Overflow
    PROVE  Inv' /\ NoSummary
<1>1. Folded(session) /\ Control
    BY TypesNow
<1>2. phase \in Free /\ retries < MaxOverflowRetries
    BY DEF Overflow, Free
<1>3. ~Awaits(jobs["driver"])
    BY <1>1, <1>2, FreeDriver
<1>4. PICK u : u = Pruned(session) OBVIOUS
<1>5. Onward(session, session) /\ Onward(session, u)
    BY <1>1, <1>4, OnwardSelf, OnwardPruned
<1>6. PICK s \in {session, u} : Attempt("overflow", s, Measure(s), 0, 0, session.replaces)
    BY <1>4 DEF Overflow
<1>7. Onward(session, s)
    BY <1>5
<1> QED BY <1>2, <1>3, <1>6, <1>7, Attempts DEF Overflow

(* A transaction of whoever begins in a state without pruning. *)
LEMMA Opened ==
    ASSUME Inv, NEW w \in Who, ~Awaits(jobs[w]), Control',
           NEW pair, NEW mode, NEW left, NEW gen, NEW span,
           Begin(w, session, mode, left, gen, span), ~Refused(session, pair, mode, span),
           pairing' = Pair(pairing, session), floor' = floor, derived' = derived,
           jammed' = jammed, reqGen' = reqGen
    PROVE  Inv' /\ NoSummary
<1>1. /\ Base(session, derived, pairing, floor, reqGen) /\ Folded(session)
      /\ Lock(session, jobs, jammed) /\ DOMAIN jobs = Who /\ jammed \in BOOLEAN
    BY DEF Inv, Base, Control
<1>2. PICK k : k = jobs' OBVIOUS
<1>3. PICK t : t = session' OBVIOUS
<1>4. Begun(session, t, jobs, k, w, mode, left, gen, span)
    BY <1>2, <1>3 DEF Begin, Begun
<1>5. /\ Folded(t) /\ Grown(session, t) /\ Lock(t, k, jammed)
      /\ \A e \in Range(t.log) \ Range(session.log) : e.t # "checkpoint"
    BY <1>1, <1>4, OnwardSelf, Begins
<1>6. Base(session', derived', pairing', floor', reqGen')
    BY <1>1, <1>3, <1>5, BaseOn
<1> QED BY <1>2, <1>3, <1>5, <1>6 DEF Inv, NoSummary

(* A compaction by command takes the whole surface. *)
LEMMA CompactNowKeeps ==
    ASSUME Inv, CompactNow
    PROVE  Inv' /\ NoSummary
<1>1. Folded(session) /\ Control
    BY TypesNow
<1>2. phase = "idle" /\ phase \in Free
    BY DEF CompactNow, Free
<1>3. jobs["driver"] = NoJob /\ ~Awaits(jobs["driver"])
    BY <1>1, <1>2, FreeDriver
<1>4. PICK pair, span :
         /\ ~Refused(session, pair, "manual", span)
         /\ Begin("driver", session, "manual", 0, session.replaces, span)
         /\ pairing' = pair /\ pair = Pair(pairing, session)
    BY DEF CompactNow
<1>5. PICK prepared : prepared = Prepare(session, span) OBVIOUS
<1>6. PICK job : job = Job("manual", "summary", 0, session.replaces, span, prepared)
    OBVIOUS
<1>7. jobs' = [jobs EXCEPT !["driver"] = job]
    BY <1>4, <1>5, <1>6 DEF Begin
<1>8. job # NoJob /\ DOMAIN job = JobFields /\ job.mode = "manual" /\ job.at = "summary"
    <2>1. Fields(job, "manual", "summary", 0, session.replaces, span, prepared)
        BY <1>6, JobIs
    <2> QED BY <2>1 DEF Fields
<1>9. jobs'["driver"] = job /\ jobs'["caller"] = jobs["caller"] /\ DOMAIN jobs' = Who
    BY <1>1, <1>7, TwoJobs DEF Control
<1>10. /\ phase' = "maintenance" /\ aborted' = aborted /\ prompt' = prompt /\ admitted' = admitted
       /\ headed' = headed /\ reqGen' = reqGen /\ retries' = retries /\ current' = current
       /\ floor' = floor /\ derived' = derived /\ jammed' = jammed
    BY DEF CompactNow, Enter
<1>11. Control'
    <2>1. phase' \in Phase
        BY <1>10 DEF Phase
    <2>2. JobOK(job)
        BY <1>8 DEF JobOK
    <2>3. \A w \in Who : jobs'[w] # NoJob => JobOK(jobs'[w])
        BY <1>1, <1>9, <2>2, TwoJobs DEF Control
    <2>4. Assigned'
        <3>1. jobs["caller"] # NoJob => jobs["caller"].at = "summary"
            BY <1>1 DEF Control, Assigned
        <3> QED BY <1>8, <1>9, <1>10, <3>1 DEF Assigned
    <2> QED BY <1>1, <1>9, <1>10, <2>1, <2>3, <2>4 DEF Control
<1> QED BY <1>3, <1>4, <1>10, <1>11, TwoJobs, Opened

(* A compaction by command takes the region it was given. *)
LEMMA CompactRegionKeeps ==
    ASSUME Inv, CompactRegion
    PROVE  Inv' /\ NoSummary
<1>1. Folded(session) /\ Control
    BY TypesNow
<1>2. jobs["caller"] = NoJob /\ ~Awaits(jobs["caller"])
    BY NotAwaiting DEF CompactRegion
<1>3. PICK pair, span :
         /\ ~Refused(session, pair, "region", span)
         /\ Begin("caller", session, "region", 0, session.replaces, span)
         /\ pairing' = pair /\ pair = Pair(pairing, session)
    BY DEF CompactRegion
<1>4. PICK prepared : prepared = Prepare(session, span) OBVIOUS
<1>5. PICK job : job = Job("region", "summary", 0, session.replaces, span, prepared)
    OBVIOUS
<1>6. jobs' = [jobs EXCEPT !["caller"] = job]
    BY <1>3, <1>4, <1>5 DEF Begin
<1>7. job # NoJob /\ DOMAIN job = JobFields /\ job.mode = "region" /\ job.at = "summary"
    <2>1. Fields(job, "region", "summary", 0, session.replaces, span, prepared)
        BY <1>5, JobIs
    <2> QED BY <2>1 DEF Fields
<1>8. jobs'["caller"] = job /\ jobs'["driver"] = jobs["driver"] /\ DOMAIN jobs' = Who
    BY <1>1, <1>6, TwoJobs DEF Control
<1>9. /\ phase' = phase /\ aborted' = aborted /\ prompt' = prompt /\ admitted' = admitted
      /\ headed' = headed /\ reqGen' = reqGen /\ retries' = retries /\ current' = current
      /\ floor' = floor /\ derived' = derived /\ jammed' = jammed
    BY DEF CompactRegion, turnVars
<1>10. Control'
    <2>1. JobOK(job)
        BY <1>7 DEF JobOK
    <2>2. \A w \in Who : jobs'[w] # NoJob => JobOK(jobs'[w])
        BY <1>1, <1>8, <2>1, TwoJobs DEF Control
    <2>3. Assigned'
        BY <1>1, <1>7, <1>8, <1>9 DEF Control, Assigned
    <2> QED BY <1>1, <1>8, <1>9, <2>2, <2>3 DEF Control
<1> QED BY <1>2, <1>3, <1>9, <1>10, TwoJobs, Opened

-----------------------------------------------------------------------------
(* The end of a transaction. *)

(* What closing makes of the transactions. *)
LEMMA ClosingIs ==
    ASSUME Control, NEW w \in Who, jobs[w] # NoJob, NEW ok, Closing(w, ok)
    PROVE  /\ DOMAIN jobs' = Who /\ \A v \in Who \ {w} : jobs'[v] = jobs[v]
           /\ w = "caller" => jobs'[w] = NoJob
           /\ w = "driver" => /\ JobOK(jobs'[w]) /\ jobs'[w].mode = jobs[w].mode
                              /\ jobs'[w].at \in {"flush", "done"}
           /\ ~Awaits(jobs'[w])
<1>1. DOMAIN jobs = Who /\ JobOK(jobs[w])
    BY DEF Control
<1>2. CASE w = "caller"
    <2>1. jobs' = [jobs EXCEPT ![w] = NoJob]
        BY <1>2 DEF Closing
    <2> QED BY <1>1, <1>2, <2>1, NotAwaiting
<1>3. CASE w = "driver"
    <2>1. PICK at \in {"flush", "done"} : jobs' = [jobs EXCEPT ![w].at = at, ![w].ok = ok]
        BY <1>3 DEF Closing
    <2>2. PICK job : job = jobs[w] OBVIOUS
    <2>3. PICK new : new = [job EXCEPT !.at = at, !.ok = ok] OBVIOUS
    <2>4. jobs' = [jobs EXCEPT ![w] = new]
        BY <1>1, <2>1, <2>2, <2>3
    <2>5. DOMAIN job = JobFields /\ job.mode \in {"pressure", "switch", "overflow", "manual", "region"}
        BY <1>1, <2>2 DEF JobOK
    <2>6. DOMAIN new = JobFields /\ new.mode = job.mode /\ new.at = at
        BY <2>3, <2>5 DEF JobFields
    <2>7. JobOK(new) /\ ~Awaits(new)
        BY <2>5, <2>6 DEF JobOK, Awaits
    <2>8. DOMAIN jobs' = Who /\ jobs'[w] = new /\ \A v \in Who \ {w} : jobs'[v] = jobs[v]
        BY <1>1, <2>4
    <2> QED BY <1>3, <2>2, <2>6, <2>7, <2>8
<1> QED BY <1>2, <1>3, TwoJobs

(* The phase goes on with a transaction that leaves its first await behind. *)
LEMMA ControlJobs ==
    ASSUME Control, UNCHANGED turnVars, jammed' \in BOOLEAN, NEW w \in Who,
           jobs[w] # NoJob, jobs[w].at # "info", DOMAIN jobs' = Who,
           \A v \in Who \ {w} : jobs'[v] = jobs[v],
           \/ w = "caller" /\ jobs'[w] = NoJob
           \/ /\ jobs'[w] # NoJob /\ JobOK(jobs'[w]) /\ jobs'[w].mode = jobs[w].mode
              /\ jobs'[w].at # "info" /\ (w = "caller" => jobs'[w].at = "summary")
    PROVE  Control'
<1>1. /\ phase' = phase /\ aborted' = aborted /\ prompt' = prompt /\ admitted' = admitted
      /\ headed' = headed /\ reqGen' = reqGen /\ retries' = retries /\ current' = current
    BY DEF turnVars
<1>2. \A v \in Who : jobs'[v] # NoJob => JobOK(jobs'[v])
    BY DEF Control
<1>3. Assigned'
    <2>1. CASE w = "caller"
        <3>1. jobs'["driver"] = jobs["driver"]
            BY <2>1, TwoJobs
        <3> QED BY <1>1, <2>1, <3>1 DEF Control, Assigned
    <2>2. CASE w = "driver"
        <3>1. jobs'["caller"] = jobs["caller"]
            BY <2>2, TwoJobs
        <3> QED BY <1>1, <2>2, <3>1, TwoJobs DEF Control, Assigned
    <2> QED BY <2>1, <2>2, TwoJobs
<1>4. jobs'["driver"] # NoJob => phase' \in {"pressure", "switching", "compacting", "maintenance"}
    <2>1. jobs["driver"] # NoJob => phase \in {"pressure", "switching", "compacting", "maintenance"}
        BY DEF Control
    <2>2. jobs'["driver"] # NoJob => jobs["driver"] # NoJob
        BY TwoJobs
    <2> QED BY <1>1, <2>1, <2>2
<1> QED BY <1>1, <1>2, <1>3, <1>4 DEF Control

(* A transaction that does not run has no mode. *)
LEMMA NoJobMode == "mode" \notin DOMAIN NoJob /\ "mode" \in JobFields
BY DEF NoJob, JobFields

(* What a commit appends. *)
Closure(job, accepted) ==
    <<Ev("compaction/summary", job.mode)>>
    \o (IF accepted THEN <<Rewrite("checkpoint", "", job.span[1], job.span[2])>> ELSE <<>>)
    \o <<Ev("compaction/end", job.mode)>>

(* What a commit appends: plain events, the checkpoint among them if accepted. *)
LEMMA ClosureIs ==
    ASSUME NEW job, NEW accepted
    PROVE  /\ Of(Closure(job, accepted), {"compaction/summary", "checkpoint", "compaction/end"})
           /\ Len(Closure(job, accepted)) > 0
           /\ Closure(job, accepted)[Len(Closure(job, accepted))].t = "compaction/end"
           /\ \A e \in Range(Closure(job, accepted)) : e.t = "checkpoint" =>
                 e = Rewrite("checkpoint", "", job.span[1], job.span[2])
<1> DEFINE types == {"compaction/summary", "checkpoint", "compaction/end"}
<1>1. PICK x : x = Ev("compaction/summary", job.mode) OBVIOUS
<1>2. PICK y : y = Rewrite("checkpoint", "", job.span[1], job.span[2]) OBVIOUS
<1>3. PICK z : z = Ev("compaction/end", job.mode) OBVIOUS
<1>4. /\ x.t = "compaction/summary" /\ y.t = "checkpoint" /\ z.t = "compaction/end"
      /\ Counted(x) /\ Counted(y) /\ Counted(z)
    BY <1>1, <1>2, <1>3 DEF Ev, Rewrite, Counted
<1>5. x.t \in types /\ y.t \in types /\ z.t \in types
    BY <1>4
<1> HIDE DEF types
<1>6. PICK b : b = IF accepted THEN <<y>> ELSE <<>> OBVIOUS
<1>7. Of(<<x>>, types) /\ Len(<<x>>) = 1 /\ Of(<<y>>, types) /\ Of(<<z>>, types)
      /\ Len(<<z>>) = 1 /\ <<z>>[1] = z
    BY <1>4, <1>5, OfOne
<1>8. Of(b, types)
    BY <1>6, <1>7, OfNone
<1>9. PICK a : a = <<x>> \o b OBVIOUS
<1>10. Of(a, types)
    BY <1>7, <1>8, <1>9, OfConcat
<1>11. PICK es : es = a \o <<z>> OBVIOUS
<1>12. Of(es, types) /\ Len(es) = Len(a) + 1
    BY <1>7, <1>10, <1>11, OfConcat
<1>13. /\ Len(a) \in Nat /\ es[Len(a) + 1] = z
    <2>1. SeqLike(a) /\ SeqLike(<<z>>) /\ 1 \in 1..Len(<<z>>)
        BY <1>7, <1>10 DEF Of
    <2>2. Len(a) \in Nat /\ \A i \in 1..Len(<<z>>) : es[Len(a) + i] = <<z>>[i]
        BY <1>11, <2>1, LikeConcat
    <2> QED BY <1>7, <2>1, <2>2
<1>14. Closure(job, accepted) = es
    BY <1>1, <1>2, <1>3, <1>6, <1>9, <1>11 DEF Closure
<1>15. ASSUME NEW e \in Range(es), e.t = "checkpoint"
       PROVE  e = y
    <2>1. SeqLike(a) /\ SeqLike(<<x>>)
        BY <1>7, <1>10 DEF Of
    <2>2. e \notin Range(a) => e \in Range(<<z>>)
        BY <1>7, <1>11, <2>1, NewEvents
    <2>3. e \in Range(a)
        <3>1. Range(<<z>>) = {z}
            BY DEF Range
        <3> QED BY <1>4, <1>15, <2>2, <3>1
    <2>4. e \notin Range(<<x>>) => e \in Range(b)
        BY <1>8, <1>9, <2>1, <2>3, NewEvents
    <2>5. Range(<<x>>) = {x}
        BY DEF Range
    <2>6. e \in Range(b)
        BY <1>4, <1>15, <2>4, <2>5
    <2>7. Range(b) \subseteq {y}
        BY <1>6 DEF Range
    <2> QED BY <2>6, <2>7
<1>16. \A e \in Range(es) : e.t = "checkpoint" => e = y
    BY <1>15
<1>17. Len(es) > 0 /\ es[Len(es)].t = "compaction/end"
    BY <1>4, <1>12, <1>13
<1>18. Of(es, {"compaction/summary", "checkpoint", "compaction/end"})
    BY <1>12 DEF types
<1> QED BY <1>2, <1>14, <1>16, <1>17, <1>18

(* A commit keeps the invariant; its checkpoint replaces what its input told. *)
LEMMA CommitKeeps ==
    ASSUME Inv, NEW w \in Who, Commit(w)
    PROVE  /\ Inv'
           /\ \A e \in Range(session'.log) \ Range(session.log) : e.t = "checkpoint" =>
                 /\ Awaits(jobs[w]) /\ ~Awaits(jobs'[w])
                 /\ jobs[w].input = Messages(session, Span(session.nodes, e.at))
<1>1. Folded(session) /\ Control
    BY TypesNow
<1>2. /\ Base(session, derived, pairing, floor, reqGen)
      /\ Lock(session, jobs, jammed) /\ jammed \in BOOLEAN
    BY DEF Inv, Control
<1>3. Awaits(jobs[w])
    BY DEF Commit, Awaiting, Awaits
<1>4. PICK job : job = jobs[w] OBVIOUS
<1>5. PICK accepted : /\ session' = PutAll(session, Closure(job, accepted))
                      /\ Closing(w, accepted)
    BY <1>4 DEF Commit, Closure
<1>6. PICK es : es = Closure(job, accepted) OBVIOUS
<1> DEFINE types == {"compaction/summary", "checkpoint", "compaction/end"}
<1>7. /\ Of(es, types) /\ Len(es) > 0 /\ es[Len(es)].t = "compaction/end"
      /\ \A e \in Range(es) : e.t = "checkpoint" =>
            e = Rewrite("checkpoint", "", job.span[1], job.span[2])
    BY <1>6, ClosureIs
<1>8. /\ Folded(session') /\ Grown(session, session') /\ ~Locked(session'.log)
      /\ \A e \in Range(session'.log) \ Range(session.log) : e \in Range(es)
    <2> HIDE DEF types
    <2>1. types \subseteq {"compaction/summary", "checkpoint", "compaction/end"}
        BY DEF types
    <2>2. PICK t : t = session' OBVIOUS
    <2>3. t = PutAll(session, es)
        BY <1>5, <1>6, <2>2
    <2>4. /\ Folded(t) /\ Grown(session, t) /\ ~Locked(t.log)
          /\ \A e \in Range(t.log) \ Range(session.log) : e \in Range(es)
        BY <1>1, <1>7, <2>1, <2>3, Closes
    <2> QED BY <2>2, <2>4
<1>9. /\ DOMAIN jobs' = Who /\ \A v \in Who \ {w} : jobs'[v] = jobs[v]
      /\ w = "caller" => jobs'[w] = NoJob
      /\ w = "driver" => /\ JobOK(jobs'[w]) /\ jobs'[w].mode = jobs[w].mode
                         /\ jobs'[w].at \in {"flush", "done"}
      /\ ~Awaits(jobs'[w])
    <2>1. jobs[w] # NoJob
        BY <1>3 DEF Awaits
    <2> QED BY <1>1, <1>5, <2>1, ClosingIs
<1>10. Base(session', derived', pairing', floor', reqGen')
    BY <1>2, <1>8, BaseOn DEF Commit, turnVars
<1>11. Lock(session', jobs', jammed')
    <2>1. PICK k : k = jobs' OBVIOUS
    <2>2. Lock(session', k, jammed)
        BY <1>2, <1>3, <1>8, <1>9, <2>1, LockGiven
    <2> QED BY <2>1, <2>2 DEF Commit
<1>12. Control'
    <2>1. jobs[w] # NoJob /\ jobs[w].at # "info"
        BY <1>3 DEF Awaits
    <2>2. w = "driver" => jobs'[w] # NoJob /\ jobs'[w].at # "info"
        BY <1>9, NoJobMode DEF JobOK
    <2>3. UNCHANGED turnVars /\ jammed' \in BOOLEAN
        BY <1>2 DEF Commit
    <2> QED BY <1>1, <1>9, <2>1, <2>2, <2>3, TwoJobs, ControlJobs
<1>13. ASSUME NEW e \in Range(session'.log) \ Range(session.log), e.t = "checkpoint"
       PROVE  jobs[w].input = Messages(session, Span(session.nodes, e.at))
    <2>1. e = Rewrite("checkpoint", "", job.span[1], job.span[2])
        BY <1>7, <1>8, <1>13
    <2>2. e.at[1] = job.span[1] /\ e.at[2] = job.span[2]
        BY <2>1 DEF Rewrite
    <2>3. Span(session.nodes, e.at) = Span(session.nodes, job.span)
        BY <2>2 DEF Span
    <2>4. PICK pair : pair = Pair(pairing, session) OBVIOUS
    <2>5. Stable(session, pair, job)
        BY <1>4, <2>4 DEF Commit, Usable
    <2>6. Fed(session, job)
        BY <1>2, <1>3, <1>4 DEF Lock
    <2>7. job.input = Messages(session, Span(session.nodes, job.span))
        BY <1>1, <2>5, <2>6, StableInput
    <2> QED BY <1>4, <2>3, <2>7
<1> QED BY <1>3, <1>9, <1>10, <1>11, <1>12, <1>13 DEF Inv

(* A transaction that fails closes its bracket, or leaves it to the next
   start. *)
LEMMA FailKeeps ==
    ASSUME Inv, NEW w \in Who, Fail(w)
    PROVE  Inv' /\ NoSummary
<1>1. Folded(session) /\ Control
    BY TypesNow
<1>2. /\ Base(session, derived, pairing, floor, reqGen)
      /\ Lock(session, jobs, jammed) /\ jammed \in BOOLEAN
    BY DEF Inv, Control
<1>3. Awaits(jobs[w]) /\ jobs[w] # NoJob /\ jobs[w].at # "info"
    BY DEF Fail, Awaiting, Awaits
<1>4. UNCHANGED turnVars /\ UNCHANGED cacheVars /\ floor' = floor
    BY DEF Fail
<1>5. CASE /\ session' = Put(session, Ev("compaction/end", jobs[w].mode))
           /\ Closing(w, FALSE) /\ jammed' = jammed
    <2>1. PICK e : e = Ev("compaction/end", jobs[w].mode) OBVIOUS
    <2>2. e.t = "compaction/end" /\ Counted(e)
        BY <2>1 DEF Ev, Counted
    <2>3. Of(<<e>>, {"compaction/end"}) /\ Len(<<e>>) = 1 /\ <<e>>[1] = e
        BY <2>2, OfOne
    <2>4. PICK es : es = <<e>> OBVIOUS
    <2>5. Of(es, {"compaction/end"}) /\ Len(es) > 0 /\ es[Len(es)].t = "compaction/end"
        BY <2>2, <2>3, <2>4
    <2>6. PICK t : t = session' OBVIOUS
    <2>7. t = PutAll(session, es)
        BY <1>5, <2>1, <2>4, <2>6, PutOne
    <2>8. PICK types : types = {"compaction/end"} OBVIOUS
    <2>9. types \subseteq {"compaction/summary", "checkpoint", "compaction/end"} /\ Of(es, types)
        BY <2>5, <2>8
    <2>10. /\ Folded(t) /\ Grown(session, t) /\ ~Locked(t.log)
           /\ \A x \in Range(t.log) \ Range(session.log) : x \in Range(es)
        BY <1>1, <2>5, <2>7, <2>9, Closes
    <2>11. NoSummary
        <3>1. Range(es) = {e}
            BY <2>4 DEF Range
        <3> QED BY <2>2, <2>6, <2>10, <3>1 DEF NoSummary
    <2>12. /\ DOMAIN jobs' = Who /\ \A v \in Who \ {w} : jobs'[v] = jobs[v]
           /\ w = "caller" => jobs'[w] = NoJob
           /\ w = "driver" => /\ JobOK(jobs'[w]) /\ jobs'[w].mode = jobs[w].mode
                              /\ jobs'[w].at \in {"flush", "done"}
           /\ ~Awaits(jobs'[w])
        BY <1>1, <1>3, <1>5, ClosingIs
    <2>13. Base(session', derived', pairing', floor', reqGen')
        BY <1>2, <1>4, <2>6, <2>10, BaseOn DEF turnVars, cacheVars
    <2>14. Lock(session', jobs', jammed')
        <3>1. PICK k : k = jobs' OBVIOUS
        <3>2. Lock(t, k, jammed)
            BY <1>2, <1>3, <2>10, <2>12, <3>1, LockGiven
        <3> QED BY <1>5, <2>6, <3>1, <3>2
    <2>15. Control'
        <3>1. w = "driver" => jobs'[w] # NoJob /\ jobs'[w].at # "info"
            BY <2>12, NoJobMode DEF JobOK
        <3>2. jammed' \in BOOLEAN
            BY <1>2, <1>5
        <3> QED BY <1>1, <1>3, <1>4, <2>12, <3>1, <3>2, TwoJobs, ControlJobs
    <2> QED BY <2>11, <2>13, <2>14, <2>15 DEF Inv
<1>6. CASE /\ jammed' = TRUE /\ session' = session
           /\ jobs' = IF w = "caller" THEN [jobs EXCEPT ![w] = NoJob]
                      ELSE [jobs EXCEPT ![w].at = "done"]
    <2>1. DOMAIN jobs = Who /\ JobOK(jobs[w])
        BY <1>1, <1>3 DEF Control
    <2>2. /\ DOMAIN jobs' = Who /\ \A v \in Who \ {w} : jobs'[v] = jobs[v]
          /\ w = "caller" => jobs'[w] = NoJob
          /\ w = "driver" => /\ JobOK(jobs'[w]) /\ jobs'[w].mode = jobs[w].mode
                             /\ jobs'[w].at = "done"
          /\ ~Awaits(jobs'[w])
        <3>1. CASE w = "caller"
            <4>1. jobs' = [jobs EXCEPT ![w] = NoJob]
                BY <1>6, <3>1
            <4> QED BY <2>1, <3>1, <4>1, NotAwaiting
        <3>2. CASE w = "driver"
            <4>1. PICK job : job = jobs[w] OBVIOUS
            <4>2. PICK new : new = [job EXCEPT !.at = "done"] OBVIOUS
            <4>3. jobs' = [jobs EXCEPT ![w] = new]
                BY <1>6, <2>1, <3>2, <4>1, <4>2
            <4>4. DOMAIN job = JobFields /\ job.mode \in {"pressure", "switch", "overflow", "manual", "region"}
                BY <2>1, <4>1 DEF JobOK
            <4>5. DOMAIN new = JobFields /\ new.mode = job.mode /\ new.at = "done"
                BY <4>2, <4>4 DEF JobFields
            <4>6. JobOK(new) /\ ~Awaits(new)
                BY <4>4, <4>5 DEF JobOK, Awaits
            <4>7. DOMAIN jobs' = Who /\ jobs'[w] = new /\ \A v \in Who \ {w} : jobs'[v] = jobs[v]
                BY <2>1, <4>3
            <4> QED BY <3>2, <4>1, <4>5, <4>6, <4>7
        <3> QED BY <3>1, <3>2, TwoJobs
    <2>3. Base(session', derived', pairing', floor', reqGen')
        BY <1>2, <1>4, <1>6 DEF turnVars, cacheVars
    <2>4. Lock(session', jobs', jammed')
        <3>1. PICK k : k = jobs' OBVIOUS
        <3>2. Lock(session, k, TRUE)
            BY <1>2, <1>3, <2>2, <3>1, LockLost
        <3> QED BY <1>6, <3>1, <3>2
    <2>5. Control'
        <3>1. w = "driver" => jobs'[w] # NoJob /\ jobs'[w].at # "info"
            BY <2>2, NoJobMode DEF JobOK
        <3>2. jammed' \in BOOLEAN
            BY <1>6
        <3> QED BY <1>1, <1>3, <1>4, <2>2, <3>1, <3>2, TwoJobs, ControlJobs
    <2>6. NoSummary
        BY <1>6 DEF NoSummary
    <2> QED BY <2>3, <2>4, <2>5, <2>6 DEF Inv
<1> QED BY <1>5, <1>6 DEF Fail

(* The durability barrier behind a close changes no bracket. *)
LEMMA FlushKeeps ==
    ASSUME Inv, Flush
    PROVE  Inv' /\ NoSummary
<1>1. Folded(session) /\ Control
    BY TypesNow
<1>2. jobs["driver"] # NoJob /\ jobs["driver"].at = "flush" /\ ~Awaits(jobs["driver"])
    BY DEF Flush, Awaits
<1>3. PICK ok : Closing("driver", ok)
    BY DEF Flush
<1>4. /\ DOMAIN jobs' = Who /\ \A v \in Who \ {"driver"} : jobs'[v] = jobs[v]
      /\ JobOK(jobs'["driver"]) /\ jobs'["driver"].mode = jobs["driver"].mode
      /\ jobs'["driver"].at \in {"flush", "done"} /\ ~Awaits(jobs'["driver"])
    BY <1>1, <1>2, <1>3, TwoJobs, ClosingIs
<1>5. UNCHANGED <<session, turnVars, cacheVars, jammed>> /\ floor' \in {floor, Len(session.log)}
    BY DEF Flush
<1>6. Control'
    <2>1. jobs'["driver"] # NoJob /\ jobs'["driver"].at # "info"
        BY <1>4, NoJobMode DEF JobOK
    <2>2. UNCHANGED turnVars /\ jammed' \in BOOLEAN
        BY <1>1, <1>5 DEF Control
    <2> QED BY <1>1, <1>2, <1>4, <2>1, <2>2, TwoJobs, ControlJobs
<1>7. Kept(session, session') /\ Onward(session, session')
    BY <1>1, <1>5, OnwardSelf DEF Onward
<1>8. \A w \in Who : jobs'[w] = jobs[w] \/ (~Awaits(jobs[w]) /\ ~Awaits(jobs'[w]))
    BY <1>2, <1>4, TwoJobs
<1> QED BY <1>5, <1>6, <1>7, <1>8, Walks DEF turnVars, cacheVars

(* A driver that comes back from its compaction goes on or asks anew. *)
LEMMA ResumeKeeps ==
    ASSUME Inv, Resume
    PROVE  Inv' /\ NoSummary
<1>1. Folded(session) /\ Control
    BY TypesNow
<1>2. jobs["driver"] # NoJob /\ jobs["driver"].at = "done" /\ ~Awaits(jobs["driver"])
    BY DEF Resume, Awaits
<1>3. Onward(session, session) /\ Kept(session, session)
    BY <1>1, OnwardSelf DEF Onward
<1>4. PICK job : job = jobs["driver"] OBVIOUS
<1>5. floor' = floor /\ derived' = derived /\ jammed' = jammed
    BY DEF Resume
<1>6. CASE /\ job.mode = "manual" /\ phase' = "idle" /\ aborted' = FALSE
           /\ jobs' = [jobs EXCEPT !["driver"] = NoJob]
           /\ UNCHANGED <<session, prompt, admitted, headed, reqGen, retries, current, pairing>>
    <2>1. jobs'["driver"] = NoJob /\ jobs'["caller"] = jobs["caller"] /\ DOMAIN jobs' = Who
        BY <1>1, <1>6, TwoJobs DEF Control
    <2>2. Control'
        <3>1. phase' \in Phase
            BY <1>6 DEF Phase
        <3>2. \A w \in Who : jobs'[w] # NoJob => JobOK(jobs'[w])
            BY <1>1, <2>1, TwoJobs DEF Control
        <3>3. Assigned'
            BY <1>1, <1>6, <2>1 DEF Control, Assigned
        <3> QED BY <1>1, <1>5, <1>6, <2>1, <3>1, <3>2, <3>3 DEF Control
    <2>3. \A w \in Who : jobs'[w] = jobs[w] \/ (~Awaits(jobs[w]) /\ ~Awaits(jobs'[w]))
        BY <1>2, <2>1, TwoJobs, NotAwaiting
    <2> QED BY <1>3, <1>5, <1>6, <2>2, <2>3, Walks
<1>7. ASSUME job.mode # "manual"
      PROVE  /\ job.mode \in {"pressure", "switch", "overflow"}
             /\ job.mode = "overflow" => retries < MaxOverflowRetries
    BY <1>1, <1>2, <1>4, <1>7, DriverMode
<1>8. CASE /\ job.mode \in {"pressure", "switch"}
           /\ Attempt(job.mode, session, Measure(session), Retain, job.left - 1, job.gen)
    <2>1. PICK mode \in {"pressure", "switch", "overflow"} :
             mode = job.mode /\ (mode = "overflow" => retries < MaxOverflowRetries)
        BY <1>7, <1>8
    <2>2. Attempt(mode, session, Measure(session), Retain, job.left - 1, job.gen)
        BY <1>8, <2>1
    <2> QED BY <1>2, <1>3, <1>5, <2>1, <2>2, Attempts
<1>9. ASSUME NEW ok, job.mode # "manual", jobs' = [jobs EXCEPT !["driver"] = NoJob],
             Continue(job.mode, ok, job.gen, session), pairing' = pairing
      PROVE  Inv' /\ NoSummary
    <2>1. PICK mode \in {"pressure", "switch", "overflow"} :
             mode = job.mode /\ (mode = "overflow" => retries < MaxOverflowRetries)
        BY <1>7, <1>9
    <2>2. Continue(mode, ok, job.gen, session)
        BY <1>9, <2>1
    <2> QED BY <1>2, <1>3, <1>5, <1>9, <2>1, <2>2, GoesOn
<1> QED BY <1>4, <1>6, <1>8, <1>9 DEF Resume, Released

(* The retry behind an overflow goes on, compacts again or gives up. *)
LEMMA RecoverKeeps ==
    ASSUME Inv, NEW w \in Who, Recover(w)
    PROVE  Inv' /\ NoSummary
<1>1. Folded(session) /\ Control
    BY TypesNow
<1>2. /\ Base(session, derived, pairing, floor, reqGen)
      /\ Lock(session, jobs, jammed) /\ jammed \in BOOLEAN
    BY DEF Inv, Control
<1>3. Awaits(jobs[w]) /\ jobs[w] # NoJob /\ jobs[w].at # "info"
    BY DEF Recover, Awaiting, Awaits
<1>4. PICK job : job = jobs[w] OBVIOUS
<1>5. PICK pair : pair = Pair(pairing, session) OBVIOUS
<1>6. PICK n \in Range(Span(session.nodes, job.span)) :
         /\ session.log[n].t = "input"
         /\ session' = Put(session, Ev("offload", n))
         /\ jobs' = [jobs EXCEPT ![w] = Job(job.mode, "summary", job.left, job.gen, job.span,
                                            Prepare(session', job.span))]
    BY <1>4 DEF Recover
<1>7. Stable(session, pair, job) /\ Fed(session, job)
    BY <1>2, <1>3, <1>4, <1>5 DEF Recover, Lock
<1>8. Position(session.nodes, job.span[1]) \in 1..Position(session.nodes, job.span[2])
    BY <1>1, <1>7, StableInput
<1>9. n \in OfType(session, "input")
    <2> DEFINE D == {i \in DOMAIN session.log : session.log[i].t \in SurfaceType}
    <2>1. session.nodes \in Seq(D)
        BY <1>1 DEF Folded
    <2> HIDE DEF D
    <2>2. PICK span : span = job.span OBVIOUS
    <2>3. Span(session.nodes, span) \in Seq(D)
        BY <1>8, <2>1, <2>2, SpanType
    <2>4. n \in D
        BY <1>6, <2>2, <2>3 DEF Range
    <2> QED BY <1>6, <2>4 DEF D, OfType
<1>10. Onward(session, session')
    BY <1>1, <1>6, <1>9, OnwardOffload
<1>11. Folded(session') /\ Grown(session, session') /\ NoSummary
    BY <1>10 DEF Onward, Kept, NoSummary
<1>12. session'.nodes = session.nodes
    <2>1. session'.nodes = Placed(session, Ev("offload", n), Len(session.log) + 1)
        BY <1>6, PutFields
    <2>2. Ev("offload", n).t \notin SurfaceType
        BY DEF Ev, SurfaceType
    <2> QED BY <2>1, <2>2 DEF Placed
<1>13. PICK prepared : prepared = Prepare(session', job.span) OBVIOUS
<1>14. PICK new : new = Job(job.mode, "summary", job.left, job.gen, job.span, prepared)
    OBVIOUS
<1>15. Fields(new, job.mode, "summary", job.left, job.gen, job.span, prepared)
    BY <1>14, JobIs
<1>16. Fed(session', new)
    <2>1. PICK t : t = session' OBVIOUS
    <2>2. /\ new.span = job.span /\ new.whole = prepared.whole /\ new.input = prepared.input
          /\ new.priced = prepared.priced
        BY <1>15 DEF Fields
    <2>3. Position(t.nodes, new.span[1]) \in 1..Position(t.nodes, new.span[2])
        BY <1>8, <1>12, <2>1, <2>2
    <2>4. /\ new.whole = Prepare(t, new.span).whole /\ new.input = Prepare(t, new.span).input
          /\ new.priced = Prepare(t, new.span).priced
        BY <1>13, <2>1, <2>2
    <2>5. Fed(t, new)
        BY <1>11, <2>1, <2>3, <2>4, FedNow
    <2> QED BY <2>1, <2>5
<1>17. /\ DOMAIN jobs' = Who /\ jobs'[w] = new /\ \A v \in Who \ {w} : jobs'[v] = jobs[v]
    BY <1>1, <1>6, <1>13, <1>14 DEF Control
<1>18. Awaits(new) /\ new.mode = jobs[w].mode /\ DOMAIN new = JobFields
    BY <1>4, <1>15 DEF Fields, Awaits
<1>19. floor' = floor /\ derived' = derived /\ jammed' = jammed /\ UNCHANGED turnVars
       /\ pairing' = Pair(pairing, session)
    BY DEF Recover
<1>20. Base(session', derived', pairing', floor', reqGen')
    BY <1>2, <1>11, <1>19, BaseOn DEF turnVars
<1>21. Lock(session', jobs', jammed')
    <2>1. PICK k : k = jobs' OBVIOUS
    <2>2. Awaits(k[w]) /\ k[w].mode = jobs[w].mode /\ Fed(session', k[w])
          /\ \A v \in Who \ {w} : k[v] = jobs[v]
        BY <1>16, <1>17, <1>18, <2>1
    <2>3. Lock(session', k, jammed)
        BY <1>1, <1>2, <1>3, <1>10, <2>2, LockRenewed
    <2> QED BY <1>19, <2>1, <2>3
<1>22. Control'
    <2>1. JobOK(jobs[w])
        BY <1>1, <1>3 DEF Control
    <2>2. JobOK(new) /\ new # NoJob /\ new.at = "summary"
        BY <1>18, <2>1 DEF JobOK, Awaits
    <2>3. jammed' \in BOOLEAN
        BY <1>2, <1>19
    <2> QED BY <1>1, <1>3, <1>17, <1>18, <1>19, <2>2, <2>3, TwoJobs, ControlJobs
<1> QED BY <1>11, <1>20, <1>21, <1>22 DEF Inv

-----------------------------------------------------------------------------
(* A restart, and the theorems. *)

(* Nothing is locked behind the mark of a restart. *)
LEMMA MarkUnlocks ==
    ASSUME NEW l, SeqLike(l)
    PROVE  ~Locked(l \o <<Ev("end-seed", "")>>)
<1>1. PICK e : e = Ev("end-seed", "") OBVIOUS
<1>2. e.t = "end-seed" /\ Counted(e)
    BY <1>1 DEF Ev, Counted
<1>3. Of(<<e>>, {"end-seed"}) /\ Len(<<e>>) = 1 /\ <<e>>[1] = e
    BY <1>2, OfOne
<1>4. PICK es : es = <<e>> OBVIOUS
<1>5. Of(es, {"end-seed"}) /\ Len(es) > 0 /\ es[Len(es)].t \in {"compaction/end", "end-seed"}
    BY <1>2, <1>3, <1>4
<1>6. "compaction/start" \notin {"end-seed"} OBVIOUS
<1>7. ~Stands(l \o es, "compaction/start", {"compaction/end", "end-seed"})
    BY <1>5, <1>6, StandsEnded
<1> QED BY <1>1, <1>4, <1>7 DEF Locked

(* The mark of a restart cites nothing. *)
LEMMA MarkLegal ==
    ASSUME NEW l, SeqLike(l), Legal(l)
    PROVE  /\ SeqLike(l \o <<Ev("end-seed", "")>>) /\ Legal(l \o <<Ev("end-seed", "")>>)
           /\ \A e \in Range(l \o <<Ev("end-seed", "")>>) \ Range(l) : e.t # "checkpoint"
<1>1. PICK e : e = Ev("end-seed", "") OBVIOUS
<1>2. e.t = "end-seed" /\ Counted(e)
    BY <1>1 DEF Ev, Counted
<1>3. Of(<<e>>, {"end-seed"})
    BY <1>2, OfOne
<1>4. SeqLike(<<e>>)
    BY <1>3 DEF Of
<1>5. "offload" \notin {"end-seed"} OBVIOUS
<1>6. Legal(l \o <<e>>) /\ SeqLike(l \o <<e>>)
    BY <1>3, <1>4, <1>5, LegalPlain, LikeConcat
<1>7. \A x \in Range(l \o <<e>>) \ Range(l) : x.t # "checkpoint"
    BY <1>3, NewEvents
<1> QED BY <1>1, <1>6, <1>7

(* After a restart no transaction runs. *)
LEMMA NobodyWaits ==
    ASSUME NEW j, j = [w \in Who |-> NoJob]
    PROVE  DOMAIN j = Who /\ \A w \in Who : j[w] = NoJob /\ ~Awaits(j[w])
BY NotAwaiting

(* The invariant holds of every history the program can start from. *)
LEMMA InitInv == Init => Inv
<1> SUFFICES ASSUME Init PROVE Inv OBVIOUS
<1>1. PICK h \in Histories :
         /\ session = Restore(IF h = <<>> THEN h ELSE Append(h, Ev("end-seed", "")))
         /\ headed = (\E i \in DOMAIN h : h[i].t = "header")
    BY DEF Init
<1>2. SeqLike(h) /\ Legal(h)
    BY HistoriesAssumption DEF SeqLike
<1>3. PICK l : l = IF h = <<>> THEN h ELSE Append(h, Ev("end-seed", "")) OBVIOUS
<1>4. SeqLike(l) /\ Legal(l) /\ ~Locked(l)
    <2>1. CASE h = <<>>
        <3>1. ~Locked(<<>>)
            BY DEF Locked, Stands
        <3> QED BY <1>2, <1>3, <2>1, <3>1
    <2>2. CASE h # <<>>
        <3>1. l = h \o <<Ev("end-seed", "")>>
            BY <1>2, <1>3, <2>2, AppendConcat
        <3> QED BY <1>2, <3>1, MarkUnlocks, MarkLegal
    <2> QED BY <2>1, <2>2
<1>5. Folded(session) /\ session.log = l
    BY <1>1, <1>3, <1>4, RestoreFolds
<1>6. Base(session, derived, pairing, floor, reqGen)
    BY <1>5, BaseFresh DEF Init
<1>7. DOMAIN jobs = Who /\ \A w \in Who : jobs[w] = NoJob /\ ~Awaits(jobs[w])
    BY NobodyWaits DEF Init
<1>8. Lock(session, jobs, jammed)
    <2>1. Lock(session, jobs, FALSE)
        BY <1>4, <1>5, <1>7, LockFresh
    <2> QED BY <2>1 DEF Init
<1>9. Control
    <2>1. phase = "idle" /\ aborted = FALSE /\ prompt = "" /\ admitted = TRUE /\ retries = 0
          /\ jammed = FALSE /\ current = ""
        BY DEF Init
    <2>2. 0 \in 0..MaxOverflowRetries
        BY Bounds
    <2>3. phase \in Phase
        BY <2>1 DEF Phase
    <2>4. headed \in BOOLEAN
        BY <1>1
    <2>5. Assigned
        BY <1>7, <2>1, TwoJobs DEF Assigned
    <2> QED BY <1>7, <2>1, <2>2, <2>3, <2>4, <2>5, TwoJobs DEF Control
<1> QED BY <1>6, <1>8, <1>9 DEF Inv

(* A crash keeps a prefix of the log; its repair starts from the fold of it. *)
LEMMA CrashKeeps ==
    ASSUME Inv, Crash
    PROVE  Inv' /\ NoSummary
<1>1. Folded(session) /\ Control /\ floor \in 0..Len(session.log)
    BY TypesNow DEF Inv, Base
<1>2. PICK log : log = session.log OBVIOUS
<1>3. SeqLike(log) /\ Legal(log)
    BY <1>1, <1>2 DEF Folded, SeqLike
<1>4. PICK n \in floor..Len(log) :
         LET kept == SubSeq(log, 1, n)
             s == Restore(kept \o Repair(kept) \o <<Ev("end-seed", "")>>)
         IN  /\ n > 0
             /\ session' = s
             /\ floor' = Len(s.log)
             /\ headed' = (\E i \in DOMAIN kept : kept[i].t = "header")
             /\ reqGen' = s.contents
    BY <1>2 DEF Crash
<1>5. PICK kept : kept = SubSeq(log, 1, n) OBVIOUS
<1>6. DOMAIN log = 1..Len(log) /\ Len(log) \in Nat /\ n \in 1..Len(log)
    <2>1. DOMAIN log = 1..Len(log) /\ Len(log) \in Nat
        BY <1>3, LikeSeq DEF SeqLike
    <2>2. n > 0
        BY <1>4
    <2>3. floor \in 0..Len(log) /\ n \in floor..Len(log)
        BY <1>1, <1>2, <1>4
    <2>4. n \in Int /\ n <= Len(log)
        BY <2>1, <2>3
    <2> QED BY <2>1, <2>2, <2>4
<1>7. SeqLike(kept) /\ DOMAIN kept = 1..n /\ \A i \in 1..n : kept[i] = log[i]
    <2>1. PICK q \in Seq(Range(log)) : q = log
        BY <1>3 DEF SeqLike
    <2>2. /\ SubSeq(q, 1, n) \in Seq(Range(log)) /\ Len(SubSeq(q, 1, n)) = n
          /\ \A i \in 1..n : SubSeq(q, 1, n)[i] = q[i]
        BY <1>6, <2>1
    <2>3. kept \in Seq(Range(log)) /\ Len(kept) = n
        BY <1>5, <2>1, <2>2
    <2>4. SeqLike(kept) /\ DOMAIN kept = 1..Len(kept)
        BY <2>3, LikeSeq
    <2> QED BY <1>5, <2>1, <2>2, <2>3, <2>4
<1>8. Legal(kept)
    <2> SUFFICES ASSUME NEW i \in 1..n
                 PROVE  /\ Counted(kept[i])
                        /\ kept[i].t = "offload" =>
                              kept[i].v \in 1..(i - 1) /\ kept[kept[i].v].t = "input"
        BY <1>7 DEF Legal
    <2>1. i \in DOMAIN log /\ kept[i] = log[i]
        BY <1>6, <1>7
    <2>2. Counted(log[i])
        BY <1>3, <2>1 DEF Legal
    <2>3. ASSUME log[i].t = "offload"
          PROVE  log[i].v \in 1..(i - 1) /\ kept[log[i].v].t = "input"
        <3>1. log[i].v \in 1..(i - 1) /\ log[log[i].v].t = "input"
            BY <1>3, <2>1, <2>3 DEF Legal
        <3>2. log[i].v \in 1..n
            BY <1>6, <3>1
        <3> QED BY <1>7, <3>1, <3>2
    <2> QED BY <2>1, <2>2, <2>3
<1>9. Range(kept) \subseteq Range(log)
    BY <1>6, <1>7 DEF Range
<1>10. PICK mend : mend = Repair(kept) OBVIOUS
<1>11. Of(mend, {"result", "turn/end"})
    BY <1>7, <1>8, <1>10, RepairOf
<1>12. PICK l : l = kept \o mend OBVIOUS
<1>13. /\ SeqLike(l) /\ Legal(l)
       /\ \A e \in Range(l) \ Range(kept) : e.t # "checkpoint"
    <2>1. PICK types : types = {"result", "turn/end"} OBVIOUS
    <2>2. "offload" \notin types /\ "checkpoint" \notin types /\ Of(mend, types)
        BY <1>11, <2>1
    <2>3. SeqLike(mend)
        BY <2>2 DEF Of
    <2>4. SeqLike(kept \o mend)
        BY <1>7, <2>3, LikeConcat
    <2>5. Legal(kept \o mend)
        BY <1>7, <1>8, <2>2, LegalPlain
    <2>6. \A e \in Range(kept \o mend) \ Range(kept) : e.t \in types
        BY <1>7, <2>2, NewEvents
    <2> QED BY <1>12, <2>2, <2>4, <2>5, <2>6
<1>14. PICK m : m = l \o <<Ev("end-seed", "")>> OBVIOUS
<1>15. /\ SeqLike(m) /\ Legal(m) /\ ~Locked(m)
       /\ \A e \in Range(m) \ Range(l) : e.t # "checkpoint"
    BY <1>13, <1>14, MarkUnlocks, MarkLegal
<1>16. /\ session' = Restore(m) /\ floor' = Len(session'.log) /\ reqGen' = session'.contents
       /\ headed' = (\E i \in DOMAIN kept : kept[i].t = "header")
    BY <1>4, <1>5, <1>10, <1>12, <1>14
<1>17. Folded(session') /\ session'.log = m
    BY <1>15, <1>16, RestoreFolds
<1>18. Base(session', derived', pairing', floor', reqGen')
    BY <1>16, <1>17, BaseFresh DEF Crash
<1>19. DOMAIN jobs' = Who /\ \A w \in Who : jobs'[w] = NoJob /\ ~Awaits(jobs'[w])
    BY NobodyWaits DEF Crash
<1>20. Lock(session', jobs', jammed')
    <2>1. PICK k : k = jobs' OBVIOUS
    <2>2. Lock(session', k, FALSE)
        BY <1>15, <1>17, <1>19, <2>1, LockFresh
    <2> QED BY <2>1, <2>2 DEF Crash
<1>21. Control'
    <2>1. phase' = "idle" /\ aborted' = FALSE /\ prompt' = "" /\ admitted' = TRUE /\ retries' = 0
          /\ jammed' = FALSE /\ current' = ""
        BY DEF Crash
    <2>2. 0 \in 0..MaxOverflowRetries
        BY Bounds
    <2>3. phase' \in Phase
        BY <2>1 DEF Phase
    <2>4. headed' \in BOOLEAN
        BY <1>16
    <2>5. Assigned'
        BY <1>19, <2>1, TwoJobs DEF Assigned
    <2> QED BY <1>19, <2>1, <2>2, <2>3, <2>4, <2>5, TwoJobs DEF Control
<1>22. NoSummary
    BY <1>2, <1>9, <1>13, <1>15, <1>17 DEF NoSummary
<1> QED BY <1>18, <1>20, <1>21, <1>22 DEF Inv

(* A summary joins the log only by the commit of the transaction it was made
   for. *)
LEMMA NextKeeps ==
    ASSUME Inv, Next
    PROVE  /\ Inv'
           /\ NoSummary \/ \E w \in Who : Commit(w)
<1>1. CASE Drive
    BY <1>1, IntakeReplyKeeps, IntakePassKeeps, PreparedKeeps, RequestKeeps, RespondKeeps,
       FailStepKeeps, ToolResultKeeps, ToolsFailKeeps, StopKeeps, PricedKeeps, FlushKeeps,
       ResumeKeeps DEF Drive
<1>2. CASE Overflow \/ StartTurn \/ SwitchModel \/ Abort \/ CompactNow \/ CompactRegion
    BY <1>2, OverflowKeeps, StartTurnKeeps, SwitchModelKeeps, AbortKeeps, CompactNowKeeps,
       CompactRegionKeeps
<1>3. ASSUME NEW w \in Who, Commit(w)
      PROVE  Inv'
    BY <1>3, CommitKeeps
<1>4. ASSUME NEW w \in Who, Fail(w) \/ Recover(w)
      PROVE  Inv' /\ NoSummary
    BY <1>4, FailKeeps, RecoverKeeps
<1>5. CASE Edit \/ Crash
    BY <1>5, EditKeeps, CrashKeeps
<1> QED BY <1>1, <1>2, <1>3, <1>4, <1>5 DEF Next

(* A step that changes no variable keeps the invariant. *)
LEMMA StutterKeeps ==
    ASSUME Inv, UNCHANGED vars
    PROVE  Inv' /\ NoSummary
<1>1. /\ session' = session /\ floor' = floor /\ phase' = phase /\ aborted' = aborted
      /\ prompt' = prompt /\ admitted' = admitted /\ headed' = headed /\ reqGen' = reqGen
      /\ retries' = retries /\ derived' = derived /\ pairing' = pairing /\ jobs' = jobs
      /\ jammed' = jammed /\ current' = current
    BY DEF vars, turnVars, cacheVars
<1>2. Control'
    BY <1>1, ZenonT(60) DEF Inv, Control, Assigned
<1>3. Base(session', derived', pairing', floor', reqGen') /\ Lock(session', jobs', jammed')
    BY <1>1 DEF Inv
<1>4. NoSummary
    BY <1>1 DEF NoSummary
<1> QED BY <1>2, <1>3, <1>4 DEF Inv

(* The inductive invariant holds of every reachable state. *)
LEMMA InvAlways == Spec => []Inv
<1>1. Inv /\ [Next]_vars => Inv'
    BY NextKeeps, StutterKeeps
<1> QED BY InitInv, <1>1, PTL DEF Spec

(* The session is always the fold of its log, the caches are those of a first
   part of its surface or known to be out of date, every phase of the driver
   has the transaction it waits for, and what a summary is made from can be
   told from the log (compaction-basic/src/region.ts). *)
THEOREM CompactInvariant == Spec => []CompactInv
<1>1. Inv => CompactInv
    <2> SUFFICES ASSUME Inv PROVE CompactInv OBVIOUS
    <2>1. Folded(session) /\ DerivedFor(derived, session) /\ PairedFor(pairing, session)
        BY DEF Inv, Base
    <2>2. Assigned
        BY DEF Inv, Control
    <2>3. /\ jammed => \A w \in Who : ~Awaiting(w)
          /\ \A w \in Who : Awaiting(w) => Fed(session, jobs[w])
        BY DEF Inv, Lock, Awaiting, Awaits
    <2> QED BY <2>1, <2>2, <2>3 DEF CompactInv
<1> QED BY InvAlways, <1>1, PTL

(* Every part of the state keeps its type: nodes are surface events of the log,
   offloaded images and the context node are of it, transactions are complete. *)
THEOREM CompactTypeCorrect == Spec => []TypeOK
<1>1. Inv => TypeOK
    <2> SUFFICES ASSUME Inv PROVE TypeOK OBVIOUS
    <2>1. Folded(session) /\ floor \in 0..Len(session.log) /\ reqGen \in 0..session.contents
        BY DEF Inv, Base
    <2>2. DOMAIN session = DOMAIN NewSession /\ session.context \in {NoContext, LostContext} \cup Range(session.nodes)
        BY <2>1 DEF Folded
    <2>3. Range(session.nodes) \subseteq {i \in DOMAIN session.log : session.log[i].t \in SurfaceType}
        <3> DEFINE D == {i \in DOMAIN session.log : session.log[i].t \in SurfaceType}
        <3>1. session.nodes \in Seq(D)
            BY <2>1 DEF Folded
        <3> HIDE DEF D
        <3>2. Range(session.nodes) \subseteq D
            BY <3>1 DEF Range
        <3> QED BY <3>2 DEF D
    <2>4. session.offloaded \subseteq DOMAIN session.log
        BY <2>1 DEF Folded, OfType
    <2>5. Control
        BY DEF Inv
    <2>6. \A w \in Who : jobs[w] # NoJob =>
             /\ DOMAIN jobs[w] = JobFields
             /\ jobs[w].mode \in {"pressure", "switch", "overflow", "manual", "region"}
             /\ jobs[w].at \in {"info", "summary", "flush", "done"}
        BY <2>5 DEF Control, JobOK
    <2> QED BY <2>1, <2>2, <2>3, <2>4, <2>5, <2>6 DEF TypeOK, Control
<1> QED BY InvAlways, <1>1, PTL

(* Whoever reads the message cache or the pairing cache next gets the fold of
   the whole surface (core/session/src/index.ts deriveMessages,
   compaction/src/tool-pairing.ts), whatever was appended, replaced, offloaded
   or restored since it was filled. *)
THEOREM CachesAreFolds == Spec => []CachesAgree
<1>1. Inv => CachesAgree
    <2> SUFFICES ASSUME Inv PROVE CachesAgree OBVIOUS
    <2>1. Folded(session) /\ DerivedFor(derived, session) /\ PairedFor(pairing, session)
        BY DEF Inv, Base
    <2> QED BY <2>1, DeriveAgrees, PairAgrees DEF CachesAgree, Level
<1> QED BY InvAlways, <1>1, PTL

(* The bracket in the log is the lock: held exactly while a transaction of this
   process awaits its summary or its close failed, by one of them at most, and
   freed by a restart (region.ts compactSurfaceRegion). *)
THEOREM LockIsHonest == Spec => []LockHonest
<1>1. Inv => LockHonest
    BY DEF Inv, Lock, LockHonest, Awaiting, Awaits
<1> QED BY InvAlways, <1>1, PTL

(* A checkpoint joins the log only as the commit of a transaction, in place of
   what its summary was made from, as the model saw it (region.ts
   assertSelectedSpanStable, assertWholeSurfaceUnchanged). *)
THEOREM SummariesFaithful == Spec => SummaryFaithful
<1>1. ASSUME Inv, [Next]_vars
      PROVE  [\A e \in {e \in Range(session'.log) \ Range(session.log) : e.t = "checkpoint"} :
                 \E w \in Who : Awaiting(w) /\ ~Awaiting(w)'
                               /\ jobs[w].input = Messages(session, Span(session.nodes, e.at))]_vars
    <2>1. CASE UNCHANGED vars
        BY <2>1
    <2>2. CASE Next /\ NoSummary
        BY <2>2 DEF NoSummary
    <2>3. ASSUME NEW w \in Who, Commit(w)
          PROVE  \A e \in {e \in Range(session'.log) \ Range(session.log) : e.t = "checkpoint"} :
                    \E v \in Who : Awaiting(v) /\ ~Awaiting(v)'
                                  /\ jobs[v].input = Messages(session, Span(session.nodes, e.at))
        BY <1>1, <2>3, CommitKeeps DEF Awaiting, Awaits
    <2>4. CASE Next /\ ~NoSummary
        BY <1>1, <2>3, <2>4, NextKeeps
    <2> QED BY <1>1, <2>1, <2>2, <2>4
<1>2. Inv /\ [Next]_vars
         => [\A e \in {e \in Range(session'.log) \ Range(session.log) : e.t = "checkpoint"} :
                \E w \in Who : Awaiting(w) /\ ~Awaiting(w)'
                              /\ jobs[w].input = Messages(session, Span(session.nodes, e.at))]_vars
    BY <1>1
<1> QED BY InvAlways, <1>2, PTL DEF Spec, SummaryFaithful

-----------------------------------------------------------------------------
(* Surfaces as conversations. *)

(* A node that stands on the surface has a place there. *)
LEMMA PositionOf ==
    ASSUME NEW S, NEW nodes \in Seq(S), NEW seq
    PROVE  /\ seq \in Range(nodes) => Position(nodes, seq) \in 1..Len(nodes)
           /\ Position(nodes, seq) # 0 => nodes[Position(nodes, seq)] = seq
<1> DEFINE I == {i \in 1..Len(nodes) : nodes[i] = seq}
<1>1. Position(nodes, seq) = IF I # {} THEN Min(I) ELSE 0
    BY DEF Position, SelectInSeq
<1>2. I \in SUBSET Nat /\ I \in SUBSET (1..Len(nodes)) OBVIOUS
<1>3. seq \in Range(nodes) => I # {}
    BY DEF Range
<1>4. \A i \in I : nodes[i] = seq OBVIOUS
<1> HIDE DEF I
<1>5. CASE I = {}
    BY <1>1, <1>3, <1>5
<1>6. CASE I # {}
    <2>1. PICK m \in I : \A k \in I : m <= k
        BY <1>2, <1>6, Least
    <2>2. (CHOOSE x \in I : \A y \in I : x =< y) \in I
        BY <2>1
    <2>3. Min(I) \in I
        BY <2>2 DEF Min
    <2> QED BY <1>1, <1>2, <1>4, <1>6, <2>3
<1> QED BY <1>5, <1>6

(* One event more is put last. *)
LEMMA PutAllNext ==
    ASSUME NEW s, NEW es, NEW e, SeqLike(es)
    PROVE  PutAll(s, Append(es, e)) = Put(PutAll(s, es), e)
<1>1. /\ Len(Append(es, e)) = Len(es) + 1 /\ Append(es, e)[Len(es) + 1] = e
      /\ Len(es) \in Nat /\ \A i \in 1..Len(es) : Append(es, e)[i] = es[i]
    BY LikeAppend
<1>2. PICK n \in Nat : n = Len(es)
    BY <1>1
<1>3. PICK m \in Nat : m = n + 1 OBVIOUS
<1>4. PICK q : q = Append(es, e) OBVIOUS
<1>5. Len(q) = m /\ q[m] = e /\ \A i \in 1..n : q[i] = es[i]
    BY <1>1, <1>2, <1>3, <1>4
<1>6. PICK f : Puts(s, es, n, f) /\ PutAll(s, es) = f[n]
    BY <1>2, PutAllSteps
<1>7. PICK g : Puts(s, q, m, g) /\ PutAll(s, q) = g[m]
    <2>1. \E g : Puts(s, q, Len(q), g) /\ PutAll(s, q) = g[Len(q)]
        BY <1>5, PutAllSteps
    <2> QED BY <1>5, <2>1
<1>8. g[n] = f[n]
    <2> DEFINE T == {k \in 0..n : g[k] = f[k]}
    <2>1. 0 \in T
        BY <1>6, <1>7 DEF Puts
    <2>2. ASSUME NEW k \in 0..(n - 1), k \in T
          PROVE  k + 1 \in T
        <3>1. k + 1 \in 1..n /\ (k + 1) - 1 = k /\ k + 1 \in 1..m /\ k + 1 \in 0..n
            BY <1>3
        <3>2. f[k + 1] = Put(f[k], es[k + 1]) /\ g[k + 1] = Put(g[k], q[k + 1])
            BY <1>6, <1>7, <3>1 DEF Puts
        <3>3. q[k + 1] = es[k + 1] /\ f[k] = g[k]
            BY <1>5, <2>2, <3>1
        <3> QED BY <3>1, <3>2, <3>3
    <2>3. T \in SUBSET (0..n) OBVIOUS
    <2>4. \A k \in 0..(n - 1) : k \in T => k + 1 \in T
        BY <2>2
    <2> HIDE DEF T
    <2>5. T = 0..n
        BY <2>1, <2>3, <2>4, UpTo
    <2>6. n \in T
        BY <2>5
    <2> QED BY <2>6 DEF T
<1>9. g[m] = Put(g[n], q[m])
    <2>1. m \in 1..m /\ m - 1 = n
        BY <1>3
    <2> QED BY <1>7, <2>1 DEF Puts
<1> QED BY <1>4, <1>5, <1>6, <1>7, <1>8, <1>9

(* Calls open on surfaces of the same nodes of the same log. *)
LEMMA OpenSame ==
    ASSUME NEW s, NEW t, s.log = t.log, s.nodes = t.nodes, NEW n \in Nat
    PROVE  Unanswered(s, n) = Unanswered(t, n)
<1>1. \A k \in 1..n : Delta(s, s.nodes[k]) = Delta(t, t.nodes[k])
    BY DEF Delta
<1> QED BY <1>1, UnansweredSame

(* A conversation is made of log and nodes alone. *)
LEMMA ConversationSame ==
    ASSUME NEW s, NEW t, NEW M, s.nodes \in Seq(M), s.log = t.log, s.nodes = t.nodes, Conversation(s)
    PROVE  Conversation(t)
<1>1. Len(s.nodes) \in Nat /\ DOMAIN s.nodes \subseteq Nat OBVIOUS
<1>2. \A n \in Nat : Unanswered(s, n) = Unanswered(t, n)
    BY OpenSame
<1>3. \A n \in DOMAIN t.nodes : Unanswered(t, n) >= 0
    BY <1>1, <1>2 DEF Conversation
<1>4. OpenTurn(t.log) \/ Unanswered(t, Len(t.nodes)) = 0
    BY <1>1, <1>2 DEF Conversation
<1> QED BY <1>3, <1>4 DEF Conversation

(* The session folded from a log, seen from a session restored from it. *)
Refolds(s) == PutAll(NewSession, s.log).nodes = s.nodes

(* The fold of a log has that log. *)
LEMMA RefoldIs ==
    ASSUME NEW log, SeqLike(log), Legal(log)
    PROVE  Folded(PutAll(NewSession, log)) /\ PutAll(NewSession, log).log = log
<1>1. <<>> \o log = log
    <2>1. SeqLike(<<>>) /\ Len(<<>>) = 0
        BY DEF SeqLike, Range
    <2>2. /\ SeqLike(<<>> \o log) /\ Len(<<>> \o log) = Len(<<>>) + Len(log)
          /\ \A i \in 1..Len(log) : (<<>> \o log)[Len(<<>>) + i] = log[i]
          /\ Len(log) \in Nat
        BY <2>1, LikeConcat
    <2>3. Len(<<>> \o log) = Len(log) /\ \A i \in 1..Len(log) : (<<>> \o log)[i] = log[i]
        BY <2>1, <2>2
    <2> QED BY <2>2, <2>3, SameSeq
<1>2. Legal(NewSession.log \o log)
    BY <1>1, NewFolded
<1>3. PutAll(NewSession, log).log = NewSession.log \o log /\ Folded(PutAll(NewSession, log))
    BY <1>2, NewFolded, PutAllFolds
<1> QED BY <1>1, <1>3, NewFolded

(* A session that a crash may cut back to any event from `from` on. *)
Fine(s, from) ==
    /\ Folded(s) /\ Conversation(s) /\ Refolds(s)
    /\ from \in 0..Len(s.log) /\ Told(s.log, from)

(* What stands in a log is not disturbed by an event that ends nothing. *)
LEMMA StandsStays ==
    ASSUME NEW l, NEW e, NEW type, NEW ends, SeqLike(l), e.t \notin ends
    PROVE  Stands(l, type, ends) => Stands(Append(l, e), type, ends)
<1>1. /\ \A i \in 1..Len(l) : Append(l, e)[i] = l[i]
      /\ Append(l, e)[Len(l) + 1] = e
      /\ Len(l) \in Nat /\ DOMAIN l = 1..Len(l) /\ DOMAIN Append(l, e) = 1..(Len(l) + 1)
    BY LikeAppend
<1>2. PICK q : q = Append(l, e) OBVIOUS
<1>3. PICK n \in Nat : n = Len(l)
    BY <1>1
<1>4. DOMAIN l = 1..n /\ DOMAIN q = 1..(n + 1) /\ q[n + 1] = e /\ \A i \in 1..n : q[i] = l[i]
    BY <1>1, <1>2, <1>3
<1>5. ASSUME Stands(l, type, ends) PROVE Stands(q, type, ends)
    <2>1. PICK i \in 1..n : l[i].t = type /\ \A j \in 1..n : i < j => l[j].t \notin ends
        BY <1>4, <1>5 DEF Stands
    <2>2. i \in DOMAIN q /\ q[i].t = type
        BY <1>4, <2>1
    <2>3. ASSUME NEW j \in 1..(n + 1), i < j PROVE q[j].t \notin ends
        <3>1. CASE j = n + 1
            BY <1>4, <3>1
        <3>2. CASE j \in 1..n
            BY <1>4, <2>1, <2>3, <3>2
        <3> QED BY <3>1, <3>2
    <2> QED BY <1>4, <2>2, <2>3 DEF Stands
<1> QED BY <1>2, <1>5

(* Putting an event leaves a session fine whose surface stays a conversation. *)
LEMMA FineOn ==
    ASSUME NEW s, NEW from, NEW e, NEW t, t = Put(s, e), Fine(s, from), Folded(t), Conversation(t)
    PROVE  Fine(t, from)
<1>1. /\ SeqLike(s.log) /\ Legal(s.log) /\ Folded(s) /\ Refolds(s) /\ Told(s.log, from)
      /\ from \in 0..Len(s.log)
    BY DEF Fine, Folded, SeqLike
<1>2. t.log = Append(s.log, e) /\ t.nodes = Placed(s, e, Len(s.log) + 1)
    BY PutFields
<1>3. PICK p : p = PutAll(NewSession, s.log) OBVIOUS
<1>4. p.log = s.log /\ p.nodes = s.nodes
    BY <1>1, <1>3, RefoldIs DEF Refolds
<1>5. PICK r : r = PutAll(NewSession, t.log) OBVIOUS
<1>6. r = Put(p, e)
    BY <1>1, <1>2, <1>3, <1>5, PutAllNext
<1>7. r.log = t.log /\ r.nodes = t.nodes
    <2>1. r.log = Append(p.log, e) /\ r.nodes = Placed(p, e, Len(p.log) + 1)
        BY <1>6, PutFields
    <2>2. Placed(p, e, Len(p.log) + 1) = Placed(s, e, Len(s.log) + 1)
        BY <1>4 DEF Placed
    <2> QED BY <1>2, <1>4, <2>1, <2>2
<1>8. /\ \A i \in 1..Len(s.log) : t.log[i] = s.log[i]
      /\ Len(t.log) = Len(s.log) + 1 /\ Len(s.log) \in Nat /\ SeqLike(t.log)
    BY <1>1, <1>2, LikeAppend
<1>9. ASSUME NEW n \in from..Len(t.log)
      PROVE  Conversation(PutAll(NewSession, SubSeq(t.log, 1, n)))
    <2>1. PICK a \in Seq(Range(s.log)) : a = s.log
        BY <1>1 DEF SeqLike
    <2>2. PICK b \in Seq(Range(t.log)) : b = t.log
        BY <1>8 DEF SeqLike
    <2>3. CASE n \in from..Len(s.log)
        <3>1. n \in 0..Len(a) /\ n \in 0..Len(b)
            BY <1>1, <1>8, <2>1, <2>2, <2>3
        <3>2. SubSeq(a, 1, n) = SubSeq(b, 1, n)
            <4>1. \A i \in 1..n : a[i] = b[i]
                BY <1>8, <2>1, <2>2, <3>1
            <4>2. SubSeq(a, 1, n) \in Seq(Range(s.log)) /\ SubSeq(b, 1, n) \in Seq(Range(t.log))
                BY <3>1
            <4>3. Len(SubSeq(a, 1, n)) = n /\ \A i \in 1..n : SubSeq(a, 1, n)[i] = a[i]
                BY <3>1
            <4>4. Len(SubSeq(b, 1, n)) = n /\ \A i \in 1..n : SubSeq(b, 1, n)[i] = b[i]
                BY <3>1
            <4>5. SeqLike(SubSeq(a, 1, n)) /\ SeqLike(SubSeq(b, 1, n))
                BY <4>2, LikeSeq
            <4>6. \A i \in 1..Len(SubSeq(a, 1, n)) : SubSeq(a, 1, n)[i] = SubSeq(b, 1, n)[i]
                BY <4>1, <4>3, <4>4
            <4> QED BY <4>3, <4>4, <4>5, <4>6, SameSeq
        <3>3. Conversation(PutAll(NewSession, SubSeq(s.log, 1, n)))
            BY <1>1, <2>3 DEF Told
        <3> QED BY <2>1, <2>2, <3>2, <3>3
    <2>4. CASE n = Len(t.log)
        <3>1. SubSeq(b, 1, Len(b)) = b OBVIOUS
        <3>2. SubSeq(t.log, 1, n) = t.log
            BY <2>2, <2>4, <3>1
        <3>3. Conversation(r)
            BY <1>7, ConversationSame DEF Folded
        <3> QED BY <1>5, <3>2, <3>3
    <2> QED BY <1>1, <1>8, <2>3, <2>4
<1>10. Refolds(t)
    BY <1>5, <1>7 DEF Refolds
<1>11. from \in 0..Len(t.log)
    BY <1>1, <1>8
<1>12. Told(t.log, from)
    BY <1>9 DEF Told
<1> QED BY <1>10, <1>11, <1>12 DEF Fine

-----------------------------------------------------------------------------
(* One more event on a conversation. *)

(* The calls an event opens, or answers. *)
Adds(e) == CASE e.t = "assistant" -> e.v [] e.t = "result" -> -1 [] OTHER -> 0

(* How many calls are unanswered in all. *)
Unheard(s) == Unanswered(s, Len(s.nodes))

(* What becomes of a session of which no crash may leave less than `from`. *)
Tells(s, t, from) ==
    /\ Fine(t, from) /\ Grown(s, t)
    /\ ContextKnown(s) => ContextKnown(t)
    /\ s.nodes # <<>> => t.nodes # <<>>

(* The same, and neither calls nor the turn are closed. *)
Steady(s, t, from) ==
    /\ Tells(s, t, from) /\ Unheard(t) = Unheard(s)
    /\ OpenTurn(s.log) => OpenTurn(t.log)

(* Nothing becomes of a session without events. *)
LEMMA SteadySelf ==
    ASSUME NEW s, NEW from, Fine(s, from)
    PROVE  Steady(s, s, from)
<1>1. Grown(s, s)
    BY GrownSelf DEF Fine
<1> QED BY <1>1 DEF Steady, Tells

(* One development after the other. *)
LEMMA TellsOn ==
    ASSUME NEW s, NEW t, NEW u, NEW from, Folded(s), Tells(s, t, from), Tells(t, u, from)
    PROVE  Tells(s, u, from)
<1>1. Folded(t) /\ Folded(u) /\ Grown(s, t) /\ Grown(t, u)
    BY DEF Tells, Fine
<1>2. Grown(s, u)
    BY <1>1, GrownOn
<1> QED BY <1>2 DEF Tells

(* The same of steady ones. *)
LEMMA SteadyOn ==
    ASSUME NEW s, NEW t, NEW u, NEW from, Folded(s), Steady(s, t, from), Steady(t, u, from)
    PROVE  Steady(s, u, from)
<1>1. Tells(s, u, from)
    BY TellsOn DEF Steady
<1> QED BY <1>1 DEF Steady

(* The newest runtime context is known after any event: it is the event's node,
   or stands where it stood, or is known to be lost. *)
LEMMA ContextOn ==
    ASSUME NEW s, NEW e, Folded(s), ContextKnown(s)
    PROVE  ContextKnown(Put(s, e))
<1>1. SeqLike(s.log) /\ s.nodes \in Seq({i \in DOMAIN s.log : s.log[i].t \in SurfaceType})
    BY DEF Folded, SeqLike
<1>2. PICK seq : seq = Len(s.log) + 1 OBVIOUS
<1>3. PICK t : t = Put(s, e) OBVIOUS
<1>4. t.log = Append(s.log, e) /\ t.nodes = Placed(s, e, seq) /\ t.context = Tracked(s, e, seq)
    BY <1>2, <1>3, PutFields
<1>5. PICK N : N = Range(s.nodes) OBVIOUS
<1>6. N \subseteq DOMAIN s.log /\ s.nodes \in Seq(N)
    <2>1. \A q \in Seq({i \in DOMAIN s.log : s.log[i].t \in SurfaceType}) :
             Range(q) \subseteq DOMAIN s.log /\ q \in Seq(Range(q))
        BY DEF Range
    <2> QED BY <1>1, <1>5, <2>1
<1>7. /\ \A i \in DOMAIN s.log : t.log[i] = s.log[i] /\ i < seq
      /\ t.log[seq] = e /\ seq \in Nat /\ seq > 0 /\ DOMAIN s.log \subseteq Nat
    BY <1>1, <1>2, <1>4, LikeAppend
<1>8. PICK K : K = {n \in N : s.log[n].t = "context"} OBVIOUS
<1>9. /\ s.context = NoContext => K = {}
      /\ s.context > 0 => s.context \in K /\ \A n \in K : n <= s.context
    BY <1>5, <1>8 DEF ContextKnown
<1>10. PICK L : L = {n \in Range(t.nodes) : t.log[n].t = "context"} OBVIOUS
<1>11. Range(t.nodes) \subseteq N \cup {seq}
    <2>1. s.nodes \in Seq(N \cup {seq}) /\ seq \in N \cup {seq}
        BY <1>6
    <2>2. Placed(s, e, seq) \in Seq(N \cup {seq})
        BY <2>1, PlacedType
    <2>3. \A q \in Seq(N \cup {seq}) : Range(q) \subseteq N \cup {seq}
        BY DEF Range
    <2> QED BY <1>4, <2>2, <2>3
<1>12. L \subseteq K \cup {seq} /\ (e.t # "context" => L \subseteq K)
    BY <1>6, <1>7, <1>8, <1>10, <1>11
<1>13. CASE e.t = "context"
    <2>1. t.context = seq
        BY <1>4, <1>13 DEF Tracked
    <2>2. s.nodes \in Seq(N \cup {seq}) /\ seq \in N \cup {seq} /\ e.t \in SurfaceType
        BY <1>6, <1>13 DEF SurfaceType
    <2>3. seq \in Range(t.nodes)
        BY <1>4, <2>2, PlacedNew
    <2>4. seq \in L
        BY <1>7, <1>10, <1>13, <2>3
    <2>5. \A n \in L : n <= seq
        BY <1>6, <1>7, <1>8, <1>12
    <2>6. t.context # NoContext
        BY <1>7, <2>1 DEF NoContext
    <2> QED BY <1>3, <1>10, <2>1, <2>4, <2>5, <2>6 DEF ContextKnown
<1>14. CASE e.t # "context" /\ s.context \in Shadowed(s, e)
    <2>1. t.context = 0
        BY <1>4, <1>14 DEF Tracked, LostContext
    <2> QED BY <1>3, <2>1 DEF ContextKnown, NoContext
<1>15. CASE e.t # "context" /\ s.context \notin Shadowed(s, e)
    <2>1. t.context = s.context
        BY <1>4, <1>15 DEF Tracked
    <2>2. s.context = NoContext => L = {}
        BY <1>9, <1>12, <1>15
    <2>3. ASSUME s.context > 0 PROVE s.context \in L /\ \A n \in L : n <= s.context
        <3>1. s.context \in N /\ s.log[s.context].t = "context" /\ \A n \in K : n <= s.context
            BY <1>8, <1>9, <2>3
        <3>2. s.context \in Range(Placed(s, e, seq))
            <4>1. s.nodes \in Seq(N \cup {seq}) /\ seq \in N \cup {seq}
                BY <1>6
            <4> QED BY <1>5, <1>15, <3>1, <4>1, PlacedKeeps
        <3>3. t.log[s.context] = s.log[s.context]
            BY <1>6, <1>7, <3>1
        <3> QED BY <1>4, <1>10, <1>12, <1>15, <3>1, <3>2, <3>3
    <2> QED BY <1>3, <1>10, <2>1, <2>2, <2>3 DEF ContextKnown
<1> QED BY <1>13, <1>14, <1>15

(* Events of other types keep the surface; a turn ends without open calls. *)
LEMMA TellLog ==
    ASSUME NEW s, NEW from, NEW e, Fine(s, from), Counted(e),
           e.t = "offload" => e.v \in OfType(s, "input"),
           e.t \notin SurfaceType, e.t = "turn/end" => Unheard(s) = 0,
           NEW t, t = Put(s, e)
    PROVE  /\ Tells(s, t, from)
           /\ t.nodes = s.nodes /\ Unheard(t) = Unheard(s) /\ t.log = Append(s.log, e)
           /\ e.t # "turn/end" => (OpenTurn(s.log) => OpenTurn(t.log))
           /\ e.t = "turn/start" => OpenTurn(t.log)
<1>1. Folded(s) /\ Conversation(s) /\ SeqLike(s.log)
    BY DEF Fine, Folded, SeqLike
<1>2. Folded(t) /\ Grown(s, t)
    BY <1>1, PutFolds
<1>3. t.log = Append(s.log, e) /\ t.nodes = s.nodes
    BY PutFields DEF Placed
<1>4. PICK M : M = DOMAIN s.log /\ s.nodes \in Seq(M)
    <2>1. s.nodes \in Seq({i \in DOMAIN s.log : s.log[i].t \in SurfaceType})
        BY <1>1 DEF Folded
    <2>2. s.nodes \in Seq(DOMAIN s.log)
        BY <2>1
    <2> QED BY <2>2
<1>5. \A i \in M : t.log[i] = s.log[i]
    BY <1>1, <1>3, <1>4, LikeAppend
<1>6. DOMAIN s.nodes = 1..Len(s.nodes) /\ Len(s.nodes) \in Nat /\ \A k \in 1..Len(s.nodes) : s.nodes[k] \in M
    BY <1>4
<1>7. ASSUME NEW n \in 0..Len(s.nodes) PROVE Unanswered(s, n) = Unanswered(t, n)
    <2>1. n \in Nat /\ \A k \in 1..n : k \in 1..Len(s.nodes)
        BY <1>6
    <2>2. \A k \in 1..n : Delta(s, s.nodes[k]) = Delta(t, t.nodes[k])
        BY <1>3, <1>5, <1>6, <2>1 DEF Delta
    <2> QED BY <2>1, <2>2, UnansweredSame
<1>8. Unheard(t) = Unheard(s)
    BY <1>3, <1>6, <1>7 DEF Unheard
<1>9. e.t # "turn/end" => (OpenTurn(s.log) => OpenTurn(t.log))
    BY <1>1, <1>3, StandsStays DEF OpenTurn
<1>10. e.t = "turn/start" => OpenTurn(t.log)
    <2>1. t.log = s.log \o <<e>>
        BY <1>1, <1>3, AppendConcat
    <2> QED BY <1>1, <2>1, StandsBegun DEF OpenTurn
<1>11. Conversation(t)
    <2>1. \A i, j \in DOMAIN t.nodes : i < j =>
             /\ t.nodes[i] # t.nodes[j]
             /\ t.log[t.nodes[i]].t = "context" /\ t.log[t.nodes[j]].t = "context"
                   => t.nodes[i] < t.nodes[j]
        <3> SUFFICES ASSUME NEW i \in 1..Len(s.nodes), NEW j \in 1..Len(s.nodes), i < j
                     PROVE  /\ t.nodes[i] # t.nodes[j]
                            /\ t.log[t.nodes[i]].t = "context" /\ t.log[t.nodes[j]].t = "context"
                                  => t.nodes[i] < t.nodes[j]
            BY <1>3, <1>6
        <3>1. t.log[t.nodes[i]] = s.log[s.nodes[i]] /\ t.log[t.nodes[j]] = s.log[s.nodes[j]]
            BY <1>3, <1>5, <1>6
        <3>2. i \in DOMAIN s.nodes /\ j \in DOMAIN s.nodes
            BY <1>6
        <3> QED BY <1>1, <1>3, <3>1, <3>2 DEF Conversation
    <2>2. t.nodes # <<>> => t.log[t.nodes[1]].t = "system"
        <3>1. t.nodes # <<>> => 1 \in 1..Len(s.nodes)
            BY <1>3, <1>4
        <3>2. s.nodes # <<>> => s.log[s.nodes[1]].t = "system"
            BY <1>1 DEF Conversation
        <3>3. 1 \in 1..Len(s.nodes) => t.log[s.nodes[1]] = s.log[s.nodes[1]]
            BY <1>5, <1>6
        <3> QED BY <1>3, <3>1, <3>2, <3>3
    <2>3. \A n \in DOMAIN t.nodes : Unanswered(t, n) >= 0
        BY <1>1, <1>3, <1>6, <1>7 DEF Conversation
    <2>4. OpenTurn(t.log) \/ Unanswered(t, Len(t.nodes)) = 0
        BY <1>1, <1>8, <1>9 DEF Conversation, Unheard
    <2> QED BY <2>1, <2>2, <2>3, <2>4 DEF Conversation
<1>12. ContextKnown(s) => ContextKnown(t)
    BY <1>1, ContextOn
<1>13. Fine(t, from)
    BY <1>2, <1>11, FineOn
<1> QED BY <1>2, <1>3, <1>8, <1>9, <1>10, <1>12, <1>13 DEF Tells

(* A node is appended: behind a system prompt, a result behind an open call, a
   call in a turn. *)
LEMMA TellNode ==
    ASSUME NEW s, NEW from, NEW e, Fine(s, from), Counted(e),
           e.t \in SurfaceType, e.at = <<>>,
           e.t = "system" \/ s.nodes # <<>>,
           e.t = "result" => Unheard(s) > 0,
           (e.t = "assistant" /\ e.v # 0) => OpenTurn(s.log),
           NEW t, t = Put(s, e)
    PROVE  /\ Tells(s, t, from)
           /\ t.nodes = Append(s.nodes, Len(s.log) + 1) /\ t.nodes # <<>>
           /\ t.log = Append(s.log, e)
           /\ Unheard(t) = Unheard(s) + Adds(e)
           /\ OpenTurn(s.log) => OpenTurn(t.log)
<1>1. Folded(s) /\ Conversation(s) /\ SeqLike(s.log)
    BY DEF Fine, Folded, SeqLike
<1>2. Folded(t) /\ Grown(s, t)
    BY <1>1, PutFolds DEF SurfaceType
<1>3. t.log = Append(s.log, e) /\ t.nodes = Append(s.nodes, Len(s.log) + 1)
    BY PutFields DEF Placed
<1>4. PICK M : M = DOMAIN s.log /\ s.nodes \in Seq(M)
    <2>1. s.nodes \in Seq({i \in DOMAIN s.log : s.log[i].t \in SurfaceType})
        BY <1>1 DEF Folded
    <2>2. s.nodes \in Seq(DOMAIN s.log)
        BY <2>1
    <2> QED BY <2>2
<1>5. /\ \A i \in M : t.log[i] = s.log[i]
      /\ t.log[Len(s.log) + 1] = e /\ Len(s.log) \in Nat /\ M = 1..Len(s.log)
    BY <1>1, <1>3, <1>4, LikeAppend
<1>6. PICK seq \in Nat : seq = Len(s.log) + 1
    BY <1>5
<1>7. PICK n \in Nat : n = Len(s.nodes)
    BY <1>4
<1>8. /\ DOMAIN s.nodes = 1..n /\ DOMAIN t.nodes = 1..(n + 1) /\ Len(t.nodes) = n + 1
      /\ t.nodes[n + 1] = seq /\ \A k \in 1..n : s.nodes[k] \in M /\ t.nodes[k] = s.nodes[k]
    <2>1. SeqLike(s.nodes)
        BY <1>4, LikeSeq
    <2>2. /\ Len(Append(s.nodes, seq)) = Len(s.nodes) + 1
          /\ \A i \in 1..Len(s.nodes) : Append(s.nodes, seq)[i] = s.nodes[i]
          /\ Append(s.nodes, seq)[Len(s.nodes) + 1] = seq
          /\ DOMAIN s.nodes = 1..Len(s.nodes)
          /\ DOMAIN Append(s.nodes, seq) = 1..(Len(s.nodes) + 1)
        BY <2>1, LikeAppend
    <2>3. \A k \in 1..n : s.nodes[k] \in M
        BY <1>4, <1>7
    <2> QED BY <1>3, <1>6, <1>7, <2>2, <2>3
<1>9. ASSUME NEW k \in 0..n PROVE Unanswered(t, k) = Unanswered(s, k)
    <2>1. k \in Nat /\ \A i \in 1..k : i \in 1..n OBVIOUS
    <2>2. \A i \in 1..k : Delta(s, s.nodes[i]) = Delta(t, t.nodes[i])
        BY <1>5, <1>8, <2>1 DEF Delta
    <2> QED BY <2>1, <2>2, UnansweredSame
<1>10. Unheard(t) = Unheard(s) + Adds(e)
    <2>1. Unanswered(t, n + 1) = Unanswered(t, n) + Delta(t, t.nodes[n + 1])
        BY UnansweredNext
    <2>2. Delta(t, seq) = Adds(e)
        BY <1>5, <1>6 DEF Delta, Adds
    <2>3. Unanswered(t, n) = Unanswered(s, n)
        BY <1>9
    <2> QED BY <1>7, <1>8, <2>1, <2>2, <2>3 DEF Unheard
<1>11. OpenTurn(s.log) => OpenTurn(t.log)
    BY <1>1, <1>3, StandsStays DEF OpenTurn, SurfaceType
<1>12. Unheard(s) \in Int /\ Unheard(s) >= 0
    <2>1. Unheard(s) \in Int
        BY <1>1, <1>7, UnansweredInt DEF Unheard
    <2>2. CASE n = 0
        BY <1>7, <2>1, <2>2, UnansweredNone DEF Unheard
    <2>3. CASE n # 0
        <3>1. n \in DOMAIN s.nodes
            BY <1>8, <2>3
        <3> QED BY <1>1, <1>7, <2>1, <3>1 DEF Unheard, Conversation
    <2> QED BY <2>2, <2>3
<1>13. Unheard(t) >= 0 /\ (OpenTurn(t.log) \/ Unheard(t) = 0)
    <2>1. CASE e.t = "assistant"
        <3>1. e.v \in Nat /\ Unheard(t) = Unheard(s) + e.v
            BY <1>10, <2>1 DEF Counted, Adds
        <3>2. e.v = 0 => OpenTurn(s.log) \/ Unheard(s) = 0
            BY <1>1 DEF Conversation, Unheard
        <3> QED BY <1>11, <1>12, <2>1, <3>1, <3>2
    <2>2. CASE e.t = "result"
        <3>1. Unheard(t) = Unheard(s) + (-1)
            BY <1>10, <2>2 DEF Adds
        <3>2. OpenTurn(s.log)
            BY <1>1, <1>12, <2>2 DEF Conversation, Unheard
        <3> QED BY <1>11, <1>12, <2>2, <3>1, <3>2
    <2>3. CASE e.t \notin {"assistant", "result"}
        <3>1. Unheard(t) = Unheard(s) + 0
            BY <1>10, <2>3 DEF Adds
        <3>2. OpenTurn(s.log) \/ Unheard(s) = 0
            BY <1>1 DEF Conversation, Unheard
        <3> QED BY <1>11, <1>12, <3>1, <3>2
    <2> QED BY <2>1, <2>2, <2>3
<1>14. Conversation(t)
    <2>1. ASSUME NEW i \in 1..(n + 1), NEW j \in 1..(n + 1), i < j
          PROVE  /\ t.nodes[i] # t.nodes[j]
                 /\ t.log[t.nodes[i]].t = "context" /\ t.log[t.nodes[j]].t = "context"
                       => t.nodes[i] < t.nodes[j]
        <3>1. i \in 1..n
            BY <2>1
        <3>2. CASE j = n + 1
            <4>1. t.nodes[i] \in M /\ t.nodes[j] = seq
                BY <1>8, <3>1, <3>2
            <4> QED BY <1>5, <1>6, <4>1
        <3>3. CASE j \in 1..n
            <4>1. /\ s.nodes[i] \in M /\ t.nodes[i] = s.nodes[i]
                  /\ s.nodes[j] \in M /\ t.nodes[j] = s.nodes[j]
                BY <1>8, <3>1, <3>3
            <4>2. t.log[t.nodes[i]] = s.log[s.nodes[i]] /\ t.log[t.nodes[j]] = s.log[s.nodes[j]]
                BY <1>5, <4>1
            <4>3. i \in DOMAIN s.nodes /\ j \in DOMAIN s.nodes
                BY <1>8, <3>1, <3>3
            <4> QED BY <1>1, <2>1, <4>1, <4>2, <4>3 DEF Conversation
        <3> QED BY <3>2, <3>3
    <2>2. t.log[t.nodes[1]].t = "system"
        <3>1. CASE n = 0
            <4>1. \A q \in Seq(M) : Len(q) = 0 => q = <<>> OBVIOUS
            <4>2. s.nodes = <<>>
                BY <1>4, <1>7, <3>1, <4>1
            <4>3. t.nodes[1] = seq
                BY <1>8, <3>1
            <4> QED BY <1>5, <1>6, <4>2, <4>3
        <3>2. CASE n # 0
            <4>1. 1 \in 1..n /\ s.nodes # <<>>
                BY <1>7, <1>8, <3>2
            <4> QED BY <1>1, <1>5, <1>8, <4>1 DEF Conversation
        <3> QED BY <3>1, <3>2
    <2>3. ASSUME NEW k \in 1..(n + 1) PROVE Unanswered(t, k) >= 0
        <3>1. CASE k = n + 1
            BY <1>8, <1>13, <3>1 DEF Unheard
        <3>2. CASE k \in 1..n
            BY <1>1, <1>8, <1>9, <3>2 DEF Conversation
        <3> QED BY <3>1, <3>2
    <2>4. OpenTurn(t.log) \/ Unanswered(t, Len(t.nodes)) = 0
        BY <1>13 DEF Unheard
    <2> QED BY <1>8, <2>1, <2>2, <2>3, <2>4 DEF Conversation
<1>15. t.nodes # <<>>
    BY <1>8
<1>16. ContextKnown(s) => ContextKnown(t)
    BY <1>1, ContextOn
<1>17. Fine(t, from)
    BY <1>2, <1>14, FineOn
<1> QED BY <1>2, <1>3, <1>10, <1>11, <1>15, <1>16, <1>17 DEF Tells

-----------------------------------------------------------------------------
(* Replacements on a conversation. *)

(* Where the nodes stand after a replacement of the places i to j. *)
Replaced(q, nodes, seq, i, j) ==
    /\ Len(q) = Len(nodes) - (j - i)
    /\ \A k \in 1..(i - 1) : q[k] = nodes[k]
    /\ q[i] = seq
    /\ \A k \in (i + 1)..Len(q) : q[k] = nodes[k + (j - i)]

(* The first part, the new node and the last part, put together. *)
LEMMA ReplacedParts ==
    ASSUME NEW M, NEW nodes \in Seq(M), NEW seq \in M,
           NEW i \in 1..Len(nodes), NEW j \in i..Len(nodes)
    PROVE  Replaced(SubSeq(nodes, 1, i - 1) \o <<seq>> \o SubSeq(nodes, j + 1, Len(nodes)),
                    nodes, seq, i, j)
<1>1. PICK n \in Nat : n = Len(nodes) OBVIOUS
<1>2. PICK a : a = SubSeq(nodes, 1, i - 1) OBVIOUS
<1>3. PICK b : b = SubSeq(nodes, j + 1, Len(nodes)) OBVIOUS
<1>4. a \in Seq(M) /\ Len(a) = i - 1 /\ \A k \in 1..(i - 1) : a[k] = nodes[k]
    <2>1. i - 1 \in 0..Len(nodes)
        BY <1>1
    <2> QED BY <1>2, <2>1
<1>5. b \in Seq(M) /\ Len(b) = n - j /\ \A k \in 1..(n - j) : b[k] = nodes[j + k]
    <2>1. j \in 0..Len(nodes)
        BY <1>1
    <2> QED BY <1>1, <1>3, <2>1, LastPart
<1>6. PICK c : c = a \o <<seq>> OBVIOUS
<1>7. /\ c \in Seq(M) /\ Len(c) = i /\ c[i] = seq
      /\ \A k \in 1..(i - 1) : c[k] = nodes[k]
    <2>1. <<seq>> \in Seq(M) /\ Len(<<seq>>) = 1 /\ <<seq>>[1] = seq OBVIOUS
    <2>2. SeqLike(a) /\ SeqLike(<<seq>>)
        BY <1>4, <2>1, LikeSeq
    <2>3. /\ Len(a \o <<seq>>) = Len(a) + Len(<<seq>>)
          /\ \A k \in 1..Len(a) : (a \o <<seq>>)[k] = a[k]
          /\ \A k \in 1..Len(<<seq>>) : (a \o <<seq>>)[Len(a) + k] = <<seq>>[k]
        BY <2>2, LikeConcat
    <2>4. a \o <<seq>> \in Seq(M)
        BY <1>4, <2>1
    <2>5. Len(c) = i
        BY <1>1, <1>4, <1>6, <2>1, <2>3
    <2>6. c[i] = seq
        <3>1. 1 \in 1..Len(<<seq>>) /\ Len(a) + 1 = i
            BY <1>1, <1>4, <2>1
        <3> QED BY <1>6, <2>1, <2>3, <3>1
    <2>7. \A k \in 1..(i - 1) : c[k] = nodes[k]
        BY <1>4, <1>6, <2>3
    <2> QED BY <1>6, <2>4, <2>5, <2>6, <2>7
<1>8. PICK q : q = c \o b OBVIOUS
<1>9. /\ Len(q) = i + (n - j)
      /\ \A k \in 1..i : q[k] = c[k]
      /\ \A k \in 1..(n - j) : q[i + k] = nodes[j + k]
    <2>1. SeqLike(c) /\ SeqLike(b)
        BY <1>5, <1>7, LikeSeq
    <2>2. /\ Len(c \o b) = Len(c) + Len(b)
          /\ \A k \in 1..Len(c) : (c \o b)[k] = c[k]
          /\ \A k \in 1..Len(b) : (c \o b)[Len(c) + k] = b[k]
        BY <2>1, LikeConcat
    <2> QED BY <1>5, <1>7, <1>8, <2>2
<1>10. Len(q) = n - (j - i)
    BY <1>1, <1>9
<1>11. \A k \in 1..(i - 1) : q[k] = nodes[k]
    BY <1>7, <1>9
<1>12. q[i] = seq
    BY <1>1, <1>7, <1>9
<1>13. ASSUME NEW k \in (i + 1)..Len(q) PROVE q[k] = nodes[k + (j - i)]
    <2>1. PICK x : x = k - i OBVIOUS
    <2>2. x \in 1..(n - j) /\ i + x = k /\ j + x = k + (j - i)
        BY <1>1, <1>10, <2>1
    <2>3. q[i + x] = nodes[j + x]
        BY <1>9, <2>2
    <2> QED BY <2>2, <2>3
<1>14. Replaced(q, nodes, seq, i, j)
    BY <1>1, <1>10, <1>11, <1>12, <1>13 DEF Replaced
<1> QED BY <1>2, <1>3, <1>6, <1>8, <1>14

(* An event that replaces the places i to j of a surface, with the same calls
   open behind it, and leaves node 0 to the system prompt. *)
Swaps(s, e, i, j) ==
    /\ e.t \in SurfaceType \ {"context"} /\ e.at # <<>> /\ Counted(e)
    /\ i = Position(s.nodes, e.at[1]) /\ j = Position(s.nodes, e.at[2])
    /\ i \in 1..Len(s.nodes) /\ j \in i..Len(s.nodes)
    /\ i = 1 => e.t = "system"
    /\ Unanswered(s, i - 1) + Adds(e) = Unanswered(s, j)

(* A replacement that opens or answers as many calls as what it replaces leaves
   a conversation. *)
LEMMA TellSpan ==
    ASSUME NEW s, NEW from, NEW e, NEW i, NEW j, Fine(s, from), Swaps(s, e, i, j),
           NEW t, t = Put(s, e)
    PROVE  /\ Steady(s, t, from)
           /\ Replaced(t.nodes, s.nodes, Len(s.log) + 1, i, j)
           /\ t.log = Append(s.log, e)
<1>1. Folded(s) /\ Conversation(s) /\ SeqLike(s.log)
    BY DEF Fine, Folded, SeqLike
<1>2. Folded(t) /\ Grown(s, t)
    <2>1. e.t # "offload"
        BY DEF Swaps, SurfaceType
    <2> QED BY <1>1, <2>1, PutFolds DEF Swaps
<1>3. PICK seq : seq = Len(s.log) + 1 OBVIOUS
<1>4. PICK M : M = DOMAIN s.log /\ s.nodes \in Seq(M)
    <2>1. s.nodes \in Seq({k \in DOMAIN s.log : s.log[k].t \in SurfaceType})
        BY <1>1 DEF Folded
    <2>2. s.nodes \in Seq(DOMAIN s.log)
        BY <2>1
    <2> QED BY <2>2
<1>5. /\ t.log = Append(s.log, e) /\ t.nodes = Placed(s, e, seq)
      /\ \A k \in M : t.log[k] = s.log[k] /\ k < seq
      /\ t.log[seq] = e /\ seq \in Nat /\ M \subseteq Nat
    <2>1. t.log = Append(s.log, e) /\ t.nodes = Placed(s, e, seq)
        BY <1>3, PutFields
    <2>2. PICK l : l = s.log OBVIOUS
    <2>3. /\ \A k \in 1..Len(l) : Append(l, e)[k] = l[k]
          /\ Append(l, e)[Len(l) + 1] = e
          /\ Len(l) \in Nat /\ DOMAIN l = 1..Len(l)
        BY <1>1, <2>2, LikeAppend
    <2>4. PICK h \in Nat : h = Len(l)
        BY <2>3
    <2>5. M = 1..h /\ seq = h + 1
        BY <1>3, <1>4, <2>2, <2>3, <2>4
    <2>6. M \subseteq Nat /\ seq \in Nat /\ \A k \in M : k < seq
        BY <2>5
    <2>7. \A k \in M : t.log[k] = s.log[k]
        BY <2>1, <2>2, <2>3, <2>4, <2>5
    <2>8. t.log[seq] = e
        BY <2>1, <2>2, <2>3, <2>4, <2>5
    <2> QED BY <2>1, <2>6, <2>7, <2>8
<1>6. PICK n \in Nat : n = Len(s.nodes)
    BY <1>4
<1>7. DOMAIN s.nodes = 1..n /\ \A k \in 1..n : s.nodes[k] \in M
    BY <1>4, <1>6
<1>8. i \in 1..n /\ j \in i..n
    BY <1>6 DEF Swaps
<1>9. PICK M2 : M2 = M \cup {seq} OBVIOUS
<1>10. s.nodes \in Seq(M2) /\ seq \in M2
    BY <1>4, <1>9
<1>11. Replaced(t.nodes, s.nodes, seq, i, j)
    <2>1. Placed(s, e, seq) = SubSeq(s.nodes, 1, i - 1) \o <<seq>> \o SubSeq(s.nodes, j + 1, Len(s.nodes))
        BY DEF Placed, Swaps
    <2> QED BY <1>5, <1>6, <1>8, <1>10, <2>1, ReplacedParts
<1>12. PICK d \in Nat : d = j - i
    BY <1>8
<1>13. PICK m \in Nat : m = Len(t.nodes)
    <2>1. Placed(s, e, seq) \in Seq(M2)
        BY <1>10, PlacedType
    <2> QED BY <1>5, <2>1
<1>14. /\ m = n - d /\ DOMAIN t.nodes = 1..m /\ i \in 1..m
       /\ \A k \in 1..(i - 1) : t.nodes[k] = s.nodes[k]
       /\ t.nodes[i] = seq
       /\ \A k \in (i + 1)..m : t.nodes[k] = s.nodes[k + d]
    <2>1. Placed(s, e, seq) \in Seq(M2)
        BY <1>10, PlacedType
    <2>2. DOMAIN t.nodes = 1..m
        BY <1>5, <1>13, <2>1
    <2>3. m = n - d
        BY <1>6, <1>11, <1>12, <1>13 DEF Replaced
    <2>4. i \in 1..m
        BY <1>8, <1>12, <2>3
    <2>5. \A k \in (i + 1)..m : t.nodes[k] = s.nodes[k + d]
        BY <1>11, <1>12, <1>13 DEF Replaced
    <2> QED BY <1>11, <2>2, <2>3, <2>4, <2>5 DEF Replaced
<1>15. m = n - d /\ d = j - i /\ i \in 1..m /\ i <= j /\ j <= n /\ {i, j, m, n, d} \subseteq Nat
    <2>1. i \in Nat /\ j \in Nat /\ i <= j /\ j <= n
        BY <1>8
    <2>2. m = n - d /\ i \in 1..m
        BY <1>14
    <2> QED BY <1>12, <2>1, <2>2
<1>16. \A k \in 1..m : k < i \/ k = i \/ k \in (i + 1)..m
    BY <1>8
<1>17. \A k \in 1..(i - 1) : k \in 1..n /\ k \in 1..m /\ k # i
    BY <1>8, <1>14
<1>18. \A k \in (i + 1)..m : k + d \in 1..n /\ k + d > i
    BY <1>8, <1>12, <1>14
<1>19. ASSUME NEW k \in 0..(i - 1) PROVE Unanswered(t, k) = Unanswered(s, k)
    <2>1. k \in Nat /\ \A x \in 1..k : x \in 1..(i - 1)
        BY <1>8
    <2>2. \A x \in 1..k : Delta(s, s.nodes[x]) = Delta(t, t.nodes[x])
        BY <1>5, <1>7, <1>14, <1>17, <2>1 DEF Delta
    <2> QED BY <2>1, <2>2, UnansweredSame
<1>20. Unanswered(t, i) = Unanswered(s, j)
    <2>1. PICK x \in Nat : x = i - 1
        BY <1>8
    <2>2. x + 1 = i
        BY <1>8, <2>1
    <2>3. Unanswered(t, x + 1) = Unanswered(t, x) + Delta(t, t.nodes[x + 1])
        BY UnansweredNext
    <2>4. Delta(t, seq) = Adds(e)
        BY <1>5 DEF Delta, Adds
    <2>5. x \in 0..(i - 1)
        BY <1>8, <2>1
    <2>6. Unanswered(t, x) = Unanswered(s, i - 1)
        BY <1>19, <2>1, <2>5
    <2> QED BY <1>14, <2>2, <2>3, <2>4, <2>6 DEF Swaps
<1>21. \A k \in i..m : Unanswered(t, k) = Unanswered(s, k + d)
    <2> DEFINE S == {k \in i..m : Unanswered(t, k) = Unanswered(s, k + d)}
    <2>1. i \in S
        <3>1. i \in i..m /\ i + d = j
            BY <1>8, <1>12, <1>14
        <3>2. Unanswered(t, i) = Unanswered(s, i + d)
            BY <1>20, <3>1
        <3> QED BY <3>1, <3>2
    <2>2. ASSUME NEW k \in i..(m - 1), k \in S PROVE k + 1 \in S
        <3>1. k \in Nat /\ k + 1 \in i..m /\ k + 1 \in (i + 1)..m
            BY <1>8, <1>14
        <3>2. PICK x \in Nat : x = k + d
            BY <3>1
        <3>3. (k + 1) + d = x + 1
            BY <3>1, <3>2
        <3>4. Unanswered(t, k + 1) = Unanswered(t, k) + Delta(t, t.nodes[k + 1])
            BY <3>1, UnansweredNext
        <3>5. Unanswered(s, x + 1) = Unanswered(s, x) + Delta(s, s.nodes[x + 1])
            BY UnansweredNext
        <3>6. t.nodes[k + 1] = s.nodes[x + 1] /\ s.nodes[x + 1] \in M
            BY <1>7, <1>14, <1>18, <3>1, <3>3
        <3>7. Delta(t, t.nodes[k + 1]) = Delta(s, s.nodes[x + 1])
            BY <1>5, <3>6 DEF Delta
        <3>8. Unanswered(t, k) = Unanswered(s, x)
            BY <2>2, <3>2
        <3> QED BY <3>1, <3>3, <3>4, <3>5, <3>7, <3>8
    <2>3. S \in SUBSET (i..m) /\ i \in Int /\ m \in Int /\ i <= m
        BY <1>8, <1>14
    <2>4. \A k \in i..(m - 1) : k \in S => k + 1 \in S
        BY <2>2
    <2> HIDE DEF S
    <2>5. S = i..m
        BY <2>1, <2>3, <2>4, UpTo
    <2> QED BY <2>5 DEF S
<1>22. Unheard(t) = Unheard(s)
    <2>1. m \in i..m /\ m + d = n
        BY <1>15
    <2>2. Unanswered(t, m) = Unanswered(s, n)
        BY <1>21, <2>1
    <2> QED BY <1>6, <1>13, <2>2 DEF Unheard
<1>23. e.t \notin {"turn/end"}
    BY DEF Swaps, SurfaceType
<1>24. OpenTurn(s.log) => OpenTurn(t.log)
    BY <1>1, <1>5, <1>23, StandsStays DEF OpenTurn
<1>25. Conversation(t)
    <2>1. ASSUME NEW x \in 1..m, NEW y \in 1..m, x < y
          PROVE  /\ t.nodes[x] # t.nodes[y]
                 /\ t.log[t.nodes[x]].t = "context" /\ t.log[t.nodes[y]].t = "context"
                       => t.nodes[x] < t.nodes[y]
        <3>1. CASE x = i
            <4>1. y \in (i + 1)..m
                BY <2>1, <3>1
            <4>2. t.nodes[y] \in M /\ t.nodes[x] = seq
                BY <1>7, <1>14, <1>18, <3>1, <4>1
            <4>3. t.log[t.nodes[x]].t # "context"
                BY <1>5, <4>2 DEF Swaps
            <4>4. \A k \in M : k # seq
                BY <1>5
            <4> QED BY <4>2, <4>3, <4>4
        <3>2. CASE y = i
            <4>1. x \in 1..(i - 1)
                BY <1>8, <2>1, <3>2
            <4>2. t.nodes[x] \in M /\ t.nodes[y] = seq
                BY <1>7, <1>14, <1>17, <3>2, <4>1
            <4>3. t.log[t.nodes[y]].t # "context"
                BY <1>5, <4>2 DEF Swaps
            <4>4. \A k \in M : k # seq
                BY <1>5
            <4> QED BY <4>2, <4>3, <4>4
        <3>3. CASE x # i /\ y # i
            <4>1. PICK a \in 1..n : a = IF x < i THEN x ELSE x + d
                <5>1. (IF x < i THEN x ELSE x + d) \in 1..n
                    BY <1>15
                <5> QED BY <5>1
            <4>2. PICK b \in 1..n : b = IF y < i THEN y ELSE y + d
                <5>1. (IF y < i THEN y ELSE y + d) \in 1..n
                    BY <1>15
                <5> QED BY <5>1
            <4>3. t.nodes[x] = s.nodes[a]
                <5>1. CASE x < i
                    <6>1. x \in 1..(i - 1)
                        BY <1>8, <5>1
                    <6> QED BY <1>14, <4>1, <5>1, <6>1
                <5>2. CASE ~(x < i)
                    <6>1. x \in (i + 1)..m
                        BY <1>8, <3>3, <5>2
                    <6> QED BY <1>14, <4>1, <5>2, <6>1
                <5> QED BY <5>1, <5>2
            <4>4. t.nodes[y] = s.nodes[b]
                <5>1. CASE y < i
                    <6>1. y \in 1..(i - 1)
                        BY <1>8, <5>1
                    <6> QED BY <1>14, <4>2, <5>1, <6>1
                <5>2. CASE ~(y < i)
                    <6>1. y \in (i + 1)..m
                        BY <1>8, <3>3, <5>2
                    <6> QED BY <1>14, <4>2, <5>2, <6>1
                <5> QED BY <5>1, <5>2
            <4>5. a < b
                BY <1>8, <1>12, <2>1, <4>1, <4>2
            <4>6. t.log[t.nodes[x]] = s.log[s.nodes[a]] /\ t.log[t.nodes[y]] = s.log[s.nodes[b]]
                BY <1>5, <1>7, <4>3, <4>4
            <4>7. a \in DOMAIN s.nodes /\ b \in DOMAIN s.nodes
                BY <1>7
            <4> QED BY <1>1, <4>3, <4>4, <4>5, <4>6, <4>7 DEF Conversation
        <3> QED BY <3>1, <3>2, <3>3
    <2>2. t.log[t.nodes[1]].t = "system"
        <3>1. CASE i = 1
            BY <1>5, <1>14, <3>1 DEF Swaps
        <3>2. CASE i # 1
            <4>1. 1 \in 1..(i - 1) /\ 1 \in 1..n
                BY <1>8, <3>2
            <4>2. s.nodes # <<>>
                BY <1>6, <4>1
            <4>3. s.log[s.nodes[1]].t = "system" /\ s.nodes[1] \in M
                BY <1>1, <1>7, <4>1, <4>2 DEF Conversation
            <4> QED BY <1>5, <1>14, <4>1, <4>3
        <3> QED BY <3>1, <3>2
    <2>3. ASSUME NEW k \in 1..m PROVE Unanswered(t, k) >= 0
        <3>1. CASE k < i
            <4>1. k \in 0..(i - 1) /\ k \in 1..n
                BY <1>8, <3>1
            <4> QED BY <1>1, <1>7, <1>19, <4>1 DEF Conversation
        <3>2. CASE ~(k < i)
            <4>1. k \in i..m /\ k + d \in 1..n
                BY <1>15, <3>2
            <4> QED BY <1>1, <1>7, <1>21, <4>1 DEF Conversation
        <3> QED BY <3>1, <3>2
    <2>4. OpenTurn(t.log) \/ Unanswered(t, Len(t.nodes)) = 0
        BY <1>1, <1>22, <1>24 DEF Conversation, Unheard
    <2> QED BY <1>14, <2>1, <2>2, <2>3, <2>4 DEF Conversation
<1>26. t.nodes # <<>>
    BY <1>13, <1>14
<1>27. ContextKnown(s) => ContextKnown(t)
    BY <1>1, ContextOn
<1>28. Fine(t, from)
    BY <1>2, <1>25, FineOn
<1> QED BY <1>2, <1>3, <1>5, <1>11, <1>22, <1>24, <1>26, <1>27, <1>28 DEF Tells, Steady

(* The runtime context stays where it is. *)
Held(s, t) == ContextKnown(s) => t.context = s.context

(* A node swapped for one of its own kind, a pruned result or a rewritten
   prompt. *)
LEMMA TellSwap ==
    ASSUME NEW s, NEW from, NEW e, NEW i, Fine(s, from),
           e.t \in {"system", "result"}, i \in 1..Len(s.nodes), s.log[s.nodes[i]].t = e.t,
           e.at = <<s.nodes[i], s.nodes[i]>>,
           NEW t, t = Put(s, e)
    PROVE  /\ Steady(s, t, from)
           /\ Replaced(t.nodes, s.nodes, Len(s.log) + 1, i, i)
           /\ t.log = Append(s.log, e)
           /\ Held(s, t)
<1>1. Folded(s) /\ Conversation(s)
    BY DEF Fine
<1>2. PICK M : M = DOMAIN s.log /\ s.nodes \in Seq(M)
    <2>1. s.nodes \in Seq({k \in DOMAIN s.log : s.log[k].t \in SurfaceType})
        BY <1>1 DEF Folded
    <2>2. s.nodes \in Seq(DOMAIN s.log)
        BY <2>1
    <2> QED BY <2>2
<1>3. Position(s.nodes, s.nodes[i]) = i
    <2>1. PICK k : k = Position(s.nodes, s.nodes[i]) OBVIOUS
    <2>2. s.nodes[i] \in Range(s.nodes) /\ DOMAIN s.nodes = 1..Len(s.nodes) /\ Len(s.nodes) \in Nat
        BY <1>2 DEF Range
    <2>3. k \in 1..Len(s.nodes)
        BY <1>2, <2>1, <2>2, PositionOf
    <2>4. s.nodes[k] = s.nodes[i]
        <3>1. k # 0
            BY <2>3
        <3> QED BY <1>2, <2>1, <3>1, PositionOf
    <2>5. ~(k < i) /\ ~(i < k)
        BY <1>1, <2>2, <2>3, <2>4 DEF Conversation
    <2> QED BY <2>1, <2>2, <2>3, <2>5
<1>4. Swaps(s, e, i, i)
    <2>1. e.at # <<>> /\ e.at[1] = s.nodes[i] /\ e.at[2] = s.nodes[i] OBVIOUS
    <2>2. i = 1 => e.t = "system"
        <3>1. s.nodes # <<>>
            BY <1>2
        <3> QED BY <1>1, <3>1 DEF Conversation
    <2>3. PICK x \in Nat : x = i - 1 /\ x + 1 = i
        BY <1>2
    <2>4. Unanswered(s, x + 1) = Unanswered(s, x) + Delta(s, s.nodes[x + 1])
        BY UnansweredNext
    <2>5. Delta(s, s.nodes[i]) = IF e.t = "result" THEN -1 ELSE 0
        BY DEF Delta
    <2>6. Unanswered(s, i) = Unanswered(s, i - 1) + Adds(e)
        <3>1. Adds(e) = Delta(s, s.nodes[i])
            BY <2>5 DEF Adds
        <3> QED BY <2>3, <2>4, <3>1
    <2>7. i \in i..Len(s.nodes)
        BY <1>2
    <2> QED BY <1>3, <2>1, <2>2, <2>6, <2>7 DEF Swaps, SurfaceType, Counted
<1>5. ASSUME ContextKnown(s) PROVE t.context = s.context
    <2>1. Shadowed(s, e) = Range(SubSeq(s.nodes, i, i))
        BY <1>3 DEF Shadowed, Span
    <2>2. \A x \in Range(SubSeq(s.nodes, i, i)) : x = s.nodes[i]
        <3>1. PICK r : r = SubSeq(s.nodes, i, i) OBVIOUS
        <3>2. DOMAIN r = 1..1 /\ r[1] = s.nodes[i]
            <4>1. \A w \in Seq(M) : \A k \in 1..Len(w) :
                     DOMAIN SubSeq(w, k, k) = 1..1 /\ SubSeq(w, k, k)[1] = w[k] OBVIOUS
            <4> QED BY <1>2, <3>1, <4>1
        <3>3. \A k \in DOMAIN r : k = 1
            BY <3>2
        <3> QED BY <3>1, <3>2, <3>3 DEF Range
    <2>3. s.nodes[i] \in Nat /\ s.nodes[i] > 0
        <3>1. DOMAIN s.log = 1..Len(s.log)
            BY <1>1, LikeSeq DEF Folded
        <3>2. s.nodes[i] \in M
            BY <1>2
        <3> QED BY <1>2, <3>1, <3>2
    <2>4. s.context \notin Shadowed(s, e)
        <3> SUFFICES ASSUME s.context = s.nodes[i] PROVE FALSE
            BY <2>1, <2>2
        <3>1. s.log[s.context].t = "context"
            BY <1>5, <2>3 DEF ContextKnown
        <3> QED BY <3>1
    <2>5. t.context = Tracked(s, e, Len(s.log) + 1)
        BY PutFields
    <2> QED BY <2>4, <2>5 DEF Tracked
<1>6. Held(s, t)
    BY <1>5 DEF Held
<1> QED BY <1>4, <1>6, TellSpan

-----------------------------------------------------------------------------
(* Several events on a conversation. *)

(* No events, no change. *)
LEMMA PutAllNone ==
    ASSUME NEW s
    PROVE  PutAll(s, <<>>) = s
<1>1. Len(<<>>) = 0 OBVIOUS
<1>2. PICK f : Puts(s, <<>>, 0, f) /\ PutAll(s, <<>>) = f[0]
    <2>1. \E f : Puts(s, <<>>, Len(<<>>), f) /\ PutAll(s, <<>>) = f[Len(<<>>)]
        BY <1>1, PutAllSteps
    <2> QED BY <1>1, <2>1
<1> QED BY <1>2 DEF Puts

(* Sessions that a list of events goes through agree where the lists do. *)
PutsTwice(s, a, q, m, n, f, h) ==
    /\ m \in Nat /\ n \in Nat /\ m <= n
    /\ Puts(s, a, m, f) /\ Puts(s, q, n, h)
    /\ \A k \in 1..m : q[k] = a[k]

(* What is put later does not change what was put. *)
LEMMA PutsPrefix ==
    ASSUME NEW s, NEW a, NEW q, NEW m, NEW n, NEW f, NEW h, PutsTwice(s, a, q, m, n, f, h)
    PROVE  h[m] = f[m]
<1> DEFINE T == {k \in 0..m : h[k] = f[k]}
<1>1. 0 \in T
    BY DEF PutsTwice, Puts
<1>2. ASSUME NEW k \in 0..(m - 1), k \in T
      PROVE  k + 1 \in T
    <2>1. k + 1 \in 1..m /\ (k + 1) - 1 = k /\ k + 1 \in 1..n /\ k + 1 \in 0..m
        BY DEF PutsTwice
    <2>2. f[k + 1] = Put(f[k], a[k + 1]) /\ h[k + 1] = Put(h[k], q[k + 1])
        BY <2>1 DEF Puts, PutsTwice
    <2>3. q[k + 1] = a[k + 1] /\ h[k] = f[k]
        BY <1>2, <2>1 DEF PutsTwice
    <2> QED BY <2>1, <2>2, <2>3
<1>3. T \in SUBSET (0..m) /\ m \in Nat
    BY DEF PutsTwice
<1>4. \A k \in 0..(m - 1) : k \in T => k + 1 \in T
    BY <1>2
<1> HIDE DEF T
<1>5. T = 0..m
    BY <1>1, <1>3, <1>4, UpTo
<1>6. m \in T
    BY <1>3, <1>5
<1> QED BY <1>6 DEF T

(* Sessions that a list goes through behind another one. *)
PutsBehind(b, q, m, n, g, h) ==
    /\ m \in Nat /\ n \in Nat
    /\ Puts(h[m], b, n, g)
    /\ \A k \in 1..(m + n) : h[k] = Put(h[k - 1], q[k])
    /\ \A k \in 1..n : q[m + k] = b[k]

(* They are those it goes through on its own. *)
LEMMA PutsTail ==
    ASSUME NEW b, NEW q, NEW m, NEW n, NEW g, NEW h, PutsBehind(b, q, m, n, g, h)
    PROVE  h[m + n] = g[n]
<1> DEFINE T == {k \in 0..n : h[m + k] = g[k]}
<1>1. 0 \in T
    <2>1. m + 0 = m
        BY DEF PutsBehind
    <2> QED BY <2>1 DEF PutsBehind, Puts
<1>2. ASSUME NEW k \in 0..(n - 1), k \in T
      PROVE  k + 1 \in T
    <2>1. k + 1 \in 1..n /\ (k + 1) - 1 = k /\ k + 1 \in 0..n
        BY DEF PutsBehind
    <2>2. PICK x : x = m + (k + 1) OBVIOUS
    <2>3. x \in 1..(m + n) /\ x - 1 = m + k
        BY <2>1, <2>2 DEF PutsBehind
    <2>4. h[x] = Put(h[x - 1], q[x]) /\ g[k + 1] = Put(g[k], b[k + 1])
        BY <2>1, <2>3 DEF Puts, PutsBehind
    <2>5. q[x] = b[k + 1] /\ h[m + k] = g[k]
        BY <1>2, <2>1, <2>2 DEF PutsBehind
    <2> QED BY <2>1, <2>2, <2>3, <2>4, <2>5
<1>3. T \in SUBSET (0..n) /\ n \in Nat
    BY DEF PutsBehind
<1>4. \A k \in 0..(n - 1) : k \in T => k + 1 \in T
    BY <1>2
<1> HIDE DEF T
<1>5. T = 0..n
    BY <1>1, <1>3, <1>4, UpTo
<1>6. n \in T
    BY <1>3, <1>5
<1> QED BY <1>6 DEF T

(* Events put one list after the other. *)
LEMMA PutAllJoin ==
    ASSUME NEW s, NEW a, NEW b, SeqLike(a), SeqLike(b)
    PROVE  PutAll(s, a \o b) = PutAll(PutAll(s, a), b)
<1>1. PICK q : q = a \o b OBVIOUS
<1>2. PICK m \in Nat : m = Len(a)
    BY LikeConcat
<1>3. PICK n \in Nat : n = Len(b)
    BY LikeConcat
<1>4. /\ Len(q) = m + n
      /\ \A k \in 1..m : q[k] = a[k]
      /\ \A k \in 1..n : q[m + k] = b[k]
    BY <1>1, <1>2, <1>3, LikeConcat
<1>5. PICK f : Puts(s, a, m, f) /\ PutAll(s, a) = f[m]
    BY <1>2, PutAllSteps
<1>6. PICK p : p = PutAll(s, a) OBVIOUS
<1>7. PICK g : Puts(p, b, n, g) /\ PutAll(p, b) = g[n]
    BY <1>3, PutAllSteps
<1>8. PICK h : Puts(s, q, m + n, h) /\ PutAll(s, q) = h[m + n]
    <2>1. m + n \in Nat OBVIOUS
    <2> QED BY <1>4, <2>1, PutAllSteps
<1>9. h[m] = f[m]
    <2>1. PICK l \in Nat : l = m + n OBVIOUS
    <2>2. PutsTwice(s, a, q, m, l, f, h)
        BY <1>4, <1>5, <1>8, <2>1 DEF PutsTwice
    <2> QED BY <2>2, PutsPrefix
<1>10. h[m + n] = g[n]
    <2>1. PutsBehind(b, q, m, n, g, h)
        BY <1>4, <1>5, <1>6, <1>7, <1>8, <1>9 DEF PutsBehind, Puts
    <2> QED BY <2>1, PutsTail
<1> QED BY <1>1, <1>6, <1>7, <1>8, <1>10

(* Some nodes of one type are swapped, one after the other. *)
SwapList(s, es, q, type) ==
    /\ SeqLike(es) /\ Len(q) = Len(es) /\ type \in {"system", "result"}
    /\ \A i \in 1..Len(es) :
          /\ es[i].t = type /\ es[i].at = <<q[i], q[i]>>
          /\ q[i] \in Range(s.nodes) /\ s.log[q[i]].t = type
          /\ \A j \in 1..Len(es) : i # j => q[i] # q[j]

(* What the first x swaps have done. *)
Swapped(s, t, es, q, x) ==
    /\ Len(t.nodes) = Len(s.nodes)
    /\ Held(s, t)
    /\ \A k \in 1..Len(s.nodes) :
          /\ t.log[t.nodes[k]].t = s.log[s.nodes[k]].t
          /\ \A i \in 1..x : s.nodes[k] = q[i] => t.log[t.nodes[k]].v = es[i].v
          /\ (\A i \in 1..x : s.nodes[k] # q[i]) => t.nodes[k] = s.nodes[k]

(* One swap more. *)
LEMMA SwapOne ==
    ASSUME NEW s, NEW from, NEW es, NEW q, NEW type, Fine(s, from), SwapList(s, es, q, type),
           NEW x \in 0..(Len(es) - 1), NEW t, Steady(s, t, from), Swapped(s, t, es, q, x),
           NEW u, u = Put(t, es[x + 1])
    PROVE  Steady(s, u, from) /\ Swapped(s, u, es, q, x + 1)
<1>1. Folded(s) /\ Folded(t) /\ Fine(t, from) /\ Grown(s, t)
    BY DEF Fine, Steady, Tells
<1>2. PICK y \in Nat : y = x + 1 OBVIOUS
<1>3. Len(es) \in Nat /\ y \in 1..Len(es) /\ \A i \in 1..y : i \in 1..Len(es) /\ (i = y \/ i \in 1..x)
    <2>1. Len(es) \in Nat
        BY LikeSeq DEF SwapList, SeqLike
    <2> QED BY <1>2, <2>1
<1>4. PICK e : e = es[y] OBVIOUS
<1>5. /\ e.t = type /\ e.at = <<q[y], q[y]>> /\ q[y] \in Range(s.nodes) /\ s.log[q[y]].t = type
      /\ type \in {"system", "result"}
      /\ \A i \in 1..x : q[i] # q[y]
    <2>1. /\ es[y].t = type /\ es[y].at = <<q[y], q[y]>>
          /\ q[y] \in Range(s.nodes) /\ s.log[q[y]].t = type
          /\ type \in {"system", "result"}
        BY <1>3 DEF SwapList
    <2>2. \A i \in 1..x : i \in 1..Len(es) /\ i # y
        BY <1>2, <1>3
    <2>3. \A i \in 1..x : q[i] # q[y]
        BY <1>3, <2>2 DEF SwapList
    <2> QED BY <1>4, <2>1, <2>3
<1>6. PICK n \in Nat : n = Len(s.nodes)
    BY <1>1, FoldedNumbers
<1>7. DOMAIN s.nodes = 1..n
    <2>1. s.nodes \in Seq({k \in DOMAIN s.log : s.log[k].t \in SurfaceType})
        BY <1>1 DEF Folded
    <2> QED BY <1>6, <2>1, LikeSeq
<1>8. PICK i \in 1..n : s.nodes[i] = q[y]
    BY <1>5, <1>7 DEF Range
<1>9. t.nodes[i] = q[y] /\ t.log[t.nodes[i]].t = e.t /\ i \in 1..Len(t.nodes)
    <2>1. i \in 1..Len(s.nodes) /\ Len(t.nodes) = Len(s.nodes)
        BY <1>6, <1>8 DEF Swapped
    <2>2. /\ t.log[t.nodes[i]].t = s.log[s.nodes[i]].t
          /\ (\A j \in 1..x : s.nodes[i] # q[j]) => t.nodes[i] = s.nodes[i]
        BY <2>1 DEF Swapped
    <2>3. \A j \in 1..x : s.nodes[i] # q[j]
        BY <1>5, <1>8
    <2> QED BY <1>5, <1>8, <2>1, <2>2, <2>3
<1>10. /\ Steady(t, u, from) /\ Replaced(u.nodes, t.nodes, Len(t.log) + 1, i, i)
       /\ u.log = Append(t.log, e)
       /\ Held(t, u)
    <2>1. u = Put(t, e) /\ e.at = <<t.nodes[i], t.nodes[i]>> /\ e.t \in {"system", "result"}
        BY <1>2, <1>4, <1>5, <1>9
    <2>2. t.log[t.nodes[i]].t = e.t /\ i \in 1..Len(t.nodes)
        BY <1>9
    <2>3. Fine(t, from)
        BY <1>1
    <2>4. Steady(t, u, from)
        BY <2>1, <2>2, <2>3, TellSwap
    <2>6. u.log = Append(t.log, e)
        BY <2>1, <2>2, <2>3, TellSwap
    <2>5. Replaced(u.nodes, t.nodes, Len(t.log) + 1, i, i)
        BY <2>1, <2>2, <2>3, TellSwap
    <2>7. Held(t, u)
        BY <2>1, <2>2, <2>3, TellSwap
    <2> QED BY <2>4, <2>5, <2>6, <2>7
<1>11. Steady(s, u, from)
    BY <1>1, <1>10, SteadyOn
<1>12. PICK M : M = DOMAIN t.log /\ \A k \in 1..n : t.nodes[k] \in M
    <2>1. t.nodes \in Seq({k \in DOMAIN t.log : t.log[k].t \in SurfaceType})
        BY <1>1 DEF Folded
    <2>2. t.nodes \in Seq(DOMAIN t.log)
        BY <2>1
    <2>3. Len(t.nodes) = n
        BY <1>6 DEF Swapped
    <2> QED BY <2>2, <2>3
<1>13. PICK seq : seq = Len(t.log) + 1 OBVIOUS
<1>14. (\A k \in M : u.log[k] = t.log[k]) /\ u.log[seq] = e
    <2>1. SeqLike(t.log)
        BY <1>1 DEF Folded, SeqLike
    <2> QED BY <1>10, <1>12, <1>13, <2>1, LikeAppend
<1>15. Len(u.nodes) = n /\ u.nodes[i] = seq /\ \A k \in 1..n : k # i => u.nodes[k] = t.nodes[k]
    <2>1. Len(t.nodes) = n /\ i \in 1..n
        BY <1>6 DEF Swapped
    <2>2. i - i = 0 /\ n - 0 = n /\ \A k \in 1..n : k + 0 = k /\ (k # i => k \in 1..(i - 1) \/ k \in (i + 1)..n)
        OBVIOUS
    <2>3. Len(u.nodes) = n
        BY <1>10, <2>1, <2>2 DEF Replaced
    <2>4. u.nodes[i] = seq
        BY <1>10, <1>13 DEF Replaced
    <2>5. \A k \in (i + 1)..n : u.nodes[k] = t.nodes[k]
        BY <1>10, <2>1, <2>2, <2>3 DEF Replaced
    <2>6. \A k \in 1..(i - 1) : u.nodes[k] = t.nodes[k]
        BY <1>10 DEF Replaced
    <2> QED BY <2>2, <2>3, <2>4, <2>5, <2>6
<1>16. Held(s, u)
    BY <1>10 DEF Swapped, Steady, Tells, Held
<1>17. ASSUME NEW k \in 1..n
       PROVE  /\ u.log[u.nodes[k]].t = s.log[s.nodes[k]].t
              /\ \A z \in 1..y : s.nodes[k] = q[z] => u.log[u.nodes[k]].v = es[z].v
              /\ (\A z \in 1..y : s.nodes[k] # q[z]) => u.nodes[k] = s.nodes[k]
    <2>1. /\ t.log[t.nodes[k]].t = s.log[s.nodes[k]].t
          /\ \A z \in 1..x : s.nodes[k] = q[z] => t.log[t.nodes[k]].v = es[z].v
          /\ (\A z \in 1..x : s.nodes[k] # q[z]) => t.nodes[k] = s.nodes[k]
        BY <1>6 DEF Swapped
    <2>2. CASE k = i
        <3>1. u.log[u.nodes[k]] = e
            BY <1>14, <1>15, <2>2
        <3>2. u.log[u.nodes[k]].t = s.log[s.nodes[k]].t
            BY <1>5, <1>8, <2>2, <3>1
        <3>3. \A z \in 1..y : s.nodes[k] = q[z] => z = y
            BY <1>3, <1>5, <1>8, <2>2
        <3>4. y \in 1..y
            BY <1>3
        <3> QED BY <1>4, <1>8, <2>2, <3>1, <3>2, <3>3, <3>4
    <2>3. CASE k # i
        <3>1. u.nodes[k] = t.nodes[k] /\ u.log[u.nodes[k]] = t.log[t.nodes[k]]
            BY <1>12, <1>14, <1>15, <2>3
        <3>2. s.nodes[k] # q[y]
            <4>1. Conversation(s) /\ (k < i \/ i < k)
                BY <2>3 DEF Fine
            <4> QED BY <1>7, <1>8, <4>1 DEF Conversation
        <3>3. \A z \in 1..x : z \in 1..y
            BY <1>2
        <3> QED BY <1>3, <2>1, <3>1, <3>2, <3>3
    <2> QED BY <2>2, <2>3
<1>18. Swapped(s, u, es, q, y)
    BY <1>6, <1>15, <1>16, <1>17 DEF Swapped
<1> QED BY <1>2, <1>11, <1>18

(* Swapping nodes for nodes of their type leaves a conversation as it is. *)
LEMMA TellSwaps ==
    ASSUME NEW s, NEW from, NEW es, NEW q, NEW type, Fine(s, from), SwapList(s, es, q, type),
           NEW t, t = PutAll(s, es)
    PROVE  Steady(s, t, from) /\ Swapped(s, t, es, q, Len(es))
<1>1. PICK n \in Nat : n = Len(es)
    BY LikeSeq DEF SwapList, SeqLike
<1>2. PICK f : Puts(s, es, n, f) /\ t = f[n]
    BY <1>1, PutAllSteps
<1> DEFINE T == {x \in 0..n : Steady(s, f[x], from) /\ Swapped(s, f[x], es, q, x)}
<1>3. 0 \in T
    <2>1. f[0] = s
        BY <1>2 DEF Puts
    <2>2. Steady(s, s, from)
        BY SteadySelf
    <2>3. Swapped(s, s, es, q, 0)
        BY DEF Swapped, Held
    <2> QED BY <2>1, <2>2, <2>3
<1>4. ASSUME NEW x \in 0..(n - 1), x \in T
      PROVE  x + 1 \in T
    <2>1. x + 1 \in 1..n /\ (x + 1) - 1 = x /\ x + 1 \in 0..n /\ x \in 0..(Len(es) - 1)
        BY <1>1
    <2>2. f[x + 1] = Put(f[x], es[x + 1])
        BY <1>2, <2>1 DEF Puts
    <2>3. Steady(s, f[x], from) /\ Swapped(s, f[x], es, q, x)
        BY <1>4
    <2>4. Steady(s, f[x + 1], from) /\ Swapped(s, f[x + 1], es, q, x + 1)
        <3>1. PICK u : u = f[x + 1] OBVIOUS
        <3>2. PICK r : r = f[x] OBVIOUS
        <3>3. Steady(s, u, from) /\ Swapped(s, u, es, q, x + 1)
            BY <2>1, <2>2, <2>3, <3>1, <3>2, SwapOne
        <3> QED BY <3>1, <3>3
    <2> QED BY <2>1, <2>4
<1>5. T \in SUBSET (0..n) OBVIOUS
<1>6. \A x \in 0..(n - 1) : x \in T => x + 1 \in T
    BY <1>4
<1> HIDE DEF T
<1>7. T = 0..n
    BY <1>3, <1>5, <1>6, UpTo
<1>8. n \in T
    BY <1>7
<1> QED BY <1>1, <1>2, <1>8 DEF T

(* Recovery answers some of the open calls. *)
LEMMA TellResults ==
    ASSUME NEW s, NEW from, Fine(s, from), s.nodes # <<>>, NEW v, NEW n \in Nat, n <= Unheard(s),
           NEW t, t = PutAll(s, [i \in 1..n |-> Ev("result", v)])
    PROVE  /\ Tells(s, t, from) /\ Unheard(t) = Unheard(s) - n
           /\ OpenTurn(s.log) => OpenTurn(t.log)
<1>1. PICK es : es = [i \in 1..n |-> Ev("result", v)] OBVIOUS
<1>2. Len(es) = n /\ \A i \in 1..n : es[i] = Ev("result", v)
    BY <1>1
<1>3. PICK f : Puts(s, es, n, f) /\ t = f[n]
    BY <1>1, <1>2, PutAllSteps
<1>4. PICK h : h = Unheard(s) OBVIOUS
<1>5. h \in Int /\ Folded(s)
    BY <1>4, UnansweredInt, FoldedNumbers DEF Unheard, Fine
<1> DEFINE Done(x) == /\ Tells(s, f[x], from) /\ Unheard(f[x]) = h - x
                      /\ OpenTurn(s.log) => OpenTurn(f[x].log)
           T == {x \in 0..n : Done(x)}
<1>6. 0 \in T
    <2>1. f[0] = s
        BY <1>3 DEF Puts
    <2>2. Tells(s, s, from)
        BY SteadySelf DEF Steady
    <2> QED BY <1>4, <1>5, <2>1, <2>2
<1>7. ASSUME NEW x \in 0..(n - 1), x \in T
      PROVE  x + 1 \in T
    <2>1. x + 1 \in 1..n /\ (x + 1) - 1 = x /\ x + 1 \in 0..n OBVIOUS
    <2>2. PICK u : u = f[x + 1] OBVIOUS
    <2>3. PICK r : r = f[x] OBVIOUS
    <2>4. PICK e : e = Ev("result", v) OBVIOUS
    <2>5. u = Put(r, e)
        BY <1>2, <1>3, <2>1, <2>2, <2>3, <2>4 DEF Puts
    <2>6. Tells(s, r, from) /\ Unheard(r) = h - x /\ (OpenTurn(s.log) => OpenTurn(r.log))
        BY <1>7, <2>3
    <2>7. Fine(r, from) /\ r.nodes # <<>> /\ Unheard(r) > 0
        BY <1>4, <1>5, <2>6 DEF Tells
    <2>8. e.t = "result" /\ e.at = <<>> /\ Counted(e) /\ e.t \in SurfaceType
        BY <2>4 DEF Ev, Counted, SurfaceType
    <2>9. /\ Tells(r, u, from) /\ Unheard(u) = Unheard(r) + (-1)
          /\ OpenTurn(r.log) => OpenTurn(u.log)
        <3>1. e.t # "assistant" /\ e.t # "system"
            BY <2>8
        <3>2. /\ Tells(r, u, from)
              /\ Unheard(u) = Unheard(r) + Adds(e)
              /\ OpenTurn(r.log) => OpenTurn(u.log)
            BY <2>5, <2>7, <2>8, <3>1, TellNode, SMTT(60)
        <3>3. Adds(e) = -1
            BY <2>8, <3>1 DEF Adds
        <3> QED BY <3>2, <3>3
    <2>10. Tells(s, u, from)
        BY <1>5, <2>6, <2>9, TellsOn
    <2>11. Unheard(u) = h - (x + 1)
        BY <1>5, <2>6, <2>9
    <2> QED BY <2>1, <2>2, <2>6, <2>9, <2>10, <2>11
<1>8. T \in SUBSET (0..n) OBVIOUS
<1>9. \A x \in 0..(n - 1) : x \in T => x + 1 \in T
    BY <1>7
<1>10. T = 0..n
    <2> HIDE DEF T
    <2> QED BY <1>6, <1>8, <1>9, UpTo
<1>11. n \in T
    BY <1>10
<1> QED BY <1>3, <1>4, <1>11

-----------------------------------------------------------------------------
(* Spans that a compaction may take out. *)

(* Two surfaces of the same nodes. *)
Likened(s, t, D, span) ==
    /\ s.nodes \in Seq(D) /\ s.nodes = t.nodes
    /\ Position(s.nodes, span[1]) \in 1..Position(s.nodes, span[2])
    /\ \A n \in D : s.log[n] = t.log[n]

(* They are even for the same spans. *)
LEMMA EvenSame ==
    ASSUME NEW s, NEW t, NEW D, NEW span, Likened(s, t, D, span), Even(s, span)
    PROVE  Even(t, span)
<1>1. PICK i : i = Position(s.nodes, span[1]) OBVIOUS
<1>2. PICK j : j = Position(s.nodes, span[2]) OBVIOUS
<1>3. Len(s.nodes) \in Nat /\ j \in 0..Len(s.nodes) /\ i \in 1..j
    BY <1>1, <1>2, PositionFound DEF Likened
<1>4. ASSUME NEW n \in 0..j PROVE Unanswered(s, n) = Unanswered(t, n)
    <2>1. n \in Nat /\ \A k \in 1..n : k \in 1..Len(s.nodes)
        BY <1>3
    <2>2. \A k \in 1..n : Delta(s, s.nodes[k]) = Delta(t, t.nodes[k])
        <3>1. \A k \in 1..n : s.nodes[k] \in D
            BY <2>1 DEF Likened
        <3> QED BY <3>1 DEF Delta, Likened
    <2> QED BY <2>1, <2>2, UnansweredSame
<1>5. i - 1 \in 0..j /\ j \in 0..j
    BY <1>3
<1>6. Unanswered(t, i - 1) = 0 /\ Unanswered(t, j) = 0
    BY <1>1, <1>2, <1>4, <1>5 DEF Even
<1> QED BY <1>1, <1>2, <1>6 DEF Even, Likened

(* The surface a transaction started from. *)
LEMMA SourceFields ==
    ASSUME NEW s, NEW nodes, Folded(s)
    PROVE  [s EXCEPT !.nodes = nodes].log = s.log /\ [s EXCEPT !.nodes = nodes].nodes = nodes
BY DEF Folded, NewSession

(* A log that goes on has the same entries. *)
LEMMA GrownLog ==
    ASSUME NEW s, NEW t, Folded(s), Folded(t), Grown(s, t)
    PROVE  \A n \in DOMAIN s.log : s.log[n] = t.log[n] /\ n \in DOMAIN t.log
<1>1. SeqLike(s.log) /\ SeqLike(t.log) /\ Leads(s.log, t.log)
    BY DEF Folded, SeqLike, Grown
<1>2. /\ DOMAIN s.log = 1..Len(s.log) /\ DOMAIN t.log = 1..Len(t.log)
      /\ Len(s.log) \in Nat /\ Len(t.log) \in Nat
    BY <1>1, LikeSeq DEF SeqLike
<1> QED BY <1>1, <1>2 DEF Leads

(* A transaction's span stays even while the session goes on. *)
LEMMA CutOn ==
    ASSUME NEW s, NEW t, NEW job, Folded(s), Folded(t), Grown(s, t), Fed(s, job), Cut(s, job)
    PROVE  Cut(t, job)
<1>1. PICK nodes : nodes = [i \in DOMAIN job.whole |-> job.whole[i][1]] OBVIOUS
<1>2. PICK off \in SUBSET s.offloaded : Source(s, job, nodes, off)
    BY <1>1 DEF Fed
<1>3. PICK span : span = job.span OBVIOUS
<1>4. PICK p : p = [s EXCEPT !.nodes = nodes] OBVIOUS
<1>5. PICK q : q = [t EXCEPT !.nodes = nodes] OBVIOUS
<1>6. p.log = s.log /\ p.nodes = nodes /\ q.log = t.log /\ q.nodes = nodes
    BY <1>4, <1>5, SourceFields
<1>7. \A n \in DOMAIN s.log : s.log[n] = t.log[n]
    BY GrownLog
<1>8. Likened(p, q, DOMAIN s.log, span)
    BY <1>2, <1>3, <1>6, <1>7 DEF Likened, Source
<1>9. Even(p, span)
    BY <1>1, <1>3, <1>4 DEF Cut
<1>10. Even(q, span)
    BY <1>8, <1>9, EvenSame
<1> QED BY <1>1, <1>3, <1>5, <1>10 DEF Cut

(* A span that validates is even. *)
LEMMA ValidEven ==
    ASSUME NEW s, NEW pair, NEW span, Folded(s), Balance(pair, s, Len(s.nodes)), Valid(s, pair, span)
    PROVE  /\ Even(s, span)
           /\ Position(s.nodes, span[1]) \in 1..Position(s.nodes, span[2])
<1>1. s.nodes \in Seq({i \in DOMAIN s.log : s.log[i].t \in SurfaceType})
    BY DEF Folded
<1>2. PICK n \in Nat : n = Len(s.nodes)
    BY <1>1
<1>3. pair.seqs = s.nodes
    <2>1. \A q \in Seq({i \in DOMAIN s.log : s.log[i].t \in SurfaceType}) : SubSeq(q, 1, Len(q)) = q
        OBVIOUS
    <2> QED BY <1>1, <2>1 DEF Balance
<1>4. pair.balanced = [k \in 1..(n + 1) |-> Unanswered(s, k - 1) = 0]
    BY <1>2 DEF Balance
<1>5. PICK i : i = Position(s.nodes, span[1]) OBVIOUS
<1>6. PICK j : j = Position(s.nodes, span[2]) OBVIOUS
<1>7. i \in 0..n /\ j \in 0..n
    BY <1>1, <1>2, <1>5, <1>6, PositionFound
<1>8. i \in 1..j
    BY <1>5, <1>6, <1>7 DEF Valid
<1>9. Unanswered(s, i - 1) = 0
    <2>1. pair.balanced[i]
        BY <1>3, <1>5 DEF Valid, BalancedBefore
    <2>2. i \in 1..(n + 1)
        BY <1>7, <1>8
    <2> QED BY <1>4, <2>1, <2>2
<1>10. Unanswered(s, j) = 0
    <2>1. pair.balanced[j + 1]
        BY <1>3, <1>6 DEF Valid, BalancedAfter
    <2>2. j + 1 \in 1..(n + 1) /\ (j + 1) - 1 = j
        BY <1>7
    <2> QED BY <1>4, <2>1, <2>2
<1> QED BY <1>5, <1>6, <1>8, <1>9, <1>10 DEF Even

(* The cut of a transaction that measured this surface. *)
LEMMA CutNow ==
    ASSUME NEW s, NEW job, Folded(s), job.whole = Measure(s),
           Position(s.nodes, job.span[1]) \in 1..Position(s.nodes, job.span[2])
    PROVE  Cut(s, job) <=> Even(s, job.span)
<1>1. s.nodes \in Seq({i \in DOMAIN s.log : s.log[i].t \in SurfaceType})
    BY DEF Folded
<1>2. [i \in DOMAIN job.whole |-> job.whole[i][1]] = s.nodes
    BY <1>1, MeasureNodes
<1>3. PICK span : span = job.span OBVIOUS
<1>4. PICK p : p = [s EXCEPT !.nodes = s.nodes] OBVIOUS
<1>5. p.log = s.log /\ p.nodes = s.nodes
    BY <1>4, SourceFields
<1>6. PICK D : D = {i \in DOMAIN s.log : s.log[i].t \in SurfaceType} OBVIOUS
<1>7. Likened(s, p, D, span) /\ Likened(p, s, D, span)
    BY <1>1, <1>3, <1>5, <1>6 DEF Likened
<1>8. Even(p, span) <=> Even(s, span)
    BY <1>7, EvenSame
<1> QED BY <1>2, <1>3, <1>4, <1>8 DEF Cut

(* A transaction whose surface is stable still has an even span. *)
LEMMA StableEven ==
    ASSUME NEW s, NEW pair, NEW job, Folded(s), Fed(s, job), Cut(s, job), Stable(s, pair, job),
           job.mode = "manual" => Balance(pair, s, Len(s.nodes))
    PROVE  Even(s, job.span)
<1>1. CASE job.mode = "manual"
    <2>1. Valid(s, pair, job.span)
        BY <1>1 DEF Stable
    <2>2. PICK span : span = job.span OBVIOUS
    <2> QED BY <1>1, <2>1, <2>2, ValidEven
<1>2. CASE job.mode # "manual"
    <2>1. job.whole = Measure(s)
        BY <1>2 DEF Stable
    <2>2. Position(s.nodes, job.span[1]) \in 1..Position(s.nodes, job.span[2])
        BY StableInput
    <2> QED BY <2>1, <2>2, CutNow
<1> QED BY <1>1, <1>2

-----------------------------------------------------------------------------
(* Restored sessions. *)

(* What was told up to now. *)
LEMMA ToldNow ==
    ASSUME NEW log, SeqLike(log), Conversation(PutAll(NewSession, log))
    PROVE  Told(log, Len(log))
<1>1. SubSeq(log, 1, Len(log)) = log /\ Len(log) \in Nat
    <2>1. PICK q \in Seq(Range(log)) : q = log
        BY DEF SeqLike
    <2>2. SubSeq(q, 1, Len(q)) = q /\ Len(q) \in Nat
        BY <2>1
    <2> QED BY <2>1, <2>2
<1>2. PICK n \in Nat : n = Len(log)
    BY <1>1
<1>3. \A k \in n..n : k = n OBVIOUS
<1>4. \A k \in n..Len(log) : Conversation(PutAll(NewSession, SubSeq(log, 1, k)))
    BY <1>1, <1>2, <1>3
<1> QED BY <1>2, <1>4 DEF Told

(* What is flushed need not be told again. *)
LEMMA FineLater ==
    ASSUME NEW s, NEW from, Fine(s, from)
    PROVE  Fine(s, Len(s.log))
<1>1. Len(s.log) \in Nat
    BY FoldedNumbers DEF Fine
<1>2. from \in 0..Len(s.log) /\ Told(s.log, from)
    BY DEF Fine
<1>3. \A n \in Len(s.log)..Len(s.log) : n \in from..Len(s.log)
    BY <1>1, <1>2
<1>4. Told(s.log, Len(s.log))
    BY <1>2, <1>3 DEF Told
<1> QED BY <1>1, <1>4 DEF Fine

(* A restored conversation is one, and its runtime context is known. *)
LEMMA RestoreTells ==
    ASSUME NEW m, SeqLike(m), Legal(m), Conversation(PutAll(NewSession, m)),
           NEW t, t = Restore(m)
    PROVE  /\ Fine(t, Len(m)) /\ ContextKnown(t)
           /\ t.log = m /\ t.nodes = PutAll(NewSession, m).nodes
           /\ Unheard(t) = Unheard(PutAll(NewSession, m))
<1>1. Folded(t) /\ t.log = m
    BY RestoreFolds
<1>2. PICK s : s = PutAll(NewSession, m) OBVIOUS
<1>3. Folded(s) /\ s.log = m
    BY <1>2, RefoldIs
<1> DEFINE owned == {i \in DOMAIN m : m[i].t = "context"}
           kept == owned \cap Range(s.nodes)
           context == IF owned = {} THEN NoContext
                      ELSE IF kept = {} THEN LostContext
                      ELSE CHOOSE i \in kept : \A j \in kept : j <= i
<1>4. t = [s EXCEPT !.context = context]
    BY <1>2 DEF Restore
<1>5. PICK c : c = context OBVIOUS
<1>6. t.nodes = s.nodes /\ t.context = c
    <2>1. DOMAIN s = DOMAIN NewSession
        BY <1>3 DEF Folded
    <2>2. t = [s EXCEPT !.context = c]
        BY <1>4, <1>5
    <2> HIDE DEF owned, kept, context
    <2> QED BY <2>1, <2>2 DEF NewSession
<1>7. DOMAIN m = 1..Len(m) /\ Len(m) \in Nat
    BY LikeSeq DEF SeqLike
<1>8. Range(s.nodes) \subseteq DOMAIN m
    <2>1. s.nodes \in Seq({i \in DOMAIN s.log : s.log[i].t \in SurfaceType})
        BY <1>3 DEF Folded
    <2>2. \A q \in Seq({i \in DOMAIN s.log : s.log[i].t \in SurfaceType}) : Range(q) \subseteq DOMAIN s.log
        BY DEF Range
    <2> QED BY <1>3, <2>1, <2>2
<1>9. PICK K : K = {n \in Range(t.nodes) : t.log[n].t = "context"} OBVIOUS
<1>10. K = kept
    BY <1>1, <1>6, <1>8, <1>9
<1>11. K \in SUBSET (1..Len(m))
    BY <1>7, <1>10
<1>12. c = NoContext => K = {}
    <2>1. CASE owned = {}
        BY <1>10, <2>1
    <2>2. CASE owned # {} /\ kept = {}
        BY <1>10, <2>2
    <2>3. CASE kept # {}
        <3>1. \E x \in K : \A k \in K : k <= x
            BY <1>7, <1>10, <1>11, <2>3, Greatest
        <3>2. c = CHOOSE i \in K : \A j \in K : j <= i
            BY <1>5, <1>10, <2>3
        <3>3. c \in K
            BY <3>1, <3>2
        <3>4. c # NoContext
            BY <1>7, <1>11, <3>3 DEF NoContext
        <3> QED BY <3>4
    <2> QED BY <2>1, <2>2, <2>3
<1>13. c > 0 => c \in K /\ \A n \in K : n <= c
    <2>1. CASE owned = {}
        BY <1>5, <2>1 DEF NoContext
    <2>2. CASE owned # {} /\ kept = {}
        BY <1>5, <2>2 DEF LostContext
    <2>3. CASE kept # {}
        <3>1. \E x \in K : \A k \in K : k <= x
            BY <1>7, <1>10, <1>11, <2>3, Greatest
        <3>2. c = CHOOSE i \in K : \A j \in K : j <= i
            BY <1>5, <1>10, <2>3
        <3> HIDE DEF kept, owned, context
        <3> QED BY <3>1, <3>2
    <2> QED BY <2>1, <2>2, <2>3
<1>14. ContextKnown(t)
    BY <1>6, <1>9, <1>12, <1>13 DEF ContextKnown
<1>15. Conversation(t)
    <2>1. s.nodes \in Seq({i \in DOMAIN s.log : s.log[i].t \in SurfaceType})
        BY <1>3 DEF Folded
    <2> QED BY <1>1, <1>2, <1>3, <1>6, <2>1, ConversationSame
<1>16. Refolds(t)
    BY <1>1, <1>2, <1>6 DEF Refolds
<1>17. Told(t.log, Len(m))
    BY <1>1, ToldNow
<1>18. Fine(t, Len(m))
    BY <1>1, <1>7, <1>15, <1>16, <1>17 DEF Fine
<1>19. Unheard(t) = Unheard(s)
    <2>1. Len(s.nodes) \in Nat
        BY <1>3, FoldedNumbers
    <2> QED BY <1>1, <1>3, <1>6, <2>1, OpenSame DEF Unheard
<1> QED BY <1>1, <1>2, <1>6, <1>14, <1>18, <1>19

-----------------------------------------------------------------------------
(* What is sifted, as a set and in its order. *)

(* One node more is sifted. *)
LEMMA SiftAppend ==
    ASSUME NEW S, NEW nodes \in Seq(S), NEW x \in S, NEW c
    PROVE  Sift(Append(nodes, x), c) = IF x \in c THEN Append(Sift(nodes, c), x) ELSE Sift(nodes, c)
<1>1. PICK q : q = Append(nodes, x) OBVIOUS
<1>2. PICK n \in Nat : n = Len(nodes) OBVIOUS
<1>3. PICK l \in Nat : l = n + 1 OBVIOUS
<1>4. Len(q) = l /\ q[l] = x /\ \A k \in 1..n : q[k] = nodes[k]
    BY <1>1, <1>2, <1>3
<1>5. PICK f : Sifts(nodes, c, n, f) /\ Sift(nodes, c) = f[n]
    BY <1>2, SiftSteps
<1>6. PICK h : Sifts(q, c, l, h) /\ Sift(q, c) = h[l]
    BY <1>4, SiftSteps
<1>7. h[n] = f[n]
    <2>1. n <= l
        BY <1>3
    <2> QED BY <1>4, <1>5, <1>6, <2>1, SiftsPrefix
<1>8. h[l] = IF q[l] \in c THEN Append(h[l - 1], q[l]) ELSE h[l - 1]
    <2>1. l \in 1..l
        BY <1>3
    <2> QED BY <1>6, <2>1 DEF Sifts
<1>9. l - 1 = n
    BY <1>3
<1> QED BY <1>1, <1>4, <1>5, <1>6, <1>7, <1>8, <1>9

(* The first nodes of a surface. *)
First(nodes, k) == SubSeq(nodes, 1, k)

(* They are read one by one. *)
LEMMA FirstNext ==
    ASSUME NEW S, NEW nodes \in Seq(S)
    PROVE  /\ First(nodes, 0) = <<>> /\ First(nodes, Len(nodes)) = nodes
           /\ \A k \in 0..(Len(nodes) - 1) :
                 /\ First(nodes, k) \in Seq(S) /\ nodes[k + 1] \in S
                 /\ First(nodes, k + 1) = Append(First(nodes, k), nodes[k + 1])
<1>1. First(nodes, 0) = <<>> /\ First(nodes, Len(nodes)) = nodes
    BY DEF First
<1>2. ASSUME NEW k \in 0..(Len(nodes) - 1)
      PROVE  /\ First(nodes, k) \in Seq(S) /\ nodes[k + 1] \in S
             /\ First(nodes, k + 1) = Append(First(nodes, k), nodes[k + 1])
    <2>1. PICK y \in Nat : y = k + 1 OBVIOUS
    <2>2. k \in 0..Len(nodes) /\ y \in 1..Len(nodes)
        BY <2>1
    <2>3. PICK a : a = SubSeq(nodes, 1, k) OBVIOUS
    <2>4. a \in Seq(S) /\ Len(a) = k /\ \A i \in 1..k : a[i] = nodes[i]
        BY <2>2, <2>3
    <2>5. PICK b : b = SubSeq(nodes, 1, y) OBVIOUS
    <2>6. b \in Seq(S) /\ Len(b) = y /\ \A i \in 1..y : b[i] = nodes[i]
        BY <2>2, <2>5
    <2>7. SeqLike(a) /\ SeqLike(b)
        BY <2>4, <2>6, LikeSeq
    <2>8. b = Append(a, nodes[y])
        <3>1. PICK c : c = Append(a, nodes[y]) OBVIOUS
        <3>2. SeqLike(c) /\ Len(c) = y /\ (\A i \in 1..k : c[i] = a[i]) /\ c[y] = nodes[y]
            BY <2>1, <2>4, <2>7, <3>1, LikeAppend
        <3>3. \A i \in 1..y : i \in 1..k \/ i = y
            BY <2>1
        <3>4. \A i \in 1..Len(b) : b[i] = c[i]
            BY <2>4, <2>6, <3>2, <3>3
        <3>5. b = c
            BY <2>6, <2>7, <3>2, <3>4, SameSeq
        <3> QED BY <3>1, <3>5
    <2>9. nodes[y] \in S
        BY <2>2
    <2> QED BY <2>1, <2>3, <2>4, <2>5, <2>8, <2>9 DEF First
<1> QED BY <1>1, <1>2

(* Sifting twice is sifting once. *)
LEMMA SiftTwice ==
    ASSUME NEW S, NEW nodes \in Seq(S), NEW a, NEW b
    PROVE  Sift(Sift(nodes, a), b) = Sift(nodes, a \cap b)
<1>1. PICK n \in Nat : n = Len(nodes) OBVIOUS
<1>2. PICK c : c = a \cap b OBVIOUS
<1> DEFINE T == {k \in 0..n : Sift(Sift(First(nodes, k), a), b) = Sift(First(nodes, k), c)}
<1>3. 0 \in T
    <2>1. Sift(<<>>, a) = <<>> /\ Sift(<<>>, b) = <<>> /\ Sift(<<>>, c) = <<>>
        BY SiftNone
    <2> QED BY <2>1, FirstNext
<1>4. ASSUME NEW k \in 0..(n - 1), k \in T
      PROVE  k + 1 \in T
    <2>1. PICK p : p = First(nodes, k) OBVIOUS
    <2>2. PICK x : x = nodes[k + 1] OBVIOUS
    <2>3. p \in Seq(S) /\ x \in S /\ First(nodes, k + 1) = Append(p, x)
        BY <1>1, <2>1, <2>2, FirstNext
    <2>4. PICK r : r = Sift(p, a) OBVIOUS
    <2>5. r \in Seq(S)
        <3>1. r \in Seq(S \cap a)
            BY <2>3, <2>4, SiftType
        <3> QED BY <3>1
    <2>6. Sift(Append(p, x), a) = IF x \in a THEN Append(r, x) ELSE r
        BY <2>3, <2>4, SiftAppend
    <2>7. Sift(Append(r, x), b) = IF x \in b THEN Append(Sift(r, b), x) ELSE Sift(r, b)
        BY <2>3, <2>5, SiftAppend
    <2>8. Sift(Append(p, x), c) = IF x \in c THEN Append(Sift(p, c), x) ELSE Sift(p, c)
        BY <2>3, SiftAppend
    <2>9. Sift(r, b) = Sift(p, c)
        BY <1>4, <2>1, <2>4
    <2>10. Sift(Sift(Append(p, x), a), b) = Sift(Append(p, x), c)
        BY <1>2, <2>6, <2>7, <2>8, <2>9
    <2>11. k + 1 \in 0..n OBVIOUS
    <2> QED BY <2>3, <2>10, <2>11
<1>5. T \in SUBSET (0..n) OBVIOUS
<1>6. \A k \in 0..(n - 1) : k \in T => k + 1 \in T
    BY <1>4
<1>7. T = 0..n
    <2> HIDE DEF T
    <2> QED BY <1>3, <1>5, <1>6, UpTo
<1>8. n \in T
    BY <1>7
<1> QED BY <1>1, <1>2, <1>8, FirstNext

(* All that is chosen is sifted. *)
LEMMA SiftMember ==
    ASSUME NEW S, NEW nodes \in Seq(S), NEW c
    PROVE  /\ \A x \in Range(nodes) : x \in c => x \in Range(Sift(nodes, c))
           /\ \A x \in Range(Sift(nodes, c)) : x \in Range(nodes) /\ x \in c
<1>1. PICK n \in Nat : n = Len(nodes) OBVIOUS
<1> DEFINE T == {k \in 0..n : \A x \in Range(First(nodes, k)) : x \in c => x \in Range(Sift(First(nodes, k), c))}
<1>2. 0 \in T
    <2>1. Range(<<>>) = {}
        BY DEF Range
    <2> QED BY <2>1, FirstNext
<1>3. \A A, q, x : q \in Seq(A) => Range(Append(q, x)) = Range(q) \cup {x}
    <2> SUFFICES ASSUME NEW A, NEW q \in Seq(A), NEW x
                 PROVE  Range(Append(q, x)) = Range(q) \cup {x} OBVIOUS
    <2>1. SeqLike(q)
        BY LikeSeq
    <2>2. PICK r : r = Append(q, x) OBVIOUS
    <2>3. PICK m \in Nat : m = Len(q) OBVIOUS
    <2>4. DOMAIN q = 1..m /\ DOMAIN r = 1..(m + 1) /\ r[m + 1] = x /\ \A i \in 1..m : r[i] = q[i]
        BY <2>1, <2>2, <2>3, LikeAppend
    <2>5. \A i \in 1..(m + 1) : i \in 1..m \/ i = m + 1 OBVIOUS
    <2>6. (\A i \in 1..m : i \in 1..(m + 1)) /\ m + 1 \in 1..(m + 1) OBVIOUS
    <2> QED BY <2>2, <2>4, <2>5, <2>6 DEF Range
<1>4. ASSUME NEW k \in 0..(n - 1), k \in T
      PROVE  k + 1 \in T
    <2>1. PICK p : p = First(nodes, k) OBVIOUS
    <2>2. PICK x : x = nodes[k + 1] OBVIOUS
    <2>3. p \in Seq(S) /\ x \in S /\ First(nodes, k + 1) = Append(p, x)
        BY <1>1, <2>1, <2>2, FirstNext
    <2>4. PICK r : r = Sift(p, c) OBVIOUS
    <2>5. r \in Seq(S)
        <3>1. r \in Seq(S \cap c)
            BY <2>3, <2>4, SiftType
        <3> QED BY <3>1
    <2>6. Sift(Append(p, x), c) = IF x \in c THEN Append(r, x) ELSE r
        BY <2>3, <2>4, SiftAppend
    <2>7. Range(Append(p, x)) = Range(p) \cup {x} /\ Range(Append(r, x)) = Range(r) \cup {x}
        BY <1>3, <2>3, <2>5
    <2>8. \A y \in Range(p) : y \in c => y \in Range(r)
        BY <1>4, <2>1, <2>4
    <2>9. \A y \in Range(Append(p, x)) : y \in c => y \in Range(Sift(Append(p, x), c))
        BY <2>6, <2>7, <2>8
    <2>10. k + 1 \in 0..n OBVIOUS
    <2> QED BY <2>3, <2>9, <2>10
<1>5. T \in SUBSET (0..n) OBVIOUS
<1>6. \A k \in 0..(n - 1) : k \in T => k + 1 \in T
    BY <1>4
<1>7. T = 0..n
    <2> HIDE DEF T
    <2> QED BY <1>2, <1>5, <1>6, UpTo
<1>8. n \in T
    BY <1>7
<1>9. \A x \in Range(nodes) : x \in c => x \in Range(Sift(nodes, c))
    BY <1>1, <1>8, FirstNext
<1>10. \A x \in Range(Sift(nodes, c)) : x \in Range(nodes) /\ x \in c
    <2>1. nodes \in Seq(Range(nodes))
        BY LikeSeq DEF SeqLike
    <2>2. Sift(nodes, c) \in Seq(Range(nodes) \cap c)
        BY <2>1, SiftType
    <2>3. \A q \in Seq(Range(nodes) \cap c) : \A x \in Range(q) : x \in Range(nodes) /\ x \in c
        BY DEF Range
    <2> QED BY <2>2, <2>3
<1> QED BY <1>9, <1>10

(* Nodes that stand once are sifted once. *)
Apart(q) == \A i, j \in DOMAIN q : i # j => q[i] # q[j]
(* What is sifted stands once as well. *)
LEMMA SiftApart ==
    ASSUME NEW S, NEW nodes \in Seq(S), NEW c, Apart(nodes)
    PROVE  Apart(Sift(nodes, c))
<1>1. PICK n \in Nat : n = Len(nodes) OBVIOUS
<1> DEFINE T == {k \in 0..n : Apart(Sift(First(nodes, k), c))}
<1>2. 0 \in T
    <2>1. Apart(<<>>)
        BY DEF Apart
    <2>2. Sift(<<>>, c) = <<>> /\ First(nodes, 0) = <<>>
        BY SiftNone, FirstNext
    <2> QED BY <2>1, <2>2
<1>3. ASSUME NEW k \in 0..(n - 1), k \in T
      PROVE  k + 1 \in T
    <2>1. PICK p : p = First(nodes, k) OBVIOUS
    <2>2. PICK x : x = nodes[k + 1] OBVIOUS
    <2>3. p \in Seq(S) /\ x \in S /\ First(nodes, k + 1) = Append(p, x)
        BY <1>1, <2>1, <2>2, FirstNext
    <2>4. PICK r : r = Sift(p, c) OBVIOUS
    <2>5. r \in Seq(S)
        <3>1. r \in Seq(S \cap c)
            BY <2>3, <2>4, SiftType
        <3> QED BY <3>1
    <2>6. Sift(Append(p, x), c) = IF x \in c THEN Append(r, x) ELSE r
        BY <2>3, <2>4, SiftAppend
    <2>7. x \notin Range(p)
        <3>1. DOMAIN p = 1..k /\ \A i \in 1..k : p[i] = nodes[i]
            BY <1>1, <2>1 DEF First
        <3>2. \A i \in 1..k : i \in DOMAIN nodes /\ k + 1 \in DOMAIN nodes /\ i # k + 1
            BY <1>1
        <3> QED BY <2>2, <3>1, <3>2 DEF Range, Apart
    <2>8. x \notin Range(r)
        BY <2>3, <2>4, <2>7, SiftMember
    <2>9. Apart(r)
        BY <1>3, <2>1, <2>4
    <2>10. Apart(Append(r, x))
        <3>1. PICK q : q = Append(r, x) OBVIOUS
        <3>2. PICK m \in Nat : m = Len(r)
            BY <2>5
        <3>3. DOMAIN r = 1..m /\ DOMAIN q = 1..(m + 1) /\ q[m + 1] = x /\ \A i \in 1..m : q[i] = r[i]
            BY <2>5, <3>1, <3>2, LikeSeq, LikeAppend
        <3>4. \A i \in 1..(m + 1) : i \in 1..m \/ i = m + 1 OBVIOUS
        <3>5. \A i \in 1..m : q[i] # x
            BY <2>8, <3>3 DEF Range
        <3>6. \A i, j \in 1..(m + 1) : i # j => q[i] # q[j]
            BY <2>9, <3>3, <3>4, <3>5 DEF Apart
        <3> QED BY <3>1, <3>3, <3>6 DEF Apart
    <2>11. Apart(Sift(Append(p, x), c))
        BY <2>6, <2>9, <2>10
    <2>12. k + 1 \in 0..n OBVIOUS
    <2> QED BY <2>3, <2>11, <2>12
<1>4. T \in SUBSET (0..n) OBVIOUS
<1>5. \A k \in 0..(n - 1) : k \in T => k + 1 \in T
    BY <1>3
<1>6. T = 0..n
    <2> HIDE DEF T
    <2> QED BY <1>2, <1>4, <1>5, UpTo
<1>7. n \in T
    BY <1>6
<1> QED BY <1>1, <1>7, FirstNext

(* The last node chosen is sifted last. *)
LEMMA SiftLast ==
    ASSUME NEW S, NEW nodes \in Seq(S), NEW c, NEW i \in 1..Len(nodes), nodes[i] \in c,
           \A j \in 1..Len(nodes) : i < j => nodes[j] \notin c
    PROVE  Sift(nodes, c) # <<>> /\ Last(Sift(nodes, c)) = nodes[i]
<1>1. PICK n \in Nat : n = Len(nodes) OBVIOUS
<1>2. PICK w : w = nodes[i] OBVIOUS
<1> DEFINE T == {k \in i..n : Sift(First(nodes, k), c) # <<>> /\ Last(Sift(First(nodes, k), c)) = w}
<1>3. i \in T
    <2>1. PICK k \in Nat : k = i - 1 OBVIOUS
    <2>2. k \in 0..(n - 1) /\ k + 1 = i
        BY <1>1, <2>1
    <2>3. PICK p : p = First(nodes, k) OBVIOUS
    <2>4. p \in Seq(S) /\ w \in S /\ First(nodes, i) = Append(p, w)
        <3>1. /\ First(nodes, k) \in Seq(S) /\ nodes[k + 1] \in S
              /\ First(nodes, k + 1) = Append(First(nodes, k), nodes[k + 1])
            BY <1>1, <2>2, FirstNext
        <3> QED BY <1>2, <2>2, <2>3, <3>1
    <2>5. PICK r : r = Sift(p, c) OBVIOUS
    <2>6. r \in Seq(S)
        <3>1. r \in Seq(S \cap c)
            BY <2>4, <2>5, SiftType
        <3> QED BY <3>1
    <2>7. Sift(Append(p, w), c) = Append(r, w)
        BY <1>2, <2>4, <2>5, SiftAppend
    <2>8. Append(r, w) # <<>> /\ Last(Append(r, w)) = w
        <3>1. PICK q : q = Append(r, w) OBVIOUS
        <3>2. PICK m \in Nat : m = Len(r)
            BY <2>6
        <3>3. Len(q) = m + 1 /\ q[m + 1] = w
            BY <2>6, <3>1, <3>2, LikeSeq, LikeAppend
        <3>4. q # <<>>
            BY <3>2, <3>3
        <3> QED BY <3>1, <3>3, <3>4 DEF Last
    <2>9. Sift(First(nodes, i), c) # <<>> /\ Last(Sift(First(nodes, i), c)) = w
        BY <2>4, <2>7, <2>8
    <2>10. i \in i..n
        BY <1>1
    <2> QED BY <2>9, <2>10
<1>4. ASSUME NEW k \in i..(n - 1), k \in T
      PROVE  k + 1 \in T
    <2>1. k \in 0..(n - 1) /\ k + 1 \in i..n /\ k + 1 \in 1..n /\ i < k + 1
        BY <1>1
    <2>2. PICK p : p = First(nodes, k) OBVIOUS
    <2>3. PICK x : x = nodes[k + 1] OBVIOUS
    <2>4. p \in Seq(S) /\ x \in S /\ First(nodes, k + 1) = Append(p, x)
        BY <1>1, <2>1, <2>2, <2>3, FirstNext
    <2>5. x \notin c
        BY <1>1, <2>1, <2>3
    <2>6. Sift(Append(p, x), c) = Sift(p, c)
        BY <2>4, <2>5, SiftAppend
    <2> QED BY <1>4, <2>1, <2>2, <2>4, <2>6
<1>5. T \in SUBSET (i..n) /\ i \in Int /\ n \in Int /\ i <= n
    BY <1>1
<1>6. \A k \in i..(n - 1) : k \in T => k + 1 \in T
    BY <1>4
<1>7. T = i..n
    <2> HIDE DEF T
    <2> QED BY <1>3, <1>5, <1>6, UpTo
<1>8. n \in T
    BY <1>5, <1>7
<1> QED BY <1>1, <1>2, <1>8, FirstNext

(* Where nothing is chosen, nothing is sifted. *)
LEMMA SiftEmpty ==
    ASSUME NEW S, NEW nodes \in Seq(S), NEW c, \A j \in 1..Len(nodes) : nodes[j] \notin c
    PROVE  Sift(nodes, c) = <<>>
<1>1. Sift(nodes, c) \in Seq(Range(nodes) \cap c)
    <2>1. nodes \in Seq(Range(nodes))
        BY LikeSeq DEF SeqLike
    <2> QED BY <2>1, SiftType
<1>2. Range(nodes) \cap c = {}
    BY DEF Range
<1>3. \A q \in Seq({}) : q = <<>> OBVIOUS
<1> QED BY <1>1, <1>2, <1>3

-----------------------------------------------------------------------------
(* What a request says. *)

(* The nodes of a folded session are events of its log. *)
LEMMA NodesIn ==
    ASSUME NEW s, Folded(s)
    PROVE  /\ s.nodes \in Seq(DOMAIN s.log) /\ Len(s.nodes) \in Nat
           /\ DOMAIN s.nodes = 1..Len(s.nodes)
           /\ \A k \in 1..Len(s.nodes) : s.nodes[k] \in DOMAIN s.log
           /\ DOMAIN s.log = 1..Len(s.log) /\ Len(s.log) \in Nat /\ SeqLike(s.log)
<1>1. s.nodes \in Seq({i \in DOMAIN s.log : s.log[i].t \in SurfaceType})
    BY DEF Folded
<1>2. s.nodes \in Seq(DOMAIN s.log)
    BY <1>1
<1>3. SeqLike(s.log)
    BY DEF Folded, SeqLike
<1> QED BY <1>2, <1>3, LikeSeq DEF SeqLike

(* A node that says a system prompt. *)
Speaks(s, k) == s.log[s.nodes[k]].t = "system" /\ s.log[s.nodes[k]].v # ""

(* The last such node says v, or there is none. *)
Voice(s, v) ==
    \/ v = "" /\ \A k \in 1..Len(s.nodes) : ~Speaks(s, k)
    \/ \E k \in 1..Len(s.nodes) :
          /\ Speaks(s, k) /\ s.log[s.nodes[k]].v = v
          /\ \A j \in 1..Len(s.nodes) : k < j => ~Speaks(s, j)

(* The spoken nodes are those that speak. *)
LEMMA SpokenIs ==
    ASSUME NEW s, Folded(s)
    PROVE  /\ Spoken(s) = Sift(s.nodes, OfType(s, "system") \cap Audible(s))
           /\ \A k \in 1..Len(s.nodes) :
                 s.nodes[k] \in OfType(s, "system") \cap Audible(s) <=> Speaks(s, k)
<1>1. s.nodes \in Seq(DOMAIN s.log)
    BY NodesIn
<1>2. Spoken(s) = Sift(s.nodes, OfType(s, "system") \cap Audible(s))
    BY <1>1, SiftTwice DEF Spoken, SystemNodes
<1>3. \A k \in 1..Len(s.nodes) :
          s.nodes[k] \in OfType(s, "system") \cap Audible(s) <=> Speaks(s, k)
    BY NodesIn DEF OfType, Audible, Silent, Speaks
<1> QED BY <1>2, <1>3

(* The effective prompt is what the last of them says. *)
LEMMA VoiceIs ==
    ASSUME NEW s, NEW v, Folded(s), Voice(s, v)
    PROVE  EffectivePrompt(s) = v /\ (Spoken(s) = <<>> <=> \A k \in 1..Len(s.nodes) : ~Speaks(s, k))
<1>1. PICK c : c = OfType(s, "system") \cap Audible(s) OBVIOUS
<1>2. s.nodes \in Seq(DOMAIN s.log)
    BY NodesIn
<1>3. Spoken(s) = Sift(s.nodes, c) /\ \A k \in 1..Len(s.nodes) : s.nodes[k] \in c <=> Speaks(s, k)
    BY <1>1, SpokenIs
<1>4. CASE v = "" /\ \A k \in 1..Len(s.nodes) : ~Speaks(s, k)
    <2>1. Spoken(s) = <<>>
        BY <1>2, <1>3, <1>4, SiftEmpty
    <2> QED BY <1>4, <2>1 DEF EffectivePrompt
<1>5. ASSUME NEW k \in 1..Len(s.nodes), Speaks(s, k), s.log[s.nodes[k]].v = v,
             \A j \in 1..Len(s.nodes) : k < j => ~Speaks(s, j)
      PROVE  EffectivePrompt(s) = v /\ Spoken(s) # <<>>
    <2>1. s.nodes[k] \in c /\ \A j \in 1..Len(s.nodes) : k < j => s.nodes[j] \notin c
        BY <1>3, <1>5
    <2>2. Sift(s.nodes, c) # <<>> /\ Last(Sift(s.nodes, c)) = s.nodes[k]
        BY <1>2, <2>1, SiftLast
    <2> QED BY <1>3, <1>5, <2>2 DEF EffectivePrompt
<1> QED BY <1>4, <1>5 DEF Voice

(* There is always one answer. *)
LEMMA VoiceSome ==
    ASSUME NEW s, Folded(s)
    PROVE  Voice(s, EffectivePrompt(s))
<1>1. PICK n \in Nat : n = Len(s.nodes)
    BY NodesIn
<1>2. PICK K : K = {k \in 1..n : Speaks(s, k)} OBVIOUS
<1>3. K \in SUBSET (1..n)
    BY <1>2
<1>4. \E v : Voice(s, v)
    <2>1. CASE K = {}
        <3>1. Voice(s, "")
            BY <1>1, <1>2, <2>1 DEF Voice
        <3> QED BY <3>1
    <2>2. CASE K # {}
        <3>1. PICK k \in K : \A j \in K : j <= k
            BY <1>3, <2>2, Greatest
        <3>2. \A j \in 1..n : k < j => ~Speaks(s, j)
            BY <1>2, <1>3, <3>1
        <3>3. Voice(s, s.log[s.nodes[k]].v)
            BY <1>1, <1>2, <3>1, <3>2 DEF Voice
        <3> QED BY <3>3
    <2> QED BY <2>1, <2>2
<1>5. PICK v : Voice(s, v)
    BY <1>4
<1> QED BY <1>5, VoiceIs

(* A node at the end says its prompt, or leaves the last word to those before. *)
LEMMA VoiceOn ==
    ASSUME NEW s, NEW e, Folded(s), e.t \in SurfaceType, e.at = <<>>,
           NEW t, t = Put(s, e)
    PROVE  /\ e.t = "system" /\ e.v # "" => Voice(t, e.v)
           /\ \A v : e.t # "system" \/ e.v = "" => (Voice(s, v) => Voice(t, v))
<1>1. t.log = Append(s.log, e) /\ t.nodes = Append(s.nodes, Len(s.log) + 1)
    BY PutFields DEF Placed
<1>2. PICK n \in Nat : n = Len(s.nodes)
    BY NodesIn
<1>3. PICK seq : seq = Len(s.log) + 1 OBVIOUS
<1>4. PICK M : M = DOMAIN s.log OBVIOUS
<1>5. (\A k \in M : t.log[k] = s.log[k]) /\ t.log[seq] = e /\ \A k \in 1..n : s.nodes[k] \in M
    BY <1>1, <1>2, <1>3, <1>4, NodesIn, LikeAppend
<1>6. Len(t.nodes) = n + 1 /\ t.nodes[n + 1] = seq /\ \A k \in 1..n : t.nodes[k] = s.nodes[k]
    <2>1. SeqLike(s.nodes)
        BY NodesIn, LikeSeq
    <2> QED BY <1>1, <1>2, <1>3, <2>1, LikeAppend
<1>7. \A k \in 1..n : t.log[t.nodes[k]] = s.log[s.nodes[k]]
    BY <1>5, <1>6
<1>8. \A k \in 1..n : Speaks(t, k) <=> Speaks(s, k)
    BY <1>7 DEF Speaks
<1>9. t.log[t.nodes[n + 1]] = e
    BY <1>5, <1>6
<1>10. (\A k \in 1..(n + 1) : k \in 1..n \/ k = n + 1) /\ n + 1 \in 1..(n + 1) /\ \A k \in 1..n : k \in 1..(n + 1)
    OBVIOUS
<1>11. ASSUME e.t = "system", e.v # "" PROVE Voice(t, e.v)
    <2>1. Speaks(t, n + 1) /\ t.log[t.nodes[n + 1]].v = e.v
        BY <1>9, <1>11 DEF Speaks
    <2>2. \A j \in 1..(n + 1) : ~(n + 1 < j) OBVIOUS
    <2> QED BY <1>6, <1>10, <2>1, <2>2 DEF Voice
<1>12. ASSUME NEW v, e.t # "system" \/ e.v = "", Voice(s, v) PROVE Voice(t, v)
    <2>1. ~Speaks(t, n + 1)
        BY <1>9, <1>12 DEF Speaks
    <2>2. CASE v = "" /\ \A k \in 1..n : ~Speaks(s, k)
        <3>1. \A k \in 1..(n + 1) : ~Speaks(t, k)
            BY <1>8, <1>10, <2>1, <2>2
        <3> QED BY <1>6, <2>2, <3>1 DEF Voice
    <2>3. ASSUME NEW k \in 1..n, Speaks(s, k), s.log[s.nodes[k]].v = v,
                 \A j \in 1..n : k < j => ~Speaks(s, j)
          PROVE  Voice(t, v)
        <3>1. \A j \in 1..(n + 1) : k < j => ~Speaks(t, j)
            BY <1>8, <1>10, <2>1, <2>3
        <3>2. Speaks(t, k) /\ t.log[t.nodes[k]].v = v /\ k \in 1..(n + 1)
            BY <1>7, <1>8, <1>10, <2>3
        <3> QED BY <1>6, <3>1, <3>2 DEF Voice
    <2> QED BY <1>2, <1>12, <2>2, <2>3 DEF Voice
<1> QED BY <1>11, <1>12

(* What is logged without a node says nothing. *)
LEMMA VoiceLog ==
    ASSUME NEW s, NEW e, NEW v, Folded(s), e.t \notin SurfaceType, Voice(s, v),
           NEW t, t = Put(s, e)
    PROVE  Voice(t, v)
<1>1. t.log = Append(s.log, e) /\ t.nodes = s.nodes
    BY PutFields DEF Placed
<1>2. \A k \in 1..Len(s.nodes) : t.log[t.nodes[k]] = s.log[s.nodes[k]]
    BY <1>1, NodesIn, LikeAppend
<1>3. \A k \in 1..Len(s.nodes) : Speaks(t, k) <=> Speaks(s, k)
    BY <1>2 DEF Speaks
<1>4. Len(t.nodes) = Len(s.nodes)
    BY <1>1
<1> QED BY <1>2, <1>3, <1>4 DEF Voice

(* The runtime context is known to be this one; none at all says nothing. *)
Recalls(s, text) ==
    \/ s.context = NoContext /\ text = ""
    \/ s.context > 0 /\ s.log[s.context].v = (IF text = "" THEN "cleared" ELSE text)

(* A runtime context that is known is the last one of the history. *)
LEMMA ContextLast ==
    ASSUME NEW s, NEW text, Folded(s), Conversation(s), ContextKnown(s), Recalls(s, text)
    PROVE  ContextHeard(s, text)
<1>1. PICK c : c = OfType(s, "context") OBVIOUS
<1>2. s.nodes \in Seq(DOMAIN s.log)
    BY NodesIn
<1>3. PICK n \in Nat : n = Len(s.nodes) /\ DOMAIN s.nodes = 1..n
    BY NodesIn
<1>4. \A k \in 1..n : s.nodes[k] \in c <=> s.log[s.nodes[k]].t = "context"
    BY <1>1, <1>3, NodesIn DEF OfType
<1>5. CASE s.context = NoContext /\ text = ""
    <2>1. \A k \in 1..n : s.nodes[k] \notin c
        BY <1>3, <1>4, <1>5 DEF ContextKnown, Range
    <2>2. Sift(s.nodes, c) = <<>>
        BY <1>2, <1>3, <2>1, SiftEmpty
    <2> QED BY <1>1, <1>5, <2>2 DEF ContextHeard
<1>6. PICK told : told = IF text = "" THEN "cleared" ELSE text OBVIOUS
<1>7. CASE s.context > 0 /\ s.log[s.context].v = told
    <2>1. /\ s.context \in Range(s.nodes) /\ s.log[s.context].t = "context"
          /\ \A x \in Range(s.nodes) : s.log[x].t = "context" => x <= s.context
        BY <1>7 DEF ContextKnown
    <2>2. PICK k \in 1..n : s.nodes[k] = s.context
        BY <1>3, <2>1 DEF Range
    <2>3. s.nodes[k] \in c
        BY <1>4, <2>1, <2>2
    <2>4. ASSUME NEW j \in 1..n, k < j PROVE s.nodes[j] \notin c
        <3> SUFFICES ASSUME s.log[s.nodes[j]].t = "context" PROVE FALSE
            BY <1>4
        <3>1. s.nodes[k] < s.nodes[j]
            BY <1>3, <2>1, <2>2, <2>4 DEF Conversation
        <3>2. s.nodes[j] <= s.context
            BY <1>3, <2>1 DEF Range
        <3>3. PICK l \in Nat : l = Len(s.log) /\ DOMAIN s.log = 1..l
            BY NodesIn
        <3>4. s.nodes[j] \in 1..l /\ s.nodes[k] \in 1..l
            BY <1>3, <3>3, NodesIn
        <3>5. PICK a \in Nat : a = s.nodes[j]
            BY <3>4
        <3>6. PICK b \in Nat : b = s.nodes[k]
            BY <3>4
        <3>7. b < a /\ a <= b
            BY <2>2, <3>1, <3>2, <3>5, <3>6
        <3> QED BY <3>7
    <2>5. Sift(s.nodes, c) # <<>> /\ Last(Sift(s.nodes, c)) = s.context
        BY <1>2, <1>3, <2>2, <2>3, <2>4, SiftLast
    <2> QED BY <1>1, <1>6, <1>7, <2>5 DEF ContextHeard
<1> QED BY <1>5, <1>6, <1>7 DEF Recalls

-----------------------------------------------------------------------------
(* The prompt's events. *)

(* Swaps that silence every system node but the head, and give it its prompt. *)
Rebaselines(s, es, q, rendered) ==
    /\ s.nodes # <<>>
    /\ SwapList(s, es, q, "system")
    /\ \A k \in 2..Len(s.nodes) : Speaks(s, k) => \E i \in 1..Len(es) : q[i] = s.nodes[k]
    /\ \A i \in 1..Len(es) : q[i] # s.nodes[1] => es[i].v = ""
    /\ \/ s.log[s.nodes[1]].v = rendered /\ \A i \in 1..Len(es) : q[i] # s.nodes[1]
       \/ \E i \in 1..Len(es) : q[i] = s.nodes[1] /\ es[i].v = rendered

(* What comes of a conversation when the prompt is made effective. *)
Prompted(s, t, from, rendered) ==
    /\ Steady(s, t, from) /\ Voice(t, rendered) /\ t.nodes # <<>>
    /\ Held(s, t)

(* They make the prompt effective. *)
LEMMA RebaselineTells ==
    ASSUME NEW s, NEW from, NEW es, NEW q, NEW rendered, Fine(s, from), Rebaselines(s, es, q, rendered),
           NEW t, t = PutAll(s, es)
    PROVE  Prompted(s, t, from, rendered)
<1>1. Steady(s, t, from) /\ Swapped(s, t, es, q, Len(es))
    BY TellSwaps DEF Rebaselines
<1>2. Folded(s) /\ Folded(t) /\ Grown(s, t) /\ Conversation(s) /\ t.nodes # <<>>
    BY <1>1 DEF Fine, Steady, Tells, Rebaselines
<1>3. PICK n \in Nat : n = Len(s.nodes) /\ DOMAIN s.nodes = 1..n /\ n > 0
    <2>1. \A r \in Seq(DOMAIN s.log) : r # <<>> => Len(r) > 0 OBVIOUS
    <2> QED BY <1>2, <2>1, NodesIn DEF Rebaselines
<1>4. PICK m : m = Len(es) OBVIOUS
<1>5. /\ Len(t.nodes) = n
      /\ \A k \in 1..n :
            /\ t.log[t.nodes[k]].t = s.log[s.nodes[k]].t
            /\ \A i \in 1..m : s.nodes[k] = q[i] => t.log[t.nodes[k]].v = es[i].v
            /\ (\A i \in 1..m : s.nodes[k] # q[i]) => t.nodes[k] = s.nodes[k]
    BY <1>1, <1>3, <1>4 DEF Swapped
<1>6. \A k \in 1..n : t.log[s.nodes[k]] = s.log[s.nodes[k]]
    BY <1>2, <1>3, GrownLog, NodesIn
<1>7. ASSUME NEW k \in 2..n PROVE ~Speaks(t, k)
    <2>1. k \in 1..n /\ 1 \in 1..n /\ 1 < k
        BY <1>3
    <2>2. s.nodes[k] # s.nodes[1]
        BY <1>2, <1>3, <2>1 DEF Conversation
    <2>3. ASSUME NEW i \in 1..m, s.nodes[k] = q[i] PROVE ~Speaks(t, k)
        <3>1. t.log[t.nodes[k]].v = es[i].v /\ es[i].v = ""
            BY <1>4, <1>5, <2>1, <2>2, <2>3 DEF Rebaselines
        <3> QED BY <3>1 DEF Speaks
    <2>4. ASSUME \A i \in 1..m : s.nodes[k] # q[i] PROVE ~Speaks(t, k)
        <3>1. t.nodes[k] = s.nodes[k] /\ t.log[t.nodes[k]] = s.log[s.nodes[k]]
            BY <1>5, <1>6, <2>1, <2>4
        <3>2. ~Speaks(s, k)
            BY <1>3, <1>4, <2>4 DEF Rebaselines
        <3> QED BY <3>1, <3>2 DEF Speaks
    <2> QED BY <2>3, <2>4
<1>8. t.log[t.nodes[1]].t = "system" /\ t.log[t.nodes[1]].v = rendered
    <2>1. 1 \in 1..n
        BY <1>3
    <2>2. t.log[t.nodes[1]].t = "system"
        BY <1>2, <1>5, <2>1 DEF Conversation, Rebaselines
    <2>3. CASE s.log[s.nodes[1]].v = rendered /\ \A i \in 1..m : q[i] # s.nodes[1]
        <3>1. t.nodes[1] = s.nodes[1]
            BY <1>5, <2>1, <2>3
        <3> QED BY <1>6, <2>1, <2>2, <2>3, <3>1
    <2>4. CASE \E i \in 1..m : q[i] = s.nodes[1] /\ es[i].v = rendered
        BY <1>5, <2>1, <2>2, <2>4
    <2> QED BY <1>4, <2>3, <2>4 DEF Rebaselines
<1>9. Voice(t, rendered)
    <2>1. 1 \in 1..n /\ \A k \in 1..n : k = 1 \/ (k \in 2..n /\ 1 < k)
        BY <1>3
    <2>2. CASE rendered = ""
        <3>1. ~Speaks(t, 1)
            BY <1>8, <2>2 DEF Speaks
        <3>2. \A k \in 1..n : ~Speaks(t, k)
            BY <1>7, <2>1, <3>1
        <3> QED BY <1>5, <2>2, <3>2 DEF Voice
    <2>3. CASE rendered # ""
        <3>1. Speaks(t, 1)
            BY <1>8, <2>3 DEF Speaks
        <3>2. \A k \in 1..n : 1 < k => ~Speaks(t, k)
            <4>1. \A k \in 1..n : 1 < k => k \in 2..n OBVIOUS
            <4> QED BY <1>7, <4>1
        <3> QED BY <1>5, <1>8, <2>1, <3>1, <3>2 DEF Voice
    <2> QED BY <2>2, <2>3
<1>10. Held(s, t)
    BY <1>1 DEF Swapped
<1> QED BY <1>1, <1>2, <1>9, <1>10 DEF Prompted

(* Nodes with one in front of them. *)
Headed(x, b) == <<x>> \o b

(* A chosen first node stays the first. *)
LEMMA SiftHead ==
    ASSUME NEW S, NEW x \in S, NEW b \in Seq(S), NEW c, x \in c
    PROVE  Sift(Headed(x, b), c) = Headed(x, Sift(b, c))
<1>1. PICK a : a = <<x>> OBVIOUS
<1>2. a \in Seq(S)
    BY <1>1
<1>3. Sift(a \o b, c) = Sift(a, c) \o Sift(b, c)
    BY <1>2, SiftJoin
<1>4. PICK e : e = <<>> OBVIOUS
<1>5. e \in Seq(S)
    BY <1>4
<1>6. Sift(Append(e, x), c) = Append(Sift(e, c), x)
    BY <1>5, SiftAppend
<1>8. Append(e, x) = a
    BY <1>1, <1>4
<1>7. Sift(e, c) = e
    BY <1>4, SiftNone
<1> QED BY <1>1, <1>3, <1>6, <1>7, <1>8 DEF Headed

(* The system nodes are the head and those behind it. *)
LEMMA SystemIs ==
    ASSUME NEW s, Folded(s), Conversation(s), s.nodes # <<>>,
           NEW rest, rest = SubSeq(s.nodes, 2, Len(s.nodes)),
           NEW behind, behind = Sift(rest, OfType(s, "system"))
    PROVE  /\ SystemNodes(s) # <<>> /\ Head(SystemNodes(s)) = s.nodes[1]
           /\ Tail(SystemNodes(s)) = behind
           /\ rest \in Seq(DOMAIN s.log) /\ behind \in Seq(DOMAIN s.log)
           /\ Apart(rest)
           /\ \A k \in 2..Len(s.nodes) : s.nodes[k] \in Range(rest)
           /\ \A x \in Range(rest) : x # s.nodes[1] /\ x \in Range(s.nodes)
<1>1. PICK D : D = DOMAIN s.log /\ s.nodes \in Seq(D)
    BY NodesIn
<1>2. PICK n \in Nat : n = Len(s.nodes) /\ DOMAIN s.nodes = 1..n /\ n > 0
    <2>1. \A r \in Seq(DOMAIN s.log) : r # <<>> => Len(r) > 0 OBVIOUS
    <2> QED BY <1>1, <2>1, NodesIn
<1>3. PICK c : c = OfType(s, "system") OBVIOUS
<1>4. PICK x \in D : x = s.nodes[1] /\ x \in c
    <2>1. s.nodes[1] \in D
        BY <1>1, <1>2
    <2>2. s.nodes[1] \in c
        BY <1>1, <1>3, <2>1 DEF OfType, Conversation
    <2> QED BY <2>1, <2>2
<1>5. /\ rest \in Seq(D) /\ Len(rest) = n - 1
      /\ \A k \in 1..(n - 1) : rest[k] = s.nodes[1 + k]
    <2>1. 1 \in 0..Len(s.nodes) /\ 1 + 1 = 2
        BY <1>2
    <2> QED BY <1>1, <1>2, <2>1, LastPart, ZenonT(60)
<1>6. SubSeq(s.nodes, 1, 1) = <<x>>
    <2>1. \A w \in Seq(D) : Len(w) > 0 => SubSeq(w, 1, 1) \in Seq(D) /\ Len(SubSeq(w, 1, 1)) = 1 /\ SubSeq(w, 1, 1)[1] = w[1]
        OBVIOUS
    <2>2. PICK a : a = SubSeq(s.nodes, 1, 1) OBVIOUS
    <2>3. a \in Seq(D) /\ Len(a) = 1 /\ a[1] = x
        BY <1>1, <1>2, <1>4, <2>1, <2>2
    <2>4. <<x>> \in Seq(D) /\ Len(<<x>>) = 1 /\ <<x>>[1] = x OBVIOUS
    <2>5. SeqLike(a) /\ SeqLike(<<x>>)
        BY <2>3, <2>4, LikeSeq
    <2>6. \A i \in 1..Len(a) : a[i] = <<x>>[i]
        BY <2>3, <2>4
    <2>7. a = <<x>>
        BY <2>3, <2>4, <2>5, <2>6, SameSeq
    <2> QED BY <2>2, <2>7
<1>7. SystemNodes(s) = <<x>> \o behind
    <2>1. 1 \in 0..Len(s.nodes) /\ 1 + 1 = 2
        BY <1>2
    <2>2. SubSeq(s.nodes, 1, 1) \o SubSeq(s.nodes, 1 + 1, Len(s.nodes)) = s.nodes
        BY <1>1, <2>1, SplitSeq
    <2>3. s.nodes = <<x>> \o rest
        BY <1>6, <2>1, <2>2
    <2>4. <<x>> \in Seq(D) OBVIOUS
    <2>5. Sift(<<x>> \o rest, c) = <<x>> \o Sift(rest, c)
        <3>1. PICK b : b = rest OBVIOUS
        <3>2. x \in D /\ b \in Seq(D) /\ x \in c
            BY <1>4, <1>5, <3>1
        <3>3. Sift(Headed(x, b), c) = Headed(x, Sift(b, c))
            BY <3>2, SiftHead
        <3> QED BY <3>1, <3>3 DEF Headed
    <2> QED BY <1>3, <2>3, <2>5 DEF SystemNodes
<1>8. behind \in Seq(D)
    <2>1. behind \in Seq(D \cap c)
        BY <1>3, <1>5, SiftType
    <2> QED BY <2>1
<1>9. PICK w : w = <<x>> \o behind OBVIOUS
<1>10. w # <<>> /\ Head(w) = x /\ Tail(w) = behind
    <2>1. \A b \in Seq(D) : <<x>> \o b # <<>> /\ Head(<<x>> \o b) = x /\ Tail(<<x>> \o b) = b
        OBVIOUS
    <2> QED BY <1>8, <1>9, <2>1
<1>11. \A i, j \in 1..n : i # j => s.nodes[i] # s.nodes[j]
    <2>1. \A i, j \in 1..n : i # j => i < j \/ j < i OBVIOUS
    <2> QED BY <1>2, <2>1 DEF Conversation
<1>12. DOMAIN rest = 1..(n - 1)
    BY <1>5
<1>13. \A k \in 1..(n - 1) : 1 + k \in 1..n /\ 1 + k # 1 /\ 1 \in 1..n
    BY <1>2
<1>14. Apart(rest)
    BY <1>5, <1>11, <1>12, <1>13 DEF Apart
<1>15. ASSUME NEW k \in 2..n PROVE s.nodes[k] \in Range(rest)
    <2>1. PICK i \in 1..(n - 1) : k = 1 + i
        <3>1. k - 1 \in 1..(n - 1) /\ k = 1 + (k - 1) OBVIOUS
        <3> QED BY <3>1
    <2>2. rest[i] = s.nodes[k]
        BY <1>5, <2>1
    <2> QED BY <1>12, <2>2 DEF Range
<1>16. ASSUME NEW y \in Range(rest) PROVE y # s.nodes[1] /\ y \in Range(s.nodes)
    <2>1. PICK i \in 1..(n - 1) : rest[i] = y
        BY <1>12 DEF Range
    <2>2. y = s.nodes[1 + i] /\ 1 + i \in 1..n /\ 1 + i # 1 /\ 1 \in 1..n
        BY <1>5, <1>13, <2>1
    <2> QED BY <1>2, <1>11, <2>2 DEF Range
<1> QED BY <1>1, <1>2, <1>4, <1>5, <1>7, <1>8, <1>9, <1>10, <1>14, <1>15, <1>16

(* Making the prompt effective keeps the conversation. *)
LEMMA PromptTells ==
    ASSUME NEW s, NEW from, Fine(s, from), NEW rendered, NEW inHistory, NEW startsSeries,
           NEW t, t = PutAll(s, PromptEvents(s, rendered, inHistory, startsSeries))
    PROVE  Prompted(s, t, from, rendered)
<1>1. Folded(s) /\ Conversation(s)
    BY DEF Fine
<1>2. PICK system : system = SystemNodes(s) OBVIOUS
<1>3. PICK head : head = Head(system) OBVIOUS
<1>4. PICK latest : latest = IF Spoken(s) = <<>> THEN s.log[head].v ELSE EffectivePrompt(s)
    OBVIOUS
<1>5. PICK tail : tail = Sift(Tail(system), Audible(s)) OBVIOUS
<1>6. PICK silence : silence = [i \in DOMAIN tail |-> Rewrite("system", "", tail[i], tail[i])]
    OBVIOUS
<1>7. PICK again : again = IF s.log[head].v = rendered THEN <<>>
                           ELSE <<Rewrite("system", rendered, head, head)>> OBVIOUS
<1>8. PICK events : events = PromptEvents(s, rendered, inHistory, startsSeries) OBVIOUS
<1>9. events = CASE system = <<>> -> <<Ev("system", rendered)>>
                 [] system # <<>> /\ (~inHistory \/ rendered = "" \/ (startsSeries /\ latest # rendered)) ->
                       silence \o again
                 [] OTHER -> IF latest = rendered THEN <<>> ELSE <<Ev("system", rendered)>>
    BY <1>2, <1>3, <1>4, <1>5, <1>6, <1>7, <1>8 DEF PromptEvents
<1>10. ASSUME events = <<Ev("system", rendered)>>, rendered = "" => \A k \in 1..Len(s.nodes) : ~Speaks(s, k)
       PROVE  Prompted(s, t, from, rendered)
    <2>1. PICK e : e = Ev("system", rendered) OBVIOUS
    <2>2. t = Put(s, e)
        BY <1>8, <1>10, <2>1, PutOne
    <2>3. e.t = "system" /\ e.v = rendered /\ e.at = <<>> /\ Counted(e) /\ e.t \in SurfaceType
        BY <2>1 DEF Ev, Counted, SurfaceType
    <2>4. /\ Tells(s, t, from) /\ t.nodes # <<>> /\ Unheard(t) = Unheard(s)
          /\ OpenTurn(s.log) => OpenTurn(t.log)
        <3>1. e.t # "assistant" /\ e.t # "result"
            BY <2>3
        <3>2. /\ Tells(s, t, from) /\ t.nodes # <<>>
              /\ Unheard(t) = Unheard(s) + Adds(e)
              /\ OpenTurn(s.log) => OpenTurn(t.log)
            <4>1. /\ e.t = "system" \/ s.nodes # <<>>
                  /\ e.t = "result" => Unheard(s) > 0
                  /\ (e.t = "assistant" /\ e.v # 0) => OpenTurn(s.log)
                BY <2>3, <3>1
            <4>2. PICK u : u = Put(s, e) OBVIOUS
            <4>3. /\ Tells(s, u, from) /\ u.nodes # <<>>
                  /\ Unheard(u) = Unheard(s) + Adds(e)
                  /\ OpenTurn(s.log) => OpenTurn(u.log)
                BY <2>3, <4>1, <4>2, TellNode, ZenonT(60)
            <4> QED BY <2>2, <4>2, <4>3
        <3>3. Adds(e) = 0
            BY <3>1 DEF Adds
        <3>4. PICK h \in Int : h = Unheard(s)
            BY <1>1, NodesIn, UnansweredInt DEF Unheard
        <3> QED BY <3>2, <3>3, <3>4
    <2>6. Steady(s, t, from)
        BY <2>4 DEF Steady
    <2>7. Voice(t, rendered)
        <3>1. CASE rendered # ""
            BY <1>1, <2>2, <2>3, <3>1, VoiceOn
        <3>2. CASE rendered = ""
            <4>1. Voice(s, rendered)
                BY <1>10, <3>2 DEF Voice
            <4> QED BY <1>1, <2>2, <2>3, <3>2, <4>1, VoiceOn
        <3> QED BY <3>1, <3>2
    <2>8. Held(s, t)
        <3>1. t.context = Tracked(s, e, Len(s.log) + 1)
            BY <2>2, PutFields
        <3>2. Shadowed(s, e) = {}
            BY <2>3 DEF Shadowed
        <3> QED BY <2>3, <3>1, <3>2 DEF Tracked, Held
    <2> QED BY <2>4, <2>6, <2>7, <2>8 DEF Prompted
<1>11. CASE s.nodes = <<>>
    <2>1. system = <<>>
        BY <1>2, <1>11, SiftNone DEF SystemNodes
    <2>2. \A k \in 1..Len(s.nodes) : ~Speaks(s, k)
        BY <1>11
    <2> QED BY <1>9, <1>10, <2>1, <2>2
<1>12. CASE s.nodes # <<>>
    <2>1. PICK rest : rest = SubSeq(s.nodes, 2, Len(s.nodes)) OBVIOUS
    <2>2. PICK behind : behind = Sift(rest, OfType(s, "system")) OBVIOUS
    <2>3. /\ system # <<>> /\ head = s.nodes[1] /\ Tail(system) = behind
          /\ rest \in Seq(DOMAIN s.log) /\ behind \in Seq(DOMAIN s.log)
          /\ Apart(rest)
          /\ \A k \in 2..Len(s.nodes) : s.nodes[k] \in Range(rest)
          /\ \A x \in Range(rest) : x # s.nodes[1] /\ x \in Range(s.nodes)
        BY <1>1, <1>2, <1>3, <1>12, <2>1, <2>2, SystemIs
    <2>4. ASSUME events = silence \o again PROVE Prompted(s, t, from, rendered)
        <3>1. tail = Sift(behind, Audible(s)) /\ tail \in Seq(DOMAIN s.log)
            <4>1. tail = Sift(behind, Audible(s))
                BY <1>5, <2>3
            <4>2. Sift(behind, Audible(s)) \in Seq(DOMAIN s.log \cap Audible(s))
                BY <2>3, SiftType
            <4> QED BY <4>1, <4>2
        <3>2. PICK m \in Nat : m = Len(tail) /\ DOMAIN tail = 1..m
            BY <3>1
        <3>3. \A x \in Range(tail) : x \in Range(rest) /\ x \in OfType(s, "system")
            BY <2>2, <2>3, <3>1, SiftMember
        <3>4. Apart(tail)
            BY <2>2, <2>3, <3>1, SiftApart
        <3>5. \A k \in 2..Len(s.nodes) : Speaks(s, k) => s.nodes[k] \in Range(tail)
            <4> SUFFICES ASSUME NEW k \in 2..Len(s.nodes), Speaks(s, k)
                         PROVE  s.nodes[k] \in Range(tail) OBVIOUS
            <4>1. k \in 1..Len(s.nodes)
                BY <1>1, NodesIn
            <4>2. s.nodes[k] \in OfType(s, "system") \cap Audible(s)
                BY <1>1, <4>1, SpokenIs
            <4>3. s.nodes[k] \in Range(rest)
                BY <2>3
            <4>4. s.nodes[k] \in Range(behind)
                BY <2>2, <2>3, <4>2, <4>3, SiftMember
            <4> QED BY <2>3, <3>1, <4>2, <4>4, SiftMember
        <3>6. SeqLike(silence) /\ Len(silence) = m
              /\ \A i \in 1..m : /\ silence[i].t = "system" /\ silence[i].at = <<tail[i], tail[i]>>
                                  /\ silence[i].v = ""
            <4>1. silence = [i \in 1..m |-> silence[i]]
                BY <1>6, <3>2
            <4>2. \A i \in 1..m : silence[i] = Rewrite("system", "", tail[i], tail[i])
                BY <1>6, <3>2
            <4>3. \A i \in 1..m : /\ silence[i].t = "system" /\ silence[i].at = <<tail[i], tail[i]>>
                                   /\ silence[i].v = ""
                <5> SUFFICES ASSUME NEW i \in 1..m
                             PROVE  /\ silence[i].t = "system" /\ silence[i].at = <<tail[i], tail[i]>>
                                    /\ silence[i].v = "" OBVIOUS
                <5>1. silence[i] = Rewrite("system", "", tail[i], tail[i])
                    BY <4>2
                <5>2. PICK w : w = tail[i] OBVIOUS
                <5>3. PICK e : e = Rewrite("system", "", w, w) OBVIOUS
                <5>4. e.t = "system" /\ e.at = <<w, w>> /\ e.v = ""
                    BY <5>3 DEF Rewrite
                <5> QED BY <5>1, <5>2, <5>3, <5>4
            <4>4. \A i \in 1..m : silence[i].t \in {"system"} /\ Counted(silence[i])
                BY <4>3 DEF Counted
            <4>5. Of(silence, {"system"}) /\ Len(silence) = m
                BY <3>2, <4>1, <4>4, OfEach
            <4> QED BY <4>3, <4>5 DEF Of
        <3>7. \A i \in 1..m : /\ tail[i] \in Range(s.nodes) /\ s.log[tail[i]].t = "system"
                              /\ tail[i] # s.nodes[1] /\ tail[i] \in Range(tail)
            <4>1. \A i \in 1..m : tail[i] \in Range(tail)
                BY <3>2 DEF Range
            <4> QED BY <2>3, <3>3, <4>1 DEF OfType
        <3>8. \A k \in 2..Len(s.nodes) : Speaks(s, k) => \E i \in 1..m : tail[i] = s.nodes[k]
            BY <3>2, <3>5 DEF Range
        <3>9. s.nodes[1] \in Range(s.nodes) /\ s.log[s.nodes[1]].t = "system"
            <4>1. \A r \in Seq(DOMAIN s.log) : r # <<>> => 1 \in DOMAIN r OBVIOUS
            <4> QED BY <1>1, <1>12, <4>1, NodesIn DEF Range, Conversation
        <3>10. CASE s.log[head].v = rendered
            <4>1. events = silence
                <5>1. PICK y \in Seq(Range(silence)) : y = silence
                    BY <3>6 DEF SeqLike
                <5>2. y \o <<>> = y OBVIOUS
                <5> QED BY <1>7, <2>4, <3>10, <5>1, <5>2
            <4>2. SwapList(s, silence, tail, "system")
                BY <3>2, <3>4, <3>6, <3>7 DEF SwapList, Apart
            <4>3. Rebaselines(s, silence, tail, rendered)
                BY <1>12, <2>3, <3>6, <3>7, <3>8, <3>10, <4>2 DEF Rebaselines
            <4> QED BY <1>8, <4>1, <4>3, RebaselineTells
        <3>11. CASE s.log[head].v # rendered
            <4>1. PICK e : e = Rewrite("system", rendered, head, head) OBVIOUS
            <4>2. e.t = "system" /\ e.at = <<head, head>> /\ e.v = rendered
                BY <4>1 DEF Rewrite
            <4>3. PICK es : es = silence \o <<e>> OBVIOUS
            <4>4. events = es
                BY <1>7, <2>4, <3>11, <4>1, <4>3
            <4>5. es = Append(silence, e)
                BY <3>6, <4>3, AppendConcat
            <4>6. SeqLike(es) /\ Len(es) = m + 1 /\ es[m + 1] = e /\ \A i \in 1..m : es[i] = silence[i]
                <5>1. SeqLike(silence) /\ Len(silence) = m
                    BY <3>6
                <5>2. /\ SeqLike(Append(silence, e)) /\ Len(Append(silence, e)) = Len(silence) + 1
                      /\ \A i \in 1..Len(silence) : Append(silence, e)[i] = silence[i]
                      /\ Append(silence, e)[Len(silence) + 1] = e
                    BY <5>1, LikeAppend
                <5> QED BY <4>5, <5>1, <5>2
            <4>7. PICK q : q = Append(tail, head) OBVIOUS
            <4>8. Len(q) = m + 1 /\ q[m + 1] = head /\ \A i \in 1..m : q[i] = tail[i]
                BY <3>1, <3>2, <4>7, LikeSeq, LikeAppend
            <4>9. (\A i \in 1..(m + 1) : i \in 1..m \/ i = m + 1) /\ m + 1 \in 1..(m + 1)
                  /\ \A i \in 1..m : i \in 1..(m + 1) OBVIOUS
            <4>10. ASSUME NEW i \in 1..(m + 1)
                   PROVE  /\ es[i].t = "system" /\ es[i].at = <<q[i], q[i]>>
                          /\ q[i] \in Range(s.nodes) /\ s.log[q[i]].t = "system"
                          /\ \A j \in 1..(m + 1) : i # j => q[i] # q[j]
                          /\ q[i] # s.nodes[1] => es[i].v = ""
                <5>1. CASE i = m + 1
                    BY <2>3, <3>7, <3>9, <4>2, <4>6, <4>8, <4>9, <5>1
                <5>2. CASE i \in 1..m
                    <6>1. es[i] = silence[i] /\ q[i] = tail[i]
                        BY <4>6, <4>8, <5>2
                    <6>2. es[i].t = "system" /\ es[i].at = <<q[i], q[i]>> /\ es[i].v = ""
                        BY <3>6, <5>2, <6>1
                    <6>3. q[i] \in Range(s.nodes) /\ s.log[q[i]].t = "system" /\ q[i] # head
                        BY <2>3, <3>7, <5>2, <6>1
                    <6>4. \A j \in 1..m : i # j => q[i] # q[j]
                        BY <3>2, <3>4, <4>8, <5>2 DEF Apart
                    <6>5. \A j \in 1..(m + 1) : i # j => q[i] # q[j]
                        BY <4>8, <4>9, <6>3, <6>4
                    <6> QED BY <6>2, <6>3, <6>5
                <5> QED BY <4>9, <5>1, <5>2
            <4>11. SwapList(s, es, q, "system")
                BY <4>6, <4>8, <4>10 DEF SwapList
            <4>12. Rebaselines(s, es, q, rendered)
                <5>1. \A k \in 2..Len(s.nodes) : Speaks(s, k) => \E i \in 1..(m + 1) : q[i] = s.nodes[k]
                    BY <3>8, <4>8, <4>9
                <5>2. \E i \in 1..(m + 1) : q[i] = s.nodes[1] /\ es[i].v = rendered
                    BY <2>3, <4>2, <4>6, <4>8, <4>9
                <5> QED BY <1>12, <4>6, <4>10, <4>11, <5>1, <5>2 DEF Rebaselines
            <4> QED BY <1>8, <4>4, <4>12, RebaselineTells
        <3> QED BY <3>10, <3>11
    <2>5. CASE ~inHistory \/ rendered = "" \/ (startsSeries /\ latest # rendered)
        BY <1>9, <2>3, <2>4, <2>5
    <2>6. CASE ~(~inHistory \/ rendered = "" \/ (startsSeries /\ latest # rendered))
        <3>1. rendered # "" /\ events = IF latest = rendered THEN <<>> ELSE <<Ev("system", rendered)>>
            BY <1>9, <2>3, <2>6
        <3>2. CASE latest # rendered
            BY <1>10, <3>1, <3>2
        <3>3. CASE latest = rendered
            <4>1. t = s
                BY <1>8, <3>1, <3>3, PutAllNone
            <4>2. Voice(s, EffectivePrompt(s))
                BY <1>1, VoiceSome
            <4>3. Spoken(s) # <<>>
                <5> SUFFICES ASSUME Spoken(s) = <<>> PROVE FALSE OBVIOUS
                <5>1. \A k \in 1..Len(s.nodes) : ~Speaks(s, k)
                    BY <1>1, <4>2, VoiceIs
                <5>2. 1 \in 1..Len(s.nodes)
                    <6>1. \A r \in Seq(DOMAIN s.log) : r # <<>> => 1 \in 1..Len(r)
                        OBVIOUS
                    <6> QED BY <1>1, <1>12, <6>1, NodesIn
                <5>3. s.log[s.nodes[1]].t = "system" /\ s.log[s.nodes[1]].v = rendered
                    BY <1>1, <1>4, <1>12, <2>3, <3>3 DEF Conversation
                <5> QED BY <3>1, <5>1, <5>2, <5>3 DEF Speaks
            <4>4. EffectivePrompt(s) = rendered
                BY <1>4, <3>3, <4>3
            <4>5. Steady(s, s, from)
                BY SteadySelf
            <4> QED BY <1>12, <4>1, <4>2, <4>4, <4>5 DEF Prompted, Held
        <3> QED BY <3>2, <3>3
    <2> QED BY <2>5, <2>6
<1> QED BY <1>11, <1>12

-----------------------------------------------------------------------------
(* The events of a request. *)

(* A node of input or context tells the conversation on, in the same voice. *)
LEMMA SayTells ==
    ASSUME NEW s, NEW from, NEW v, Fine(s, from), Voice(s, v), s.nodes # <<>>,
           NEW e, e.t \in {"input", "context"}, e.at = <<>>,
           NEW t, t = Put(s, e)
    PROVE  /\ Steady(s, t, from) /\ Voice(t, v) /\ t.nodes # <<>> /\ t.log = Append(s.log, e)
           /\ e.t = "input" => Held(s, t)
           /\ e.t = "context" => t.context = Len(s.log) + 1
<1>1. Folded(s) /\ e.t \in SurfaceType /\ Counted(e) /\ e.t # "assistant" /\ e.t # "result" /\ e.t # "system"
    BY DEF Fine, SurfaceType, Counted
<1>2. /\ Tells(s, t, from) /\ t.nodes # <<>> /\ t.log = Append(s.log, e)
      /\ Unheard(t) = Unheard(s) + Adds(e)
      /\ OpenTurn(s.log) => OpenTurn(t.log)
    <2>1. /\ e.t = "system" \/ s.nodes # <<>>
          /\ e.t = "result" => Unheard(s) > 0
          /\ (e.t = "assistant" /\ e.v # 0) => OpenTurn(s.log)
        BY <1>1
    <2>2. PICK u : u = Put(s, e) OBVIOUS
    <2>3. /\ Tells(s, u, from) /\ u.nodes # <<>> /\ u.log = Append(s.log, e)
          /\ Unheard(u) = Unheard(s) + Adds(e)
          /\ OpenTurn(s.log) => OpenTurn(u.log)
        BY <1>1, <2>1, <2>2, TellNode, ZenonT(60)
    <2>4. u = t
        BY <2>2
    <2> QED BY <2>3, <2>4
<1>3. Adds(e) = 0
    BY <1>1 DEF Adds
<1>4. PICK h \in Int : h = Unheard(s)
    <2>1. Len(s.nodes) \in Nat
        BY <1>1, NodesIn
    <2>2. PICK n \in Nat : n = Len(s.nodes)
        BY <2>1
    <2>3. n \in 0..Len(s.nodes)
        BY <2>2
    <2>4. Unanswered(s, n) \in Int
        BY <1>1, <2>3, UnansweredInt
    <2> QED BY <2>2, <2>4 DEF Unheard
<1>5. Steady(s, t, from)
    BY <1>2, <1>3, <1>4 DEF Steady
<1>6. Voice(t, v)
    BY <1>1, VoiceOn
<1>7. t.context = Tracked(s, e, Len(s.log) + 1)
    BY PutFields
<1>8. Shadowed(s, e) = {}
    BY DEF Shadowed
<1>9. e.t = "input" => Held(s, t)
    BY <1>7, <1>8 DEF Tracked, Held
<1>10. e.t = "context" => t.context = Len(s.log) + 1
    BY <1>7 DEF Tracked
<1> QED BY <1>2, <1>5, <1>6, <1>9, <1>10

(* An event, unless it is not needed. *)
Unless(skip, e) == IF skip THEN <<>> ELSE <<e>>

(* An event that is appended unless something is there already. *)
LEMMA PutUnless ==
    ASSUME NEW s, NEW skip, NEW e
    PROVE  /\ SeqLike(Unless(skip, e))
           /\ skip => PutAll(s, Unless(skip, e)) = s
           /\ ~skip => PutAll(s, Unless(skip, e)) = Put(s, e)
<1>1. SeqLike(Unless(skip, e))
    <2>1. SeqLike(<<>>)
        BY OfNone DEF Of
    <2>2. SeqLike(<<e>>)
        <3>1. PICK l : l = <<>> OBVIOUS
        <3>2. SeqLike(l)
            BY <2>1, <3>1
        <3> QED BY <3>2, AppendConcat
    <2> QED BY <2>1, <2>2 DEF Unless
<1>2. PICK es : es = Unless(skip, e) OBVIOUS
<1>3. CASE skip
    <2>1. es = <<>>
        BY <1>2, <1>3 DEF Unless
    <2> QED BY <1>1, <1>2, <1>3, <2>1, PutAllNone
<1>4. CASE ~skip
    <2>1. es = <<e>>
        BY <1>2, <1>4 DEF Unless
    <2> QED BY <1>1, <1>2, <1>4, <2>1, PutOne
<1> QED BY <1>3, <1>4

(* What a request appends. *)
RequestEvents(s, rendered, inHistory, startsSeries, told, text, known) ==
    PromptEvents(s, rendered, inHistory, startsSeries)
    \o Unless(told, Ev("input", ""))
    \o ContextEvents(s, text)
    \o Unless(known, Ev("header", ""))

(* One list after another. *)
LEMMA PutAllFour ==
    ASSUME NEW s, NEW a, NEW b, NEW c, NEW d, SeqLike(a), SeqLike(b), SeqLike(c), SeqLike(d)
    PROVE  PutAll(s, a \o b \o c \o d) = PutAll(PutAll(PutAll(PutAll(s, a), b), c), d)
<1>1. PICK x : x = a \o b OBVIOUS
<1>2. PICK y : y = x \o c OBVIOUS
<1>3. SeqLike(x) /\ SeqLike(y)
    BY <1>1, <1>2, LikeConcat
<1>4. PutAll(s, y \o d) = PutAll(PutAll(s, y), d)
    BY <1>3, PutAllJoin
<1>5. PutAll(s, y) = PutAll(PutAll(s, x), c)
    BY <1>2, <1>3, PutAllJoin
<1>6. PutAll(s, x) = PutAll(PutAll(s, a), b)
    BY <1>1, PutAllJoin
<1> QED BY <1>1, <1>2, <1>4, <1>5, <1>6

(* The context message a request adds. *)
Wording(text) == IF text = "" THEN "cleared" ELSE text
Repeats(s, text) ==
    \/ s.context = NoContext /\ text = ""
    \/ s.context > 0 /\ s.log[s.context].v = Wording(text)

(* A context is logged unless it repeats the last one. *)
LEMMA ContextIs ==
    ASSUME NEW s, NEW text
    PROVE  ContextEvents(s, text) = Unless(Repeats(s, text), Ev("context", Wording(text)))
<1>1. PICK told : told = Wording(text) OBVIOUS
<1>2. ContextEvents(s, text) =
          IF (s.context = NoContext /\ text = "") \/ (s.context > 0 /\ s.log[s.context].v = told)
          THEN <<>> ELSE <<Ev("context", told)>>
    BY <1>1 DEF ContextEvents, Wording
<1>3. Repeats(s, text) <=>
          (s.context = NoContext /\ text = "") \/ (s.context > 0 /\ s.log[s.context].v = told)
    BY <1>1 DEF Repeats
<1>4. PICK e : e = Ev("context", told) OBVIOUS
<1>5. PICK es : es = ContextEvents(s, text) OBVIOUS
<1>6. CASE Repeats(s, text)
    <2>1. es = <<>>
        BY <1>2, <1>3, <1>5, <1>6
    <2> QED BY <1>5, <1>6, <2>1 DEF Unless
<1>7. CASE ~Repeats(s, text)
    <2>1. es = <<e>>
        BY <1>2, <1>3, <1>4, <1>5, <1>7
    <2> QED BY <1>1, <1>4, <1>5, <1>7, <2>1 DEF Unless
<1> QED BY <1>6, <1>7

(* What a request makes of the conversation. *)
Requested(s, t, from, rendered, text) ==
    /\ Steady(s, t, from) /\ t.nodes # <<>>
    /\ EffectivePrompt(t) = rendered /\ ContextHeard(t, text)

(* A request tells the conversation on, with its prompt and its context. *)
LEMMA RequestTells ==
    ASSUME NEW s, NEW from, Fine(s, from), ContextKnown(s), NEW rendered, NEW inHistory,
           NEW startsSeries, NEW told, NEW text, NEW known,
           NEW t, t = PutAll(s, RequestEvents(s, rendered, inHistory, startsSeries, told, text, known))
    PROVE  Requested(s, t, from, rendered, text)
<1>1. PICK a : a = PromptEvents(s, rendered, inHistory, startsSeries) OBVIOUS
<1>2. PICK input : input = Ev("input", "") OBVIOUS
<1>3. PICK b : b = Unless(told, input) OBVIOUS
<1>30. PICK said : said = Wording(text) OBVIOUS
<1>31. PICK skip : skip = Repeats(s, text) OBVIOUS
<1>32. ContextEvents(s, text) = Unless(skip, Ev("context", said))
    BY <1>30, <1>31, ContextIs
<1>33. skip <=> (s.context = NoContext /\ text = "") \/ (s.context > 0 /\ s.log[s.context].v = said)
    BY <1>30, <1>31 DEF Repeats
<1>34. \A u : Recalls(u, text) <=> (u.context = NoContext /\ text = "") \/ (u.context > 0 /\ u.log[u.context].v = said)
    BY <1>30 DEF Recalls, Wording
<1>5. PICK spoken : spoken = Ev("context", said) OBVIOUS
<1>6. PICK c : c = Unless(skip, spoken) OBVIOUS
<1>7. PICK header : header = Ev("header", "") OBVIOUS
<1>8. PICK d : d = Unless(known, header) OBVIOUS
<1>9. PICK s1 : s1 = PutAll(s, a) OBVIOUS
<1>10. PICK s2 : s2 = PutAll(s1, b) OBVIOUS
<1>11. PICK s3 : s3 = PutAll(s2, c) OBVIOUS
<1>12. Folded(s)
    BY DEF Fine
<1>13. t = PutAll(s3, d)
    <2>1. RequestEvents(s, rendered, inHistory, startsSeries, told, text, known) = a \o b \o c \o d
        BY <1>1, <1>2, <1>3, <1>5, <1>6, <1>7, <1>8, <1>32 DEF RequestEvents
    <2>2. SeqLike(a)
        BY <1>1, <1>12, PromptQuiet DEF Of
    <2>3. SeqLike(b) /\ SeqLike(c) /\ SeqLike(d)
        BY <1>3, <1>6, <1>8, PutUnless
    <2> QED BY <1>9, <1>10, <1>11, <2>1, <2>2, <2>3, PutAllFour
<1>14. Steady(s, s1, from) /\ Voice(s1, rendered) /\ s1.nodes # <<>> /\ Held(s, s1)
    BY <1>1, <1>9, PromptTells DEF Prompted
<1>15. Fine(s1, from) /\ ContextKnown(s1) /\ s1.context = s.context
    BY <1>14 DEF Steady, Tells, Held
<1>16. Steady(s, s2, from) /\ Voice(s2, rendered) /\ s2.nodes # <<>> /\ s2.context = s.context
    <2>1. CASE told
        BY <1>3, <1>10, <1>14, <1>15, <2>1, PutUnless
    <2>2. CASE ~told
        <3>1. s2 = Put(s1, input)
            BY <1>3, <1>10, <2>2, PutUnless
        <3>2. input.t = "input" /\ input.at = <<>>
            BY <1>2 DEF Ev
        <3>3. Steady(s1, s2, from) /\ Voice(s2, rendered) /\ s2.nodes # <<>> /\ Held(s1, s2)
            BY <1>14, <1>15, <3>1, <3>2, SayTells
        <3>4. Steady(s, s2, from)
            BY <1>12, <1>14, <3>3, SteadyOn
        <3> QED BY <1>15, <3>3, <3>4 DEF Held
    <2> QED BY <2>1, <2>2
<1>17. Fine(s2, from) /\ ContextKnown(s2) /\ Grown(s, s2)
    BY <1>16 DEF Steady, Tells
<1>18. Steady(s, s3, from) /\ Voice(s3, rendered) /\ s3.nodes # <<>> /\ Recalls(s3, text)
    <2>1. CASE skip
        <3>1. s3 = s2
            BY <1>6, <1>11, <2>1, PutUnless
        <3>2. Recalls(s2, text)
            <4>1. CASE s.context = NoContext /\ text = ""
                BY <1>16, <1>34, <4>1
            <4>2. CASE s.context > 0 /\ s.log[s.context].v = said
                <5>1. s.context \in Range(s.nodes)
                    BY <4>2 DEF ContextKnown
                <5>2. s.context \in DOMAIN s.log
                    BY <1>12, <5>1, NodesIn DEF Range
                <5>3. s2.log[s.context] = s.log[s.context]
                    BY <1>12, <1>17, <5>2, GrownLog DEF Fine
                <5> QED BY <1>16, <1>34, <4>2, <5>3
            <4> QED BY <1>33, <2>1, <4>1, <4>2
        <3> QED BY <1>16, <3>1, <3>2
    <2>2. CASE ~skip
        <3>1. s3 = Put(s2, spoken)
            BY <1>6, <1>11, <2>2, PutUnless
        <3>2. spoken.t = "context" /\ spoken.at = <<>> /\ spoken.v = said
            BY <1>5 DEF Ev
        <3>3. /\ Steady(s2, s3, from) /\ Voice(s3, rendered) /\ s3.nodes # <<>>
              /\ s3.log = Append(s2.log, spoken) /\ s3.context = Len(s2.log) + 1
            BY <1>16, <1>17, <3>1, <3>2, SayTells
        <3>4. Steady(s, s3, from)
            BY <1>12, <1>16, <3>3, SteadyOn
        <3>5. SeqLike(s2.log) /\ Len(s2.log) \in Nat
            BY <1>17, NodesIn DEF Fine
        <3>6. s3.log[Len(s2.log) + 1] = spoken
            BY <3>3, <3>5, LikeAppend
        <3>7. s3.context > 0 /\ s3.log[s3.context].v = said
            BY <3>2, <3>3, <3>5, <3>6
        <3> QED BY <1>34, <3>3, <3>4, <3>7
    <2> QED BY <2>1, <2>2
<1>19. Fine(s3, from) /\ Folded(s3) /\ ContextKnown(s3)
    BY <1>18 DEF Steady, Tells, Fine
<1>20. Steady(s, t, from) /\ Voice(t, rendered) /\ t.nodes # <<>> /\ Recalls(t, text)
    <2>1. CASE known
        BY <1>8, <1>13, <1>18, <2>1, PutUnless
    <2>2. CASE ~known
        <3>1. t = Put(s3, header)
            BY <1>8, <1>13, <2>2, PutUnless
        <3>2. header.t = "header" /\ header.at = <<>> /\ header.t \notin SurfaceType /\ Counted(header)
            BY <1>7 DEF Ev, SurfaceType, Counted
        <3>3. PICK u : u = Put(s3, header) OBVIOUS
        <3>4. /\ Tells(s3, u, from) /\ u.nodes = s3.nodes /\ Unheard(u) = Unheard(s3)
              /\ OpenTurn(s3.log) => OpenTurn(u.log)
            <4>1. /\ header.t = "offload" => header.v \in OfType(s3, "input")
                  /\ header.t = "turn/end" => Unheard(s3) = 0
                  /\ header.t # "turn/end"
                BY <3>2
            <4> QED BY <1>19, <3>2, <3>3, <4>1, TellLog, ZenonT(60)
        <3>5. Steady(s3, u, from)
            BY <3>4 DEF Steady
        <3>6. Steady(s, u, from)
            BY <1>12, <1>18, <3>5, SteadyOn
        <3>7. Voice(u, rendered)
            BY <1>18, <1>19, <3>2, <3>3, VoiceLog
        <3>8. Recalls(u, text)
            <4>1. u.context = s3.context
                <5>1. u.context = Tracked(s3, header, Len(s3.log) + 1)
                    BY <3>3, PutFields
                <5>2. Shadowed(s3, header) = {}
                    BY <3>2 DEF Shadowed
                <5> QED BY <3>2, <5>1, <5>2 DEF Tracked
            <4>2. CASE s3.context = NoContext /\ text = ""
                BY <1>34, <4>1, <4>2
            <4>3. CASE s3.context > 0 /\ s3.log[s3.context].v = said
                <5>1. s3.context \in Range(s3.nodes)
                    BY <1>19, <4>3 DEF ContextKnown
                <5>2. s3.context \in DOMAIN s3.log
                    BY <1>19, <5>1, NodesIn DEF Range
                <5>3. u.log[s3.context] = s3.log[s3.context]
                    BY <1>19, <3>4, <5>2, GrownLog DEF Fine, Tells
                <5> QED BY <1>34, <4>1, <4>3, <5>3
            <4> QED BY <1>18, <1>34, <4>2, <4>3
        <3> QED BY <1>18, <3>1, <3>3, <3>4, <3>6, <3>7, <3>8
    <2> QED BY <2>1, <2>2
<1>21. Folded(t) /\ Conversation(t) /\ ContextKnown(t)
    BY <1>20 DEF Steady, Tells, Fine
<1>22. EffectivePrompt(t) = rendered
    BY <1>20, <1>21, VoiceIs
<1>23. ContextHeard(t, text)
    BY <1>20, <1>21, ContextLast
<1> QED BY <1>20, <1>22, <1>23 DEF Requested

-----------------------------------------------------------------------------
(* Prunes and restarts. *)

(* A prune swaps results and keeps the conversation. *)
LEMMA PrunedTells ==
    ASSUME NEW s, NEW from, Fine(s, from), NEW t, t = Pruned(s)
    PROVE  Steady(s, t, from)
<1>1. Folded(s) /\ Conversation(s) /\ s.nodes \in Seq(DOMAIN s.log)
    BY NodesIn DEF Fine
<1>2. PICK c : c = {n \in OfType(s, "result") : s.log[n].v = "full"} OBVIOUS
<1>3. PICK q : q = Full(s) OBVIOUS
<1>4. q = Sift(s.nodes, c)
    BY <1>2, <1>3 DEF Full
<1>5. q \in Seq(DOMAIN s.log \cap c)
    BY <1>1, <1>4, SiftType
<1>6. PICK m \in Nat : m = Len(q) /\ DOMAIN q = 1..m
    BY <1>5
<1>7. PICK es : es = [i \in DOMAIN q |-> Rewrite("result", "cut", q[i], q[i])] OBVIOUS
<1>8. es = [i \in 1..m |-> es[i]] /\ \A i \in 1..m : es[i] = Rewrite("result", "cut", q[i], q[i])
    BY <1>6, <1>7
<1>9. \A i \in 1..m : es[i].t = "result" /\ es[i].at = <<q[i], q[i]>>
    <2> SUFFICES ASSUME NEW i \in 1..m PROVE es[i].t = "result" /\ es[i].at = <<q[i], q[i]>>
        OBVIOUS
    <2>1. es[i] = Rewrite("result", "cut", q[i], q[i])
        BY <1>8
    <2> QED BY <2>1 DEF Rewrite
<1>10. Of(es, {"result"}) /\ Len(es) = m
    <2>1. \A i \in 1..m : es[i].t \in {"result"} /\ Counted(es[i])
        BY <1>9 DEF Counted
    <2> QED BY <1>6, <1>8, <2>1, OfEach
<1>11. Apart(s.nodes)
    <2>1. PICK n \in Nat : DOMAIN s.nodes = 1..n
        BY <1>1, NodesIn
    <2>2. \A i, j \in 1..n : i # j => i < j \/ j < i OBVIOUS
    <2> QED BY <1>1, <2>1, <2>2 DEF Conversation, Apart
<1>12. Apart(q)
    BY <1>1, <1>4, <1>11, SiftApart
<1>13. \A i \in 1..m : q[i] \in Range(s.nodes) /\ s.log[q[i]].t = "result"
    <2>1. \A i \in 1..m : q[i] \in Range(q)
        BY <1>6 DEF Range
    <2>2. \A x \in Range(q) : x \in Range(s.nodes) /\ x \in c
        BY <1>1, <1>4, SiftMember
    <2>3. \A x \in c : s.log[x].t = "result"
        BY <1>2 DEF OfType
    <2> QED BY <2>1, <2>2, <2>3
<1>14. SwapList(s, es, q, "result")
    <2>1. SeqLike(es)
        BY <1>10 DEF Of
    <2>2. \A i, j \in 1..m : i # j => q[i] # q[j]
        BY <1>6, <1>12 DEF Apart
    <2> QED BY <1>6, <1>9, <1>10, <1>13, <2>1, <2>2 DEF SwapList
<1>15. t = PutAll(s, es)
    BY <1>3, <1>7 DEF Pruned
<1> QED BY <1>14, <1>15, TellSwaps

(* The log of a conversation in which nobody waits, marked and restored. *)
Rested(t) == Fine(t, Len(t.log)) /\ ContextKnown(t) /\ Unheard(t) = 0

(* A log that was never restored is as fine as its surface. *)
LEMMA FreshFine ==
    ASSUME NEW l, SeqLike(l), Legal(l), NEW p, p = PutAll(NewSession, l), Conversation(p)
    PROVE  Fine(p, Len(l)) /\ p.log = l /\ Len(l) \in Nat
<1>1. Folded(p) /\ p.log = l
    BY RefoldIs
<1>2. Len(l) \in Nat
    BY LikeAppend
<1>3. Told(l, Len(l))
    BY ToldNow
<1>4. Refolds(p)
    BY <1>1 DEF Refolds
<1> QED BY <1>1, <1>2, <1>3, <1>4 DEF Fine

(* A restored log has the surface it had when it was written. *)
LEMMA RestsAgain ==
    ASSUME NEW m, SeqLike(m), Legal(m), NEW p, p = PutAll(NewSession, m), Conversation(p), Unheard(p) = 0,
           NEW t, t = Restore(m)
    PROVE  Rested(t)
<1>1. /\ Fine(t, Len(m)) /\ ContextKnown(t) /\ t.log = m /\ Unheard(t) = Unheard(p)
    BY RestoreTells
<1> QED BY <1>1 DEF Rested

(* The mark of a restart changes no surface. *)
LEMMA MarkRests ==
    ASSUME NEW l, SeqLike(l), Legal(l), NEW p, p = PutAll(NewSession, l), Conversation(p), Unheard(p) = 0,
           NEW t, t = Restore(l \o <<Ev("end-seed", "")>>)
    PROVE  Rested(t)
<1>1. PICK e : e = Ev("end-seed", "") OBVIOUS
<1>2. PICK m : m = l \o <<e>> OBVIOUS
<1>3. SeqLike(m) /\ Legal(m)
    BY <1>1, <1>2, MarkLegal
<1>4. Fine(p, Len(l))
    BY FreshFine
<1>5. PICK w : w = Put(p, e) OBVIOUS
<1>6. /\ e.t \notin SurfaceType /\ Counted(e) /\ e.t # "turn/end"
      /\ e.t = "offload" => e.v \in OfType(p, "input")
      /\ e.t = "turn/end" => Unheard(p) = 0
    BY <1>1 DEF Ev, SurfaceType, Counted
<1>7. Tells(p, w, Len(l)) /\ Unheard(w) = Unheard(p)
    <2>1. PICK k : k = Len(l) OBVIOUS
    <2>2. PICK q : q = p OBVIOUS
    <2>3. Fine(q, k) /\ w = Put(q, e)
        BY <1>4, <1>5, <2>1, <2>2
    <2>4. /\ e.t = "offload" => e.v \in OfType(q, "input")
          /\ e.t = "turn/end" => Unheard(q) = 0
        BY <1>6, <2>2
    <2>5. Tells(q, w, k) /\ w.nodes = q.nodes /\ Unheard(w) = Unheard(q)
        BY <1>6, <2>3, <2>4, TellLog, ZenonT(60)
    <2> QED BY <2>1, <2>2, <2>5
<1>8. w = PutAll(NewSession, m)
    <2>1. m = Append(l, e)
        BY <1>2, AppendConcat
    <2>2. PutAll(NewSession, Append(l, e)) = Put(PutAll(NewSession, l), e)
        BY PutAllNext
    <2> QED BY <1>5, <2>1, <2>2
<1>9. Conversation(w)
    BY <1>7 DEF Tells, Fine
<1>10. t = Restore(m)
    BY <1>1, <1>2
<1> QED BY <1>3, <1>7, <1>8, <1>9, <1>10, RestsAgain

(* A repaired prefix of the log is a conversation in which nobody waits. *)
LEMMA RepairRests ==
    ASSUME NEW l, SeqLike(l), Legal(l), NEW p, p = PutAll(NewSession, l), Conversation(p),
           NEW r, r = PutAll(NewSession, l \o Repair(l))
    PROVE  Conversation(r) /\ Unheard(r) = 0
<1>1. Fine(p, Len(l)) /\ p.log = l /\ Folded(p)
    BY FreshFine DEF Fine
<1>2. PICK n \in Int : n = Unheard(p)
    BY <1>1, NodesIn, UnansweredInt DEF Unheard
<1>3. SeqLike(Repair(l))
    BY RepairOf DEF Of
<1>4. r = PutAll(p, Repair(l))
    BY <1>3, PutAllJoin
<1>5. n >= 0 /\ (p.nodes = <<>> => n = 0)
    <2>1. CASE p.nodes = <<>>
        <3>1. Len(p.nodes) = 0
            BY <2>1
        <3> QED BY <1>2, <3>1, UnansweredNone DEF Unheard
    <2>2. CASE p.nodes # <<>>
        <3>1. \A q \in Seq(DOMAIN p.log) : q # <<>> => Len(q) \in DOMAIN q OBVIOUS
        <3>2. Len(p.nodes) \in DOMAIN p.nodes
            BY <1>1, <2>2, <3>1, NodesIn
        <3> QED BY <1>2, <2>2, <3>2 DEF Unheard, Conversation
    <2> QED BY <2>1, <2>2
<1>6. CASE ~OpenTurn(l)
    <2>1. Repair(l) = <<>>
        BY <1>6 DEF Repair
    <2>2. r = p
        BY <1>4, <2>1, PutAllNone
    <2>3. Unheard(p) = 0
        BY <1>1, <1>6 DEF Conversation, Unheard
    <2> QED BY <2>2, <2>3
<1>7. CASE OpenTurn(l)
    <2>1. PICK a : a = [i \in 1..n |-> Ev("result", "cut")] OBVIOUS
    <2>2. PICK e : e = Ev("turn/end", "") OBVIOUS
    <2>3. Repair(l) = a \o <<e>>
        BY <1>2, <1>7, <2>1, <2>2 DEF Repair, Unheard
    <2>4. SeqLike(a)
        <3>1. PICK x : x = Ev("result", "cut") OBVIOUS
        <3>2. x.t \in {"result"} /\ Counted(x)
            BY <3>1 DEF Ev, Counted
        <3>3. Of([i \in 1..n |-> x], {"result"})
            BY <3>2, OfSome
        <3> QED BY <2>1, <3>1, <3>3 DEF Of
    <2>5. PICK u : u = PutAll(p, a) OBVIOUS
    <2>6. r = Put(u, e)
        <3>1. a \o <<e>> = Append(a, e)
            BY <2>4, AppendConcat
        <3>2. PutAll(p, Append(a, e)) = Put(PutAll(p, a), e)
            BY <2>4, PutAllNext
        <3> QED BY <1>4, <2>3, <2>5, <3>1, <3>2
    <2>7. Fine(u, Len(l)) /\ Unheard(u) = 0
        <3>1. CASE p.nodes = <<>>
            <4>1. n = 0
                BY <1>5, <3>1
            <4>2. a = <<>>
                BY <2>1, <4>1
            <4>3. u = p
                BY <2>5, <4>2, PutAllNone
            <4> QED BY <1>1, <1>2, <4>1, <4>3
        <3>2. CASE p.nodes # <<>>
            <4>1. n \in Nat /\ n <= Unheard(p)
                BY <1>2, <1>5
            <4>2. Tells(p, u, Len(l)) /\ Unheard(u) = Unheard(p) - n
                BY <1>1, <2>1, <2>5, <3>2, <4>1, TellResults
            <4> QED BY <1>2, <4>2 DEF Tells
        <3> QED BY <3>1, <3>2
    <2>8. /\ e.t \notin SurfaceType /\ Counted(e)
          /\ e.t = "offload" => e.v \in OfType(u, "input")
        BY <2>2 DEF Ev, SurfaceType, Counted
    <2>9. Tells(u, r, Len(l)) /\ Unheard(r) = Unheard(u)
        BY <2>6, <2>7, <2>8, TellLog, SMTT(60)
    <2> QED BY <2>7, <2>9 DEF Tells, Fine
<1> QED BY <1>6, <1>7

(* A first part of a legal log is one. *)
LEMMA FirstLegal ==
    ASSUME NEW l, SeqLike(l), Legal(l), NEW n \in 0..Len(l), NEW kept, kept = SubSeq(l, 1, n)
    PROVE  SeqLike(kept) /\ Legal(kept)
<1>1. DOMAIN l = 1..Len(l) /\ Len(l) \in Nat
    BY LikeSeq DEF SeqLike
<1>2. SeqLike(kept) /\ DOMAIN kept = 1..n /\ \A i \in 1..n : kept[i] = l[i]
    <2>1. PICK q \in Seq(Range(l)) : q = l
        BY DEF SeqLike
    <2>2. /\ SubSeq(q, 1, n) \in Seq(Range(l)) /\ Len(SubSeq(q, 1, n)) = n
          /\ \A i \in 1..n : SubSeq(q, 1, n)[i] = q[i]
        BY <1>1, <2>1
    <2>3. kept \in Seq(Range(l)) /\ Len(kept) = n
        BY <2>1, <2>2
    <2>4. SeqLike(kept) /\ DOMAIN kept = 1..Len(kept)
        BY <2>3, LikeSeq
    <2> QED BY <2>1, <2>2, <2>3, <2>4
<1>3. Legal(kept)
    <2> SUFFICES ASSUME NEW i \in 1..n
                 PROVE  /\ Counted(kept[i])
                        /\ kept[i].t = "offload" =>
                              kept[i].v \in 1..(i - 1) /\ kept[kept[i].v].t = "input"
        BY <1>2 DEF Legal
    <2>1. i \in DOMAIN l /\ kept[i] = l[i]
        BY <1>1, <1>2
    <2>2. Counted(l[i])
        BY <2>1 DEF Legal
    <2>3. CASE l[i].t = "offload"
        <3>1. l[i].v \in 1..(i - 1) /\ l[l[i].v].t = "input"
            BY <2>1, <2>3 DEF Legal
        <3>2. l[i].v \in 1..n
            BY <3>1
        <3> QED BY <1>2, <2>1, <2>2, <3>1, <3>2
    <2> QED BY <2>1, <2>2, <2>3
<1> QED BY <1>2, <1>3

(* Whatever durable prefix a crash leaves, its restart begins well. *)
Restarted(kept, t) == t = Restore(kept \o Repair(kept) \o <<Ev("end-seed", "")>>)

(* A durable prefix of a log, repaired and restored, is a session at rest. *)
LEMMA CrashRests ==
    ASSUME NEW s, NEW from, Fine(s, from), NEW n, n \in from..Len(s.log),
           NEW kept, kept = SubSeq(s.log, 1, n), NEW t, Restarted(kept, t)
    PROVE  Rested(t)
<1>1. Folded(s) /\ from \in 0..Len(s.log) /\ Told(s.log, from)
    BY DEF Fine
<1>2. Len(s.log) \in Nat /\ SeqLike(s.log) /\ Legal(s.log)
    BY <1>1, NodesIn DEF Folded
<1>3. SeqLike(kept) /\ Legal(kept)
    <2>1. PICK m \in Nat : m = Len(s.log)
        BY <1>2
    <2>2. n \in 0..m
        <3>1. from \in 0..m /\ n \in from..m
            BY <1>1, <2>1
        <3> QED BY <3>1
    <2> QED BY <1>2, <2>1, <2>2, FirstLegal
<1>4. PICK p : p = PutAll(NewSession, kept) OBVIOUS
<1>5. Conversation(p)
    BY <1>1, <1>4 DEF Told
<1>6. PICK l : l = kept \o Repair(kept) OBVIOUS
<1>7. PICK r : r = PutAll(NewSession, l) OBVIOUS
<1>8. Conversation(r) /\ Unheard(r) = 0
    BY <1>3, <1>4, <1>5, <1>6, <1>7, RepairRests
<1>9. Of(Repair(kept), {"result", "turn/end"})
    BY <1>3, RepairOf
<1>10. SeqLike(l) /\ Legal(l)
    <2>1. SeqLike(Repair(kept))
        BY <1>9 DEF Of
    <2>2. SeqLike(l)
        BY <1>3, <1>6, <2>1, LikeConcat
    <2>3. "offload" \notin {"result", "turn/end"} OBVIOUS
    <2>4. Legal(l)
        BY <1>3, <1>6, <1>9, <2>3, LegalPlain
    <2> QED BY <2>2, <2>4
<1>11. t = Restore(l \o <<Ev("end-seed", "")>>)
    BY <1>6 DEF Restarted
<1> QED BY <1>7, <1>8, <1>10, <1>11, MarkRests

(* So does a history. *)
LEMMA HistoryRests ==
    ASSUME NEW h \in Histories,
           NEW t, t = Restore(IF h = <<>> THEN h ELSE Append(h, Ev("end-seed", "")))
    PROVE  Rested(t)
<1>1. SeqLike(h) /\ Legal(h)
    BY HistoriesAssumption DEF SeqLike
<1>2. PICK p : p = PutAll(NewSession, h) OBVIOUS
<1>3. Conversation(p) /\ Unheard(p) = 0
    BY <1>2, HistoriesAssumption DEF Unheard
<1>4. CASE h = <<>>
    <2>1. t = Restore(h)
        BY <1>4
    <2> QED BY <1>1, <1>2, <1>3, <2>1, RestsAgain
<1>5. CASE h # <<>>
    <2>1. Append(h, Ev("end-seed", "")) = h \o <<Ev("end-seed", "")>>
        <3>1. PICK e : e = Ev("end-seed", "") OBVIOUS
        <3> QED BY <1>1, <3>1, AppendConcat
    <2>2. t = Restore(h \o <<Ev("end-seed", "")>>)
        BY <1>5, <2>1
    <2> QED BY <1>1, <1>2, <1>3, <2>2, MarkRests
<1> QED BY <1>4, <1>5

-----------------------------------------------------------------------------
(* The steps of the program and its conversation. *)

(* The spans that are summarized begin and end where they may. *)
Cuts(s, j) == \A w \in Who : Awaits(j[w]) => Cut(s, j[w])
Feeds(s, j) == \A w \in Who : Awaits(j[w]) => Fed(s, j[w])

(* What a phase says of the conversation. *)
Mood(s, ph) ==
    /\ ph = "tools" <=> Unheard(s) > 0
    /\ ph \notin {"idle", "maintenance"} => OpenTurn(s.log)
    /\ ph = "requesting" => s.nodes # <<>>

Chat(s, from, j, ph) ==
    /\ Fine(s, from) /\ ContextKnown(s)
    /\ Cuts(s, j) /\ Mood(s, ph)

(* The inductive invariant behind SurfaceSound. *)
Talk == Chat(session, floor, jobs, phase)

(* A conversation that is told on carries the invariant. *)
LEMMA ChatOn ==
    ASSUME NEW s, NEW t, NEW from, NEW j, NEW k, NEW ph, NEW ph2, Chat(s, from, j, ph), Feeds(s, j),
           Tells(s, t, from), Mood(t, ph2),
           \A w \in Who : Awaits(k[w]) => k[w] = j[w] \/ Cut(t, k[w])
    PROVE  Chat(t, from, k, ph2)
<1>1. Folded(s) /\ Folded(t) /\ Grown(s, t) /\ ContextKnown(t) /\ Fine(t, from)
    BY DEF Chat, Tells, Fine
<1>2. ASSUME NEW w \in Who, Awaits(k[w]) PROVE Cut(t, k[w])
    <2>1. CASE k[w] = j[w]
        <3>1. PICK job : job = j[w] OBVIOUS
        <3>2. Fed(s, job) /\ Cut(s, job)
            BY <1>2, <2>1, <3>1 DEF Chat, Cuts, Feeds
        <3>3. Cut(t, job)
            BY <1>1, <3>2, CutOn
        <3> QED BY <2>1, <3>1, <3>3
    <2> QED BY <1>2, <2>1
<1>3. Cuts(t, k)
    BY <1>2 DEF Cuts
<1> QED BY <1>1, <1>3 DEF Chat

(* A step of the program that does so. *)
LEMMA Talks ==
    ASSUME Inv, Talk, NEW t, Tells(session, t, floor), Mood(t, phase'), session' = t, floor' = floor,
           \A w \in Who : Awaits(jobs'[w]) => jobs'[w] = jobs[w] \/ Cut(t, jobs'[w])
    PROVE  Talk'
<1>1. PICK k : k = jobs' OBVIOUS
<1>2. PICK ph2 : ph2 = phase' OBVIOUS
<1>3. Feeds(session, jobs)
    BY DEF Inv, Lock, Feeds
<1>4. Chat(t, floor, k, ph2)
    BY <1>1, <1>2, <1>3, ChatOn DEF Talk
<1> QED BY <1>1, <1>2, <1>4 DEF Talk

(* A mood lasts while the conversation is steady. *)
LEMMA MoodSame ==
    ASSUME NEW s, NEW t, NEW from, NEW ph, Mood(s, ph), Steady(s, t, from)
    PROVE  Mood(t, ph)
BY DEF Mood, Steady, Tells

(* Most steps go from one phase of the turn to another. *)
LEMMA MoodOn ==
    ASSUME NEW s, NEW t, NEW from, NEW ph, NEW ph2, Mood(s, ph), Steady(s, t, from),
           ph # "tools", ph2 # "tools", ph \notin {"idle", "maintenance"} \/ ph2 \in {"idle", "maintenance"},
           ph2 = "requesting" => t.nodes # <<>>
    PROVE  Mood(t, ph2)
BY DEF Mood, Steady

(* What the invariant says of the session. *)
LEMMA TalkNow ==
    ASSUME Talk
    PROVE  /\ Fine(session, floor) /\ Folded(session) /\ ContextKnown(session) /\ Mood(session, phase)
           /\ Steady(session, session, floor) /\ Tells(session, session, floor)
           /\ Unheard(session) \in Int /\ Unheard(session) >= 0
           /\ Unheard(session) > 0 => session.nodes # <<>>
<1>1. Fine(session, floor) /\ Folded(session) /\ ContextKnown(session) /\ Mood(session, phase)
    BY DEF Talk, Chat, Fine
<1>2. Steady(session, session, floor) /\ Tells(session, session, floor)
    BY <1>1, SteadySelf DEF Steady
<1>3. PICK n \in Int : n = Unheard(session)
    BY <1>1, NodesIn, UnansweredInt DEF Unheard
<1>4. CASE session.nodes = <<>>
    <2>1. Len(session.nodes) = 0
        BY <1>4
    <2>2. n = 0
        BY <1>3, <2>1, UnansweredNone DEF Unheard
    <2> QED BY <1>1, <1>2, <1>3, <2>2
<1>5. CASE session.nodes # <<>>
    <2>1. \A q \in Seq(DOMAIN session.log) : q # <<>> => Len(q) \in DOMAIN q OBVIOUS
    <2>2. Len(session.nodes) \in DOMAIN session.nodes
        BY <1>1, <1>5, <2>1, NodesIn
    <2>3. n >= 0
        BY <1>1, <1>3, <2>2 DEF Unheard, Conversation, Fine
    <2> QED BY <1>1, <1>2, <1>3, <1>5, <2>3
<1> QED BY <1>4, <1>5

(* A turn ends when every call has its result. *)
Ended(u, t) == t = PutAll(u, <<Ev("turn/end", "")>>)

(* The end of a turn is told on, and leaves the driver idle. *)
LEMMA EndTells ==
    ASSUME NEW s, NEW u, NEW from, Folded(s), Tells(s, u, from), Unheard(u) = 0,
           NEW t, Ended(u, t)
    PROVE  Tells(s, t, from) /\ Mood(t, "idle")
<1>1. PICK e : e = Ev("turn/end", "") OBVIOUS
<1>2. PICK v : v = Put(u, e) OBVIOUS
<1>3. t = v
    BY <1>1, <1>2, PutOne DEF Ended
<1>4. /\ e.t \notin SurfaceType /\ Counted(e)
      /\ e.t = "offload" => e.v \in OfType(u, "input")
    BY <1>1 DEF Ev, SurfaceType, Counted
<1>5. Fine(u, from)
    BY DEF Tells
<1>6. Tells(u, v, from) /\ Unheard(v) = Unheard(u)
    BY <1>2, <1>4, <1>5, TellLog, SMTT(60)
<1>7. Tells(s, v, from)
    BY <1>6, TellsOn
<1>8. Unheard(v) = 0
    BY <1>6
<1>9. Mood(v, "idle")
    <2>1. PICK ph : ph = "idle" OBVIOUS
    <2>2. ph # "tools" /\ ph # "requesting" /\ ph \in {"idle", "maintenance"}
        BY <2>1
    <2>3. Mood(v, ph)
        BY <1>8, <2>2 DEF Mood
    <2> QED BY <2>1, <2>3
<1> QED BY <1>3, <1>7, <1>9

(* A step that ends the turn keeps the invariant. *)
LEMMA EndsTalk ==
    ASSUME Inv, Talk, NEW u, Tells(session, u, floor), Unheard(u) = 0, EndTurn(u), floor' = floor,
           \A w \in Who : Awaits(jobs'[w]) => jobs'[w] = jobs[w]
    PROVE  Talk'
<1>1. PICK t : t = PutAll(u, <<Ev("turn/end", "")>>) OBVIOUS
<1>2. Folded(session)
    BY TalkNow
<1>3. Tells(session, t, floor) /\ Mood(t, "idle")
    BY <1>1, <1>2, EndTells DEF Ended
<1>4. session' = t /\ phase' = "idle"
    BY <1>1 DEF EndTurn
<1>5. Mood(t, phase')
    BY <1>3, <1>4
<1> QED BY <1>3, <1>4, <1>5, Talks

(* A node that says nothing about calls keeps the conversation steady. *)
LEMMA NodeSteady ==
    ASSUME NEW s, NEW from, Fine(s, from), NEW e, e.t \in SurfaceType, e.at = <<>>,
           e.t = "system" \/ s.nodes # <<>>, e.t # "result", e.t = "assistant" => e.v = 0,
           NEW t, t = Put(s, e)
    PROVE  Steady(s, t, from) /\ t.nodes # <<>>
<1>1. /\ Counted(e)
      /\ e.t = "result" => Unheard(s) > 0
      /\ (e.t = "assistant" /\ e.v # 0) => OpenTurn(s.log)
    BY DEF Counted
<1>2. /\ Tells(s, t, from) /\ t.nodes # <<>>
      /\ Unheard(t) = Unheard(s) + Adds(e)
      /\ OpenTurn(s.log) => OpenTurn(t.log)
    BY <1>1, TellNode, SMTT(60)
<1>3. Adds(e) = 0
    BY DEF Adds
<1>4. Folded(s)
    BY DEF Fine
<1>5. PICK h \in Int : h = Unheard(s)
    BY <1>4, NodesIn, UnansweredInt DEF Unheard
<1> QED BY <1>2, <1>3, <1>5 DEF Steady

(* An event of the log does so too, unless it ends a turn. *)
LEMMA LogSteady ==
    ASSUME NEW s, NEW from, Fine(s, from), NEW e, Counted(e),
           e.t = "offload" => e.v \in OfType(s, "input"),
           e.t \notin SurfaceType, e.t # "turn/end",
           NEW t, t = Put(s, e)
    PROVE  Steady(s, t, from) /\ t.nodes = s.nodes /\ (e.t = "turn/start" => OpenTurn(t.log))
<1>1. e.t = "turn/end" => Unheard(s) = 0 OBVIOUS
<1>2. /\ Tells(s, t, from)
      /\ t.nodes = s.nodes /\ Unheard(t) = Unheard(s)
      /\ e.t # "turn/end" => (OpenTurn(s.log) => OpenTurn(t.log))
      /\ e.t = "turn/start" => OpenTurn(t.log)
    BY <1>1, TellLog, ZenonT(60)
<1> QED BY <1>2 DEF Steady

-----------------------------------------------------------------------------
(* The steps of a turn. *)

(* A step that leaves the session alone, and takes no job. *)
LEMMA StaysTalk ==
    ASSUME Inv, Talk, session' = session, floor' = floor,
           phase # "tools", phase' # "tools", phase' # "requesting",
           phase \notin {"idle", "maintenance"} \/ phase' \in {"idle", "maintenance"},
           \A w \in Who : Awaits(jobs'[w]) => jobs'[w] = jobs[w]
    PROVE  Talk'
<1>1. PICK ph2 : ph2 = phase' OBVIOUS
<1>2. Mood(session, ph2)
    BY <1>1, TalkNow, MoodOn
<1>3. PICK t : t = session OBVIOUS
<1>4. Tells(session, t, floor) /\ Mood(t, phase') /\ session' = t
    BY <1>1, <1>2, <1>3, TalkNow
<1> QED BY <1>4, Talks

(* Nobody's transaction changes. *)
LEMMA SameJobs ==
    ASSUME jobs' = jobs
    PROVE  \A w \in Who : Awaits(jobs'[w]) => jobs'[w] = jobs[w] OBVIOUS

(* A turn starts. *)
LEMMA StartTurnTalks ==
    ASSUME Inv, Talk, StartTurn
    PROVE  Talk'
<1>1. PICK e : e = Ev("turn/start", "") OBVIOUS
<1>2. PICK t : t = Put(session, e) OBVIOUS
<1>3. /\ session' = t /\ phase = "idle" /\ phase' = "intake" /\ floor' = floor /\ jobs' = jobs
    BY <1>1, <1>2 DEF StartTurn
<1>4. /\ e.t \notin SurfaceType /\ Counted(e) /\ e.t # "turn/end" /\ e.t = "turn/start"
      /\ e.t = "offload" => e.v \in OfType(session, "input")
    BY <1>1 DEF Ev, SurfaceType, Counted
<1>5. Fine(session, floor) /\ Mood(session, phase)
    BY TalkNow
<1>6. Steady(session, t, floor) /\ OpenTurn(t.log)
    BY <1>2, <1>4, <1>5, LogSteady
<1>7. Tells(session, t, floor)
    BY <1>6 DEF Steady
<1>8. ~(Unheard(t) > 0)
    BY <1>3, <1>5, <1>6 DEF Mood, Steady
<1>9. Mood(t, phase')
    BY <1>3, <1>6, <1>8 DEF Mood
<1> QED BY <1>3, <1>7, <1>9, SameJobs, Talks

(* A reply without a request. *)
ReplyEvents(s, told) ==
    Unless(s.nodes # <<>>, Ev("system", "")) \o Unless(told, Ev("input", "")) \o <<Ev("assistant", 0)>>

(* A fixed answer leaves no call open. *)
LEMMA ReplyTells ==
    ASSUME NEW s, NEW from, Fine(s, from), NEW told, NEW t, t = PutAll(s, ReplyEvents(s, told))
    PROVE  Steady(s, t, from) /\ t.nodes # <<>>
<1>1. PICK system : system = Ev("system", "") OBVIOUS
<1>2. PICK input : input = Ev("input", "") OBVIOUS
<1>3. PICK reply : reply = Ev("assistant", 0) OBVIOUS
<1>4. /\ system.t = "system" /\ system.at = <<>>
      /\ input.t = "input" /\ input.at = <<>>
      /\ reply.t = "assistant" /\ reply.at = <<>> /\ reply.v = 0
    BY <1>1, <1>2, <1>3 DEF Ev
<1>5. PICK a : a = Unless(s.nodes # <<>>, system) OBVIOUS
<1>6. PICK b : b = Unless(told, input) OBVIOUS
<1>7. PICK c : c = a \o b OBVIOUS
<1>8. SeqLike(a) /\ SeqLike(b) /\ SeqLike(c)
    <2>1. SeqLike(a) /\ SeqLike(b)
        BY <1>5, <1>6, PutUnless
    <2> QED BY <1>7, <2>1, LikeConcat
<1>9. PICK s1 : s1 = PutAll(s, a) OBVIOUS
<1>10. PICK s2 : s2 = PutAll(s1, b) OBVIOUS
<1>11. t = Put(s2, reply)
    <2>1. ReplyEvents(s, told) = c \o <<reply>>
        BY <1>1, <1>2, <1>3, <1>5, <1>6, <1>7 DEF ReplyEvents
    <2>2. c \o <<reply>> = Append(c, reply)
        BY <1>8, AppendConcat
    <2>3. PutAll(s, Append(c, reply)) = Put(PutAll(s, c), reply)
        BY <1>8, PutAllNext
    <2>4. PutAll(s, c) = s2
        BY <1>7, <1>8, <1>9, <1>10, PutAllJoin
    <2> QED BY <2>1, <2>2, <2>3, <2>4
<1>12. Folded(s) /\ Steady(s, s, from)
    BY SteadySelf DEF Fine
<1>13. Steady(s, s1, from) /\ s1.nodes # <<>>
    <2>1. CASE s.nodes # <<>>
        BY <1>5, <1>9, <1>12, <2>1, PutUnless
    <2>2. CASE s.nodes = <<>>
        <3>1. s1 = Put(s, system)
            BY <1>5, <1>9, <2>2, PutUnless
        <3>2. system.t \in SurfaceType /\ system.t # "result" /\ system.t # "assistant"
            BY <1>4 DEF SurfaceType
        <3> QED BY <1>4, <3>1, <3>2, NodeSteady
    <2> QED BY <2>1, <2>2
<1>14. Fine(s1, from)
    BY <1>13 DEF Steady, Tells
<1>15. Steady(s, s2, from) /\ s2.nodes # <<>>
    <2>1. CASE told
        BY <1>6, <1>10, <1>13, <2>1, PutUnless
    <2>2. CASE ~told
        <3>1. s2 = Put(s1, input)
            BY <1>6, <1>10, <2>2, PutUnless
        <3>2. input.t \in SurfaceType /\ input.t # "result" /\ input.t # "assistant"
            BY <1>4 DEF SurfaceType
        <3>3. Steady(s1, s2, from) /\ s2.nodes # <<>>
            BY <1>4, <1>13, <1>14, <3>1, <3>2, NodeSteady
        <3> QED BY <1>12, <1>13, <3>3, SteadyOn
    <2> QED BY <2>1, <2>2
<1>16. Fine(s2, from)
    BY <1>15 DEF Steady, Tells
<1>17. Steady(s2, t, from) /\ t.nodes # <<>>
    <2>1. reply.t \in SurfaceType /\ reply.t # "result"
        BY <1>4 DEF SurfaceType
    <2> QED BY <1>4, <1>11, <1>15, <1>16, <2>1, NodeSteady
<1> QED BY <1>12, <1>15, <1>17, SteadyOn

(* The intake answers without a request. *)
LEMMA IntakeReplyTalks ==
    ASSUME Inv, Talk, IntakeReply
    PROVE  Talk'
<1>1. PICK t : t = PutAll(session, ReplyEvents(session, admitted)) OBVIOUS
<1>2. /\ session' = t /\ phase = "intake" /\ phase' = "stopping" /\ floor' = floor /\ jobs' = jobs
    <2>1. ReplyEvents(session, admitted) =
              (IF session.nodes = <<>> THEN <<Ev("system", "")>> ELSE <<>>)
              \o (IF admitted THEN <<>> ELSE <<Ev("input", "")>>) \o <<Ev("assistant", 0)>>
        <3>1. Unless(session.nodes # <<>>, Ev("system", ""))
                  = (IF session.nodes = <<>> THEN <<Ev("system", "")>> ELSE <<>>)
            BY DEF Unless
        <3>2. Unless(admitted, Ev("input", "")) = (IF admitted THEN <<>> ELSE <<Ev("input", "")>>)
            BY DEF Unless
        <3> QED BY <3>1, <3>2 DEF ReplyEvents
    <2>2. session' = PutAll(session, ReplyEvents(session, admitted))
        BY <2>1, Zenon DEF IntakeReply
    <2>3. phase = "intake" /\ phase' = "stopping" /\ floor' = floor /\ jobs' = jobs
        BY DEF IntakeReply
    <2> QED BY <1>1, <2>2, <2>3
<1>3. Fine(session, floor) /\ Mood(session, phase)
    BY TalkNow
<1>4. Steady(session, t, floor)
    BY <1>1, <1>3, ReplyTells
<1>5. Tells(session, t, floor)
    BY <1>4 DEF Steady
<1>6. Mood(t, phase')
    BY <1>2, <1>3, <1>4, MoodOn
<1> QED BY <1>2, <1>5, <1>6, SameJobs, Talks

(* The driver asks for the capacity. *)
LEMMA AsksTalk ==
    ASSUME Inv, Talk, NEW mode, jobs' = [jobs EXCEPT !["driver"] = Asking(mode, session)]
    PROVE  \A w \in Who : Awaits(jobs'[w]) => jobs'[w] = jobs[w]
<1>1. PICK job : job = Asking(mode, session) OBVIOUS
<1>2. job.at = "info"
    BY <1>1, AskingIs
<1>3. DOMAIN jobs = Who
    BY DEF Inv, Control
<1>4. jobs'["driver"] = job /\ \A w \in Who : w # "driver" => jobs'[w] = jobs[w]
    BY <1>1, <1>3, TwoJobs
<1> QED BY <1>2, <1>4 DEF Awaits

(* The step's prompt is rendered; nothing is said. *)
LEMMA IntakePassTalks ==
    ASSUME Inv, Talk, IntakePass
    PROVE  Talk'
<1>1. session' = session /\ floor' = floor /\ phase = "intake"
    BY DEF IntakePass
<1>2. phase' = "pressure" \/ phase' = "preparing"
    BY DEF IntakePass
<1>3. \A w \in Who : Awaits(jobs'[w]) => jobs'[w] = jobs[w]
    <2>1. CASE jobs' = jobs
        BY <2>1, SameJobs
    <2>2. CASE jobs' = [jobs EXCEPT !["driver"] = Asking("pressure", session)]
        BY <2>2, AsksTalk
    <2> QED BY <2>1, <2>2 DEF IntakePass
<1> QED BY <1>1, <1>2, <1>3, StaysTalk

(* Nor is anything while the capacity of another model is looked up. *)
LEMMA SwitchModelTalks ==
    ASSUME Inv, Talk, SwitchModel
    PROVE  Talk'
<1>1. session' = session /\ floor' = floor /\ phase = "preparing" /\ phase' = "switching"
    BY DEF SwitchModel
<1>2. \A w \in Who : Awaits(jobs'[w]) => jobs'[w] = jobs[w]
    BY AsksTalk DEF SwitchModel
<1> QED BY <1>1, <1>2, StaysTalk

(* Nor while the request is prepared. *)
LEMMA PreparedTalks ==
    ASSUME Inv, Talk, Prepared
    PROVE  Talk'
<1>1. session' = session /\ floor' = floor /\ phase = "preparing" /\ phase' = "prepared" /\ jobs' = jobs
    BY DEF Prepared, Enter
<1> QED BY <1>1, SameJobs, StaysTalk

(* A request: what the model hears, and the invariant. *)
LEMMA RequestTalks ==
    ASSUME Inv, Talk, Request
    PROVE  /\ Talk'
           /\ derived'.messages = Messages(session', session'.nodes)
           /\ EffectivePrompt(session') = prompt'
           /\ ContextHeard(session', current')
<1>1. Fine(session, floor) /\ ContextKnown(session) /\ Mood(session, phase)
    BY TalkNow
<1>2. PICK r, startsSeries :
         /\ session' = PutAll(session, PromptEvents(session, prompt, r.inHistory, startsSeries)
                                        \o (IF admitted THEN <<>> ELSE <<Ev("input", "")>>)
                                        \o ContextEvents(session, r.context)
                                        \o (IF headed THEN <<>> ELSE <<Ev("header", "")>>))
         /\ current' = r.context
         /\ derived' = Derive(derived, session')
    BY DEF Request
<1>3. PICK events : events = RequestEvents(session, prompt, r.inHistory, startsSeries, admitted, r.context, headed)
    OBVIOUS
<1>4. PICK t : t = PutAll(session, events) OBVIOUS
<1>5. session' = t
    <2>1. events = PromptEvents(session, prompt, r.inHistory, startsSeries)
                   \o (IF admitted THEN <<>> ELSE <<Ev("input", "")>>)
                   \o ContextEvents(session, r.context)
                   \o (IF headed THEN <<>> ELSE <<Ev("header", "")>>)
        BY <1>3 DEF RequestEvents, Unless
    <2> QED BY <1>2, <1>4, <2>1, Zenon
<1>6. Requested(session, t, floor, prompt, r.context)
    BY <1>1, <1>3, <1>4, RequestTells
<1>7. Steady(session, t, floor) /\ t.nodes # <<>>
    BY <1>6 DEF Requested
<1>8. phase = "prepared" /\ phase' = "requesting" /\ floor' = floor /\ jobs' = jobs /\ prompt' = prompt
    BY DEF Request
<1>9. Talk'
    <2>1. Mood(t, phase')
        BY <1>1, <1>7, <1>8, MoodOn
    <2>2. Tells(session, t, floor)
        BY <1>7 DEF Steady
    <2> QED BY <1>5, <1>8, <2>1, <2>2, SameJobs, Talks
<1>10. EffectivePrompt(session') = prompt' /\ ContextHeard(session', current')
    BY <1>2, <1>5, <1>6, <1>8 DEF Requested
<1>11. derived'.messages = Messages(session', session'.nodes)
    <2>1. Folded(session) /\ Folded(t) /\ Grown(session, t)
        BY <1>1, <1>7 DEF Steady, Tells, Fine
    <2>2. DerivedFor(derived, session)
        BY DEF Inv, Base
    <2>3. DerivedFor(derived, t)
        BY <2>1, <2>2, DerivedOn
    <2>4. Derive(derived, t).messages = Messages(t, t.nodes)
        BY <2>1, <2>3, DeriveAgrees
    <2> QED BY <1>2, <1>5, <2>4
<1> QED BY <1>9, <1>10, <1>11

-----------------------------------------------------------------------------
(* The response, its tools and the end of a turn. *)

(* A response says something, or calls tools in the turn that is open. *)
LEMMA RespondTalks ==
    ASSUME Inv, Talk, Respond
    PROVE  Talk'
<1>1. PICK calls \in 0..MaxCalls :
         /\ session' = Put(session, Ev("assistant", calls))
         /\ phase' = IF calls = 0 THEN "stopping" ELSE "tools"
    BY DEF Respond
<1>2. calls \in Nat
    BY Bounds
<1>3. PICK e : e = Ev("assistant", calls) OBVIOUS
<1>4. PICK t : t = Put(session, e) OBVIOUS
<1>5. e.t = "assistant" /\ e.at = <<>> /\ e.v = calls /\ e.t \in SurfaceType /\ Counted(e)
    BY <1>2, <1>3 DEF Ev, SurfaceType, Counted
<1>6. phase = "requesting" /\ floor' = floor /\ jobs' = jobs /\ session' = t
    BY <1>1, <1>3, <1>4 DEF Respond
<1>7. /\ Fine(session, floor) /\ Mood(session, phase)
      /\ Unheard(session) \in Int /\ Unheard(session) >= 0
    BY TalkNow
<1>8. session.nodes # <<>> /\ OpenTurn(session.log) /\ Unheard(session) = 0
    BY <1>6, <1>7 DEF Mood
<1>9. /\ Tells(session, t, floor)
      /\ Unheard(t) = Unheard(session) + Adds(e)
      /\ OpenTurn(session.log) => OpenTurn(t.log)
    <2>1. /\ e.t = "system" \/ session.nodes # <<>>
          /\ e.t = "result" => Unheard(session) > 0
          /\ (e.t = "assistant" /\ e.v # 0) => OpenTurn(session.log)
        BY <1>5, <1>8
    <2> QED BY <1>4, <1>5, <1>7, <2>1, TellNode, ZenonT(60)
<1>10. Adds(e) = calls
    BY <1>5 DEF Adds
<1>11. Unheard(t) = calls
    BY <1>2, <1>8, <1>9, <1>10
<1>12. Mood(t, phase')
    <2>1. calls = 0 \/ calls > 0
        BY <1>2
    <2>2. phase' = "stopping" \/ phase' = "tools"
        BY <1>1
    <2>3. phase' = "tools" <=> Unheard(t) > 0
        BY <1>1, <1>2, <1>11, <2>1
    <2> QED BY <1>8, <1>9, <2>2, <2>3 DEF Mood
<1> QED BY <1>6, <1>9, <1>12, SameJobs, Talks

(* A step fails. *)
LEMMA FailStepTalks ==
    ASSUME Inv, Talk, FailStep
    PROVE  Talk'
<1>1. floor' = floor /\ jobs' = jobs /\ phase # "tools"
    BY DEF FailStep
<1>2. /\ Fine(session, floor) /\ Mood(session, phase) /\ Tells(session, session, floor)
      /\ Unheard(session) \in Int /\ Unheard(session) >= 0
    BY TalkNow
<1>3. Unheard(session) = 0
    BY <1>1, <1>2 DEF Mood
<1>4. CASE EndTurn(session)
    BY <1>1, <1>2, <1>3, <1>4, SameJobs, EndsTalk
<1>5. CASE phase = "requesting" /\ EndTurn(Put(session, Ev("assistant", 0)))
    <2>1. PICK e : e = Ev("assistant", 0) OBVIOUS
    <2>2. PICK u : u = Put(session, e) OBVIOUS
    <2>3. EndTurn(u)
        BY <1>5, <2>1, <2>2
    <2>4. e.t = "assistant" /\ e.at = <<>> /\ e.v = 0 /\ e.t \in SurfaceType /\ e.t # "result"
        BY <2>1 DEF Ev, SurfaceType
    <2>5. session.nodes # <<>>
        BY <1>2, <1>5 DEF Mood
    <2>6. Steady(session, u, floor)
        BY <1>2, <2>2, <2>4, <2>5, NodeSteady
    <2>7. Tells(session, u, floor) /\ Unheard(u) = 0
        BY <1>3, <2>6 DEF Steady
    <2> QED BY <1>1, <2>3, <2>7, SameJobs, EndsTalk
<1> QED BY <1>4, <1>5 DEF FailStep

(* A result answers one of the open calls. *)
LEMMA ToolResultTalks ==
    ASSUME Inv, Talk, ToolResult
    PROVE  Talk'
<1>1. PICK e : e = Ev("result", "full") OBVIOUS
<1>2. PICK t : t = Put(session, e) OBVIOUS
<1>3. e.t = "result" /\ e.at = <<>> /\ e.t \in SurfaceType /\ Counted(e)
    BY <1>1 DEF Ev, SurfaceType, Counted
<1>4. /\ phase = "tools" /\ floor' = floor /\ jobs' = jobs /\ session' = t
      /\ \/ Unheard(t) > 0 /\ phase' = phase
         \/ Unheard(t) = 0 /\ phase' = "stopping"
         \/ Unheard(t) = 0 /\ phase' = "intake"
    BY <1>1, <1>2 DEF ToolResult, Unheard
<1>5. /\ Fine(session, floor) /\ Mood(session, phase)
      /\ Unheard(session) > 0 => session.nodes # <<>>
    BY TalkNow
<1>6. session.nodes # <<>> /\ OpenTurn(session.log) /\ Unheard(session) > 0
    BY <1>4, <1>5 DEF Mood
<1>7. /\ Tells(session, t, floor)
      /\ OpenTurn(session.log) => OpenTurn(t.log)
    <2>1. /\ e.t = "system" \/ session.nodes # <<>>
          /\ e.t = "result" => Unheard(session) > 0
          /\ (e.t = "assistant" /\ e.v # 0) => OpenTurn(session.log)
        BY <1>3, <1>6
    <2> QED BY <1>2, <1>3, <1>5, <2>1, TellNode, SMTT(60)
<1>8. Mood(t, phase')
    <2>1. PICK n : n = Unheard(t) OBVIOUS
    <2>2. n = 0 => ~(n > 0) OBVIOUS
    <2>3. phase' = "tools" <=> Unheard(t) > 0
        BY <1>4, <2>1, <2>2
    <2> QED BY <1>4, <1>6, <1>7, <2>3 DEF Mood
<1> QED BY <1>4, <1>7, <1>8, SameJobs, Talks

(* A batch that fails answers what is open. *)
LEMMA ToolsFailTalks ==
    ASSUME Inv, Talk, ToolsFail
    PROVE  Talk'
<1>1. PICK n : n = Unheard(session) OBVIOUS
<1>2. /\ Fine(session, floor) /\ Mood(session, phase)
      /\ n \in Int /\ n >= 0
      /\ n > 0 => session.nodes # <<>>
    BY <1>1, TalkNow
<1>3. phase = "tools" /\ floor' = floor /\ jobs' = jobs
    BY DEF ToolsFail
<1>4. n \in Nat /\ session.nodes # <<>>
    <2>1. n > 0
        BY <1>1, <1>2, <1>3 DEF Mood
    <2> QED BY <1>2, <2>1
<1>5. PICK u : u = PutAll(session, [i \in 1..n |-> Ev("result", "cut")]) OBVIOUS
<1>6. EndTurn(u)
    BY <1>1, <1>5 DEF ToolsFail, Unheard
<1>7. Tells(session, u, floor) /\ Unheard(u) = n - n
    <2>1. n <= Unheard(session)
        BY <1>1, <1>4
    <2>2. Tells(session, u, floor) /\ Unheard(u) = Unheard(session) - n
        BY <1>2, <1>4, <1>5, <2>1, TellResults
    <2> QED BY <1>1, <2>2
<1>8. Unheard(u) = 0
    BY <1>4, <1>7
<1> QED BY <1>3, <1>6, <1>7, <1>8, SameJobs, EndsTalk

(* A step is complete. *)
LEMMA StopTalks ==
    ASSUME Inv, Talk, Stop
    PROVE  Talk'
<1>1. floor' = floor /\ jobs' = jobs /\ phase = "stopping"
    BY DEF Stop
<1>2. CASE EndTurn(session)
    <2>1. /\ Mood(session, phase) /\ Tells(session, session, floor)
          /\ Unheard(session) \in Int /\ Unheard(session) >= 0
        BY TalkNow
    <2>2. Unheard(session) = 0
        BY <1>1, <2>1 DEF Mood
    <2> QED BY <1>1, <1>2, <2>1, <2>2, SameJobs, EndsTalk
<1>3. CASE ~EndTurn(session)
    <2>1. session' = session /\ phase' = "intake"
        BY <1>3 DEF Stop
    <2> QED BY <1>1, <2>1, SameJobs, StaysTalk
<1> QED BY <1>2, <1>3

(* The same phase, over a session that is steady. *)
LEMMA SteadyTalk ==
    ASSUME Inv, Talk, NEW t, Steady(session, t, floor), session' = t, floor' = floor, phase' = phase,
           \A w \in Who : Awaits(jobs'[w]) => jobs'[w] = jobs[w] \/ Cut(t, jobs'[w])
    PROVE  Talk'
<1>1. Mood(t, phase)
    BY TalkNow, MoodSame
<1>2. Tells(session, t, floor) /\ Mood(t, phase')
    BY <1>1 DEF Steady
<1> QED BY <1>2, Talks

(* A signal is not heard yet. *)
LEMMA AbortTalks ==
    ASSUME Inv, Talk, Abort
    PROVE  Talk'
<1>1. PICK t : t = session OBVIOUS
<1>2. Steady(session, t, floor)
    BY <1>1, TalkNow
<1>3. session' = t /\ floor' = floor /\ phase' = phase /\ jobs' = jobs
    BY <1>1 DEF Abort
<1> QED BY <1>2, <1>3, SameJobs, SteadyTalk

(* What is durable grows. *)
LEMMA FlushTalks ==
    ASSUME Inv, Talk, Flush
    PROVE  Talk'
<1>1. Control /\ TRUE
    BY DEF Inv
<1>2. jobs["driver"] # NoJob /\ Closing("driver", jobs["driver"].ok)
    BY DEF Flush
<1>3. session' = session /\ phase' = phase /\ floor' \in {floor, Len(session.log)}
    BY DEF Flush, turnVars
<1>4. /\ \A v \in Who \ {"driver"} : jobs'[v] = jobs[v]
      /\ ~Awaits(jobs'["driver"])
    BY <1>1, <1>2, TwoJobs, ClosingIs
<1>5. Fine(session, floor')
    <2>1. Fine(session, floor) /\ Fine(session, Len(session.log))
        BY TalkNow, FineLater
    <2> QED BY <1>3, <2>1
<1>6. Cuts(session, jobs')
    BY <1>4 DEF Talk, Chat, Cuts
<1> QED BY <1>3, <1>5, <1>6 DEF Talk, Chat

(* Whatever others append between two steps of the loop. *)
LEMMA EditTalks ==
    ASSUME Inv, Talk, Edit
    PROVE  Talk'
<1>1. floor' = floor /\ phase' = phase /\ jobs' = jobs /\ session.nodes # <<>>
    BY DEF Edit, turnVars
<1>2. Fine(session, floor) /\ Folded(session)
    BY TalkNow
<1>3. PICK t : t = session' OBVIOUS
<1>4. CASE session' = Put(session, Ev("input", ""))
    <2>1. PICK e : e = Ev("input", "") OBVIOUS
    <2>2. e.t = "input" /\ e.at = <<>> /\ e.t \in SurfaceType /\ e.t # "result" /\ e.t # "assistant"
        BY <2>1 DEF Ev, SurfaceType
    <2>3. t = Put(session, e)
        BY <1>3, <1>4, <2>1
    <2>4. Steady(session, t, floor)
        BY <1>1, <1>2, <2>2, <2>3, NodeSteady
    <2> QED BY <1>1, <1>3, <2>4, SameJobs, SteadyTalk
<1>5. ASSUME NEW n \in Range(session.nodes), session.log[n].t = "result",
             session' = Put(session, Rewrite("result", "cut", n, n))
      PROVE  Talk'
    <2>1. PICK e : e = Rewrite("result", "cut", n, n) OBVIOUS
    <2>2. e.t = "result" /\ e.at = <<n, n>>
        BY <2>1 DEF Rewrite
    <2>3. t = Put(session, e)
        BY <1>3, <1>5, <2>1
    <2>4. PICK i \in 1..Len(session.nodes) : session.nodes[i] = n
        BY <1>2, NodesIn DEF Range
    <2>5. Steady(session, t, floor)
        <3>1. e.at = <<session.nodes[i], session.nodes[i]>> /\ session.log[session.nodes[i]].t = e.t
              /\ e.t \in {"system", "result"}
            BY <1>5, <2>2, <2>4
        <3> QED BY <1>2, <2>3, <3>1, TellSwap
    <2> QED BY <1>1, <1>3, <2>5, SameJobs, SteadyTalk
<1>6. ASSUME NEW n \in Range(session.nodes), session.log[n].t = "input",
             session' = Put(session, Ev("offload", n))
      PROVE  Talk'
    <2>1. PICK e : e = Ev("offload", n) OBVIOUS
    <2>2. e.t = "offload" /\ e.v = n /\ e.t \notin SurfaceType /\ Counted(e) /\ e.t # "turn/end"
        BY <2>1 DEF Ev, SurfaceType, Counted
    <2>3. t = Put(session, e)
        BY <1>3, <1>6, <2>1
    <2>4. n \in OfType(session, "input")
        BY <1>2, <1>6, NodesIn DEF Range, OfType
    <2>5. Steady(session, t, floor)
        BY <1>2, <2>2, <2>3, <2>4, LogSteady
    <2> QED BY <1>1, <1>3, <2>5, SameJobs, SteadyTalk
<1> QED BY <1>4, <1>5, <1>6 DEF Edit

(* A session that was restored. *)
LEMMA RestedTalks ==
    ASSUME NEW t, Rested(t), NEW j, j = [w \in Who |-> NoJob]
    PROVE  Chat(t, Len(t.log), j, "idle")
<1>1. Fine(t, Len(t.log)) /\ ContextKnown(t) /\ Unheard(t) = 0
    BY DEF Rested
<1>2. Cuts(t, j)
    BY NobodyWaits DEF Cuts
<1>3. Mood(t, "idle")
    <2>1. PICK ph : ph = "idle" OBVIOUS
    <2>2. ph # "tools" /\ ph # "requesting" /\ ph \in {"idle", "maintenance"}
        BY <2>1
    <2>3. ~(Unheard(t) > 0)
        BY <1>1
    <2>4. Mood(t, ph)
        BY <2>2, <2>3 DEF Mood
    <2> QED BY <2>1, <2>4
<1> QED BY <1>1, <1>2, <1>3 DEF Chat

(* The process dies and comes back. *)
LEMMA CrashTalks ==
    ASSUME Inv, Talk, Crash
    PROVE  Talk'
<1>1. Fine(session, floor)
    BY TalkNow
<1>2. PICK n \in floor..Len(session.log) :
         LET kept == SubSeq(session.log, 1, n)
             s == Restore(kept \o Repair(kept) \o <<Ev("end-seed", "")>>)
         IN  session' = s /\ floor' = Len(s.log)
    BY DEF Crash
<1>3. PICK kept : kept = SubSeq(session.log, 1, n) OBVIOUS
<1>4. PICK t : t = Restore(kept \o Repair(kept) \o <<Ev("end-seed", "")>>) OBVIOUS
<1>5. session' = t /\ floor' = Len(t.log)
    BY <1>2, <1>3, <1>4, Zenon
<1>6. Restarted(kept, t)
    BY <1>4 DEF Restarted
<1>7. Rested(t)
    BY <1>1, <1>2, <1>3, <1>6, CrashRests
<1>8. phase' = "idle" /\ jobs' = [w \in Who |-> NoJob]
    BY DEF Crash
<1>9. PICK j : j = jobs' OBVIOUS
<1>10. Chat(t, Len(t.log), j, "idle")
    BY <1>7, <1>8, <1>9, RestedTalks
<1> QED BY <1>5, <1>8, <1>9, <1>10 DEF Talk

(* Or begins with a history. *)
LEMMA InitTalk == Init => Talk
<1> SUFFICES ASSUME Init PROVE Talk OBVIOUS
<1>1. PICK h \in Histories :
         session = Restore(IF h = <<>> THEN h ELSE Append(h, Ev("end-seed", "")))
    BY DEF Init
<1>2. Rested(session)
    BY <1>1, HistoryRests
<1>3. floor = Len(session.log) /\ phase = "idle" /\ jobs = [w \in Who |-> NoJob]
    BY DEF Init
<1>4. Chat(session, Len(session.log), jobs, "idle")
    BY <1>2, <1>3, RestedTalks
<1> QED BY <1>3, <1>4 DEF Talk

-----------------------------------------------------------------------------
(* Compactions of the driver. *)

(* The driver goes on, or its turn ends. *)
LEMMA GoesTalk ==
    ASSUME Inv, Talk, NEW u, Steady(session, u, floor),
           NEW mode \in {"pressure", "switch", "overflow"}, NEW ok, NEW gen, Continue(mode, ok, gen, u),
           floor' = floor, phase \notin {"tools", "idle", "maintenance"},
           \A w \in Who : Awaits(jobs'[w]) => jobs'[w] = jobs[w]
    PROVE  Talk'
<1>1. /\ Mood(session, phase) /\ Tells(session, u, floor) /\ Unheard(u) = Unheard(session)
      /\ Unheard(session) \in Int /\ Unheard(session) >= 0
    BY TalkNow DEF Steady
<1>2. Unheard(u) = 0
    BY <1>1 DEF Mood
<1>3. CASE After(mode, ok, gen, u) = "fail"
    <2>1. EndTurn(u)
        BY <1>3 DEF Continue
    <2> QED BY <1>1, <1>2, <2>1, EndsTalk
<1>4. CASE After(mode, ok, gen, u) # "fail"
    <2>1. session' = u /\ phase' = After(mode, ok, gen, u)
        BY <1>4 DEF Continue
    <2>2. phase' \in {"preparing", "prepared"}
        BY <1>4, <2>1 DEF After
    <2>3. Mood(u, phase')
        <3>1. PICK ph2 : ph2 = phase' OBVIOUS
        <3>2. ph2 # "tools" /\ ph2 # "requesting"
            BY <2>2, <3>1
        <3>3. Mood(u, ph2)
            BY <1>1, <3>2, MoodOn
        <3> QED BY <3>1, <3>3
    <2> QED BY <1>1, <2>1, <2>3, Talks
<1> QED BY <1>3, <1>4

(* A transaction begins with an even span. *)
LEMMA BeginTells ==
    ASSUME NEW s, NEW from, Folded(s), NEW u, Steady(s, u, from),
           NEW t, NEW j, NEW k, NEW w \in Who, DOMAIN j = Who,
           NEW pair, Balance(pair, u, Len(u.nodes)),
           NEW mode, NEW left, NEW gen, NEW span, ~Refused(u, pair, mode, span),
           Begun(u, t, j, k, w, mode, left, gen, span)
    PROVE  /\ Steady(s, t, from)
           /\ \A v \in Who : Awaits(k[v]) => k[v] = j[v] \/ Cut(t, k[v])
<1>1. Fine(u, from) /\ Folded(u)
    BY DEF Steady, Tells, Fine
<1>2. PICK e : e = Ev("compaction/start", mode) OBVIOUS
<1>3. /\ e.t \notin SurfaceType /\ e.t # "turn/end" /\ Counted(e)
      /\ e.t = "offload" => e.v \in OfType(u, "input")
    BY <1>2 DEF Ev, SurfaceType, Counted
<1>4. t = Put(u, e)
    BY <1>2, PutOne DEF Begun
<1>5. Steady(u, t, from)
    BY <1>1, <1>3, <1>4, LogSteady
<1>6. Steady(s, t, from)
    BY <1>5, SteadyOn
<1>7. Folded(t) /\ Grown(u, t)
    BY <1>5 DEF Steady, Tells, Fine
<1>8. PICK prepared : prepared = Prepare(u, span) OBVIOUS
<1>9. PICK job : job = Job(mode, "summary", left, gen, span, prepared) OBVIOUS
<1>10. Fields(job, mode, "summary", left, gen, span, prepared)
    BY <1>9, JobIs
<1>11. k[w] = job /\ \A v \in Who \ {w} : k[v] = j[v]
    BY <1>8, <1>9 DEF Begun
<1>12. Valid(u, pair, span)
    BY DEF Refused
<1>13. Even(u, span) /\ Position(u.nodes, span[1]) \in 1..Position(u.nodes, span[2])
    BY <1>1, <1>12, ValidEven
<1>14. /\ job.span = span /\ job.whole = Prepare(u, span).whole /\ job.input = Prepare(u, span).input
       /\ job.priced = Prepare(u, span).priced
    BY <1>8, <1>10 DEF Fields
<1>15. job.whole = Measure(u)
    BY <1>14, PrepareFields
<1>16. Cut(u, job)
    BY <1>1, <1>13, <1>14, <1>15, CutNow
<1>17. Fed(u, job)
    BY <1>1, <1>13, <1>14, FedNow
<1>18. Cut(t, job)
    BY <1>1, <1>7, <1>16, <1>17, CutOn
<1> QED BY <1>6, <1>11, <1>18

(* The pairing a step reads is that of the surface it looks at. *)
LEMMA PairNow ==
    ASSUME Inv, NEW u, Steady(session, u, floor), NEW pair, pair = Pair(pairing, u)
    PROVE  Balance(pair, u, Len(u.nodes))
<1>1. Folded(session) /\ PairedFor(pairing, session)
    BY DEF Inv, Base
<1>2. Folded(u) /\ Grown(session, u)
    BY DEF Steady, Tells, Fine
<1>3. PairedFor(pairing, u)
    BY <1>1, <1>2, PairedOn
<1> QED BY <1>2, <1>3, PairAgrees

(* The driver compacts, or goes on without. *)
LEMMA AttemptTalks ==
    ASSUME Inv, Talk, NEW u, Steady(session, u, floor),
           NEW mode \in {"pressure", "switch", "overflow"},
           NEW priced, NEW retain, NEW left, NEW gen, Attempt(mode, u, priced, retain, left, gen),
           floor' = floor, phase \notin {"tools", "idle", "maintenance"}
    PROVE  Talk'
<1>1. DOMAIN jobs = Who /\ Folded(session) /\ Mood(session, phase)
    BY TalkNow DEF Inv, Control
<1>2. PICK pair, span :
         /\ pair = Pair(pairing, u)
         /\ IF span = <<>> \/ Refused(u, pair, mode, span)
            THEN jobs' = [jobs EXCEPT !["driver"] = NoJob] /\ Continue(mode, FALSE, gen, u)
            ELSE /\ Begin("driver", u, mode, left, gen, span)
                 /\ phase' = "compacting"
    BY DEF Attempt
<1>3. CASE span = <<>> \/ Refused(u, pair, mode, span)
    <2>1. jobs' = [jobs EXCEPT !["driver"] = NoJob] /\ Continue(mode, FALSE, gen, u)
        BY <1>2, <1>3
    <2>2. \A w \in Who : Awaits(jobs'[w]) => jobs'[w] = jobs[w]
        BY <1>1, <2>1, NotAwaiting
    <2> QED BY <2>1, <2>2, GoesTalk
<1>4. CASE ~Refused(u, pair, mode, span) /\ span # <<>>
    <2>1. Begin("driver", u, mode, left, gen, span) /\ phase' = "compacting"
        BY <1>2, <1>4
    <2>2. PICK k : k = jobs' OBVIOUS
    <2>3. PICK t : t = session' OBVIOUS
    <2>4. Begun(u, t, jobs, k, "driver", mode, left, gen, span)
        BY <2>1, <2>2, <2>3 DEF Begin, Begun
    <2>5. Balance(pair, u, Len(u.nodes))
        BY <1>2, PairNow
    <2>6. /\ Steady(session, t, floor)
          /\ \A v \in Who : Awaits(k[v]) => k[v] = jobs[v] \/ Cut(t, k[v])
        BY <1>1, <1>4, <2>4, <2>5, TwoJobs, BeginTells
    <2>7. Mood(t, phase')
        <3>1. PICK ph2 : ph2 = phase' OBVIOUS
        <3>2. ph2 # "tools" /\ ph2 # "requesting"
            BY <2>1, <3>1
        <3>3. Mood(t, ph2)
            BY <1>1, <2>6, <3>2, MoodOn
        <3> QED BY <3>1, <3>3
    <2>8. Tells(session, t, floor)
        BY <2>6 DEF Steady
    <2> QED BY <2>2, <2>3, <2>6, <2>7, <2>8, Talks
<1> QED BY <1>3, <1>4

-----------------------------------------------------------------------------
(* What triggers a compaction. *)

(* The capacity check lets the step go on, prunes, or opens a bracket. *)
LEMMA PricedTalks ==
    ASSUME Inv, Talk, Priced
    PROVE  Talk'
<1>1. Folded(session) /\ Control /\ Fine(session, floor) /\ Steady(session, session, floor)
    BY TypesNow, TalkNow
<1>2. PICK job : job = jobs["driver"] OBVIOUS
<1>3. /\ jobs["driver"] # NoJob /\ jobs["driver"].at = "info"
      /\ jobs["driver"].mode # "manual"
    BY <1>1 DEF Priced, Control, Assigned
<1>4. PICK mode \in {"pressure", "switch", "overflow"} : mode = job.mode
    BY <1>1, <1>2, <1>3, DriverMode
<1>5. PICK u : u = Pruned(session) OBVIOUS
<1>6. Steady(session, u, floor)
    BY <1>1, <1>5, PrunedTells
<1>7. phase \notin {"tools", "idle", "maintenance"} /\ floor' = floor
    BY DEF Priced
<1>8. \/ \E s \in {session, u}, ok \in BOOLEAN :
             jobs' = [jobs EXCEPT !["driver"] = NoJob] /\ Continue(mode, ok, job.gen, s)
      \/ Attempt(mode, session, job.whole, Retain, CompactionRetries, job.gen)
      \/ Attempt(mode, u, Measure(u), Retain, CompactionRetries, job.gen)
    BY <1>2, <1>4, <1>5 DEF Priced
<1>9. ASSUME NEW s \in {session, u}, NEW ok \in BOOLEAN,
             jobs' = [jobs EXCEPT !["driver"] = NoJob], Continue(mode, ok, job.gen, s)
      PROVE  Talk'
    <2>1. Steady(session, s, floor)
        BY <1>1, <1>6
    <2>2. \A w \in Who : Awaits(jobs'[w]) => jobs'[w] = jobs[w]
        BY <1>1, <1>9, NotAwaiting DEF Control
    <2> QED BY <1>7, <1>9, <2>1, <2>2, GoesTalk
<1>10. CASE Attempt(mode, session, job.whole, Retain, CompactionRetries, job.gen)
    BY <1>1, <1>7, <1>10, AttemptTalks
<1>11. CASE Attempt(mode, u, Measure(u), Retain, CompactionRetries, job.gen)
    BY <1>6, <1>7, <1>11, AttemptTalks
<1> QED BY <1>8, <1>9, <1>10, <1>11

(* An overflow at the model prunes or opens a bracket. *)
LEMMA OverflowTalks ==
    ASSUME Inv, Talk, Overflow
    PROVE  Talk'
<1>1. Fine(session, floor) /\ Steady(session, session, floor)
    BY TalkNow
<1>2. PICK u : u = Pruned(session) OBVIOUS
<1>3. Steady(session, u, floor)
    BY <1>1, <1>2, PrunedTells
<1>4. PICK s \in {session, u} : Attempt("overflow", s, Measure(s), 0, 0, session.replaces)
    BY <1>2 DEF Overflow
<1>5. Steady(session, s, floor)
    BY <1>1, <1>3
<1>6. phase \notin {"tools", "idle", "maintenance"} /\ floor' = floor
    BY DEF Overflow
<1> QED BY <1>4, <1>5, <1>6, AttemptTalks

(* A transaction on the surface as it is. *)
LEMMA OpenedTalks ==
    ASSUME Inv, Talk, NEW w \in Who, NEW mode, NEW left, NEW gen, NEW span,
           Begin(w, session, mode, left, gen, span),
           ~Refused(session, Pair(pairing, session), mode, span)
    PROVE  /\ Steady(session, session', floor)
           /\ \A v \in Who : Awaits(jobs'[v]) => jobs'[v] = jobs[v] \/ Cut(session', jobs'[v])
<1>1. DOMAIN jobs = Who /\ Folded(session) /\ Steady(session, session, floor)
    BY TalkNow DEF Inv, Control
<1>2. PICK k : k = jobs' OBVIOUS
<1>3. PICK t : t = session' OBVIOUS
<1>4. Begun(session, t, jobs, k, w, mode, left, gen, span)
    BY <1>2, <1>3 DEF Begin, Begun
<1>5. PICK pair : pair = Pair(pairing, session) OBVIOUS
<1>6. Balance(pair, session, Len(session.nodes)) /\ ~Refused(session, pair, mode, span)
    BY <1>1, <1>5, PairNow
<1>7. /\ Steady(session, t, floor)
      /\ \A v \in Who : Awaits(k[v]) => k[v] = jobs[v] \/ Cut(t, k[v])
    BY <1>1, <1>4, <1>6, BeginTells
<1> QED BY <1>2, <1>3, <1>7

(* A compaction by command takes the whole surface. *)
LEMMA CompactNowTalks ==
    ASSUME Inv, Talk, CompactNow
    PROVE  Talk'
<1>1. PICK span :
         /\ ~Refused(session, Pair(pairing, session), "manual", span)
         /\ Begin("driver", session, "manual", 0, session.replaces, span)
    BY DEF CompactNow
<1>2. phase = "idle" /\ phase' = "maintenance" /\ floor' = floor
    BY DEF CompactNow, Enter
<1>3. PICK t : t = session' OBVIOUS
<1>4. /\ Steady(session, t, floor)
      /\ \A v \in Who : Awaits(jobs'[v]) => jobs'[v] = jobs[v] \/ Cut(t, jobs'[v])
    BY <1>1, <1>3, TwoJobs, OpenedTalks
<1>5. Mood(t, phase')
    <2>1. PICK ph2 : ph2 = phase' OBVIOUS
    <2>2. ph2 \in {"idle", "maintenance"} /\ ph2 # "tools" /\ ph2 # "requesting" /\ phase # "tools"
        BY <1>2, <2>1
    <2>3. Mood(t, ph2)
        BY <1>4, <2>2, TalkNow, MoodOn
    <2> QED BY <2>1, <2>3
<1>6. Tells(session, t, floor)
    BY <1>4 DEF Steady
<1> QED BY <1>2, <1>3, <1>4, <1>5, <1>6, Talks

(* A compaction by anyone takes the region it was given. *)
LEMMA CompactRegionTalks ==
    ASSUME Inv, Talk, CompactRegion
    PROVE  Talk'
<1>1. PICK span :
         /\ ~Refused(session, Pair(pairing, session), "region", span)
         /\ Begin("caller", session, "region", 0, session.replaces, span)
    BY DEF CompactRegion
<1>2. phase' = phase /\ floor' = floor
    BY DEF CompactRegion, turnVars
<1>3. PICK t : t = session' OBVIOUS
<1>4. /\ Steady(session, t, floor)
      /\ \A v \in Who : Awaits(jobs'[v]) => jobs'[v] = jobs[v] \/ Cut(t, jobs'[v])
    BY <1>1, <1>3, TwoJobs, OpenedTalks
<1> QED BY <1>2, <1>3, <1>4, SteadyTalk

(* The driver goes on when its compaction is over. *)
LEMMA ResumeTalks ==
    ASSUME Inv, Talk, Resume
    PROVE  Talk'
<1>1. Control /\ Steady(session, session, floor) /\ DOMAIN jobs = Who
    BY TypesNow, TalkNow DEF Control
<1>2. jobs["driver"] # NoJob /\ jobs["driver"].at = "done"
    BY DEF Resume
<1>3. PICK job : job = jobs["driver"] OBVIOUS
<1>4. floor' = floor
    BY DEF Resume
<1>5. CASE /\ job.mode = "manual" /\ phase' = "idle" /\ session' = session
           /\ jobs' = [jobs EXCEPT !["driver"] = NoJob]
    <2>1. phase = "maintenance"
        BY <1>1, <1>2, <1>3, <1>5 DEF Control, Assigned
    <2>2. \A w \in Who : Awaits(jobs'[w]) => jobs'[w] = jobs[w]
        BY <1>1, <1>5, NotAwaiting
    <2> QED BY <1>4, <1>5, <2>1, <2>2, StaysTalk
<1>6. ASSUME job.mode # "manual"
      PROVE  phase \notin {"tools", "idle", "maintenance"} /\ job.mode \in {"pressure", "switch", "overflow"}
    BY <1>1, <1>2, <1>3, <1>6, DriverMode DEF Control, Assigned
<1>7. CASE /\ job.mode \in {"pressure", "switch"}
           /\ Attempt(job.mode, session, Measure(session), Retain, job.left - 1, job.gen)
    <2>1. PICK mode \in {"pressure", "switch", "overflow"} : mode = job.mode
        BY <1>7
    <2>2. Attempt(mode, session, Measure(session), Retain, job.left - 1, job.gen)
        BY <1>7, <2>1
    <2>3. phase \notin {"tools", "idle", "maintenance"}
        BY <1>6, <1>7
    <2> QED BY <1>1, <1>4, <2>2, <2>3, AttemptTalks
<1>8. ASSUME NEW ok, job.mode # "manual", jobs' = [jobs EXCEPT !["driver"] = NoJob],
             Continue(job.mode, ok, job.gen, session)
      PROVE  Talk'
    <2>1. PICK mode \in {"pressure", "switch", "overflow"} : mode = job.mode
        BY <1>6, <1>8
    <2>2. Continue(mode, ok, job.gen, session)
        BY <1>8, <2>1
    <2>3. phase \notin {"tools", "idle", "maintenance"}
        BY <1>6, <1>8
    <2>4. \A w \in Who : Awaits(jobs'[w]) => jobs'[w] = jobs[w]
        BY <1>1, <1>8, NotAwaiting
    <2> QED BY <1>1, <1>4, <2>2, <2>3, <2>4, GoesTalk
<1> QED BY <1>3, <1>5, <1>7, <1>8 DEF Resume, Released

-----------------------------------------------------------------------------
(* The transaction. *)

(* A checkpoint over an even span that the surface accepts. *)
Fits(s, e) == Accepted(s, e) /\ Even(s, e.at) /\ e.t = "checkpoint" /\ e.at # <<>>

(* A checkpoint that fits keeps the conversation: it is not node 0, and no call
   is open on either side. *)
LEMMA CheckpointTells ==
    ASSUME NEW s, NEW from, Fine(s, from), NEW e, Fits(s, e), NEW t, t = Put(s, e)
    PROVE  Steady(s, t, from)
<1>1. PICK at : at = e.at OBVIOUS
<1>2. PICK i : i = Position(s.nodes, at[1]) OBVIOUS
<1>3. PICK j : j = Position(s.nodes, at[2]) OBVIOUS
<1>4. Folded(s) /\ Conversation(s)
    BY DEF Fine
<1>5. PICK M : s.nodes \in Seq(M)
    BY <1>4, NodesIn
<1>6. i \in 0..Len(s.nodes) /\ j \in 0..Len(s.nodes)
    BY <1>2, <1>3, <1>5, PositionFound
<1>7. /\ 0 < i /\ i <= j
      /\ ~(i = 1 /\ s.log[s.nodes[1]].t = "system")
    BY <1>1, <1>2, <1>3 DEF Fits, Accepted
<1>8. Len(s.nodes) \in Nat
    BY <1>4, NodesIn
<1>9. i \in 1..Len(s.nodes) /\ j \in i..Len(s.nodes)
    BY <1>6, <1>7, <1>8
<1>10. s.nodes # <<>>
    <2>1. Len(<<>>) = 0 OBVIOUS
    <2> QED BY <1>8, <1>9, <2>1
<1>11. i # 1
    BY <1>4, <1>7, <1>10 DEF Conversation
<1>12. Unanswered(s, i - 1) = 0 /\ Unanswered(s, j) = 0
    BY <1>1, <1>2, <1>3 DEF Fits, Even
<1>13. Adds(e) = 0
    BY DEF Fits, Adds
<1>14. e.t \in SurfaceType \ {"context"} /\ Counted(e) /\ e.at # <<>>
    BY DEF Fits, SurfaceType, Counted
<1>15. Swaps(s, e, i, j)
    BY <1>1, <1>2, <1>3, <1>9, <1>11, <1>12, <1>13, <1>14 DEF Swaps
<1> QED BY <1>15, TellSpan

(* What a commit puts in the place of a span. *)
CheckpointOf(job) == Rewrite("checkpoint", "", job.span[1], job.span[2])

(* Summary, checkpoint and close. *)
LEMMA ClosureTells ==
    ASSUME NEW s, NEW from, Fine(s, from), NEW job, NEW accepted \in BOOLEAN,
           NEW c, c = CheckpointOf(job), accepted => Fits(s, c),
           NEW t, t = PutAll(s, Closure(job, accepted))
    PROVE  Steady(s, t, from)
<1>1. PICK x : x = Ev("compaction/summary", job.mode) OBVIOUS
<1>2. PICK z : z = Ev("compaction/end", job.mode) OBVIOUS
<1>3. PICK b : b = Unless(~accepted, c) OBVIOUS
<1>4. SeqLike(b) /\ SeqLike(<<x>>) /\ SeqLike(<<z>>)
    <2>1. SeqLike(b)
        BY <1>3, PutUnless
    <2>2. SeqLike(Unless(FALSE, x)) /\ SeqLike(Unless(FALSE, z))
        BY PutUnless
    <2>3. SeqLike(<<x>>) /\ SeqLike(<<z>>)
        BY <2>2 DEF Unless
    <2> QED BY <2>1, <2>3
<1>5. PICK a : a = <<x>> \o b OBVIOUS
<1>6. SeqLike(a)
    BY <1>4, <1>5, LikeConcat
<1>7. Closure(job, accepted) = a \o <<z>>
    BY <1>1, <1>2, <1>3, <1>5 DEF Closure, Unless, CheckpointOf
<1>8. PICK u : u = Put(s, x) OBVIOUS
<1>9. PICK v : v = PutAll(u, b) OBVIOUS
<1>10. t = Put(v, z)
    <2>1. PutAll(s, a \o <<z>>) = PutAll(PutAll(s, a), <<z>>)
        BY <1>4, <1>6, PutAllJoin
    <2>2. PutAll(s, <<x>> \o b) = PutAll(PutAll(s, <<x>>), b)
        BY <1>4, PutAllJoin
    <2>3. PutAll(s, <<x>>) = u
        BY <1>8, PutOne
    <2>4. PutAll(s, a) = v
        BY <1>5, <1>9, <2>2, <2>3
    <2>5. PutAll(v, <<z>>) = Put(v, z)
        BY PutOne
    <2> QED BY <1>7, <2>1, <2>4, <2>5
<1>11. /\ x.t \notin SurfaceType /\ x.t # "turn/end" /\ Counted(x)
       /\ x.t = "offload" => x.v \in OfType(s, "input")
    BY <1>1 DEF Ev, SurfaceType, Counted
<1>12. Steady(s, u, from) /\ u.nodes = s.nodes
    BY <1>8, <1>11, LogSteady
<1>13. Fine(u, from) /\ Folded(s) /\ Folded(u) /\ Grown(s, u)
    BY <1>12 DEF Steady, Tells, Fine
<1>14. Steady(u, v, from)
    <2>1. CASE ~accepted
        <3>1. v = u
            BY <1>3, <1>9, <2>1, PutUnless
        <3> QED BY <1>13, <3>1, SteadySelf
    <2>2. CASE accepted
        <3>1. v = Put(u, c)
            BY <1>3, <1>9, <2>2, PutUnless, ZenonT(60)
        <3>2. Fits(s, c)
            BY <2>2
        <3>3. PICK span : span = c.at OBVIOUS
        <3>4. c.t = "checkpoint" /\ c.at # <<>> /\ Even(s, span) /\ Accepted(s, c)
            BY <3>2, <3>3 DEF Fits
        <3>5. Accepted(u, c)
            <4>1. s.nodes = <<>> \/ s.log[s.nodes[1]].t = u.log[u.nodes[1]].t
                <5>1. CASE s.nodes # <<>>
                    <6>1. \A q \in Seq(DOMAIN s.log) : q # <<>> => 1 \in 1..Len(q)
                        OBVIOUS
                    <6>2. PICK h : h = s.nodes[1] OBVIOUS
                    <6>3. h \in DOMAIN s.log
                        BY <1>13, <5>1, <6>1, <6>2, NodesIn
                    <6>4. s.log[h] = u.log[h]
                        BY <1>13, <6>3, GrownLog
                    <6> QED BY <1>12, <6>2, <6>4
                <5> QED BY <5>1
            <4>2. PICK i : i = Position(s.nodes, span[1]) OBVIOUS
            <4>3. PICK j : j = Position(s.nodes, span[2]) OBVIOUS
            <4>4. /\ 0 < i /\ i <= j
                  /\ (i = 1 /\ s.log[s.nodes[1]].t = "system") => j = 1 /\ c.t = "system"
                BY <3>3, <3>4, <4>2, <4>3 DEF Accepted
            <4>5. s.nodes # <<>>
                <5>1. PICK M : s.nodes \in Seq(M)
                    BY <1>13, NodesIn
                <5>2. i \in 0..Len(s.nodes)
                    BY <4>2, <5>1, PositionFound
                <5>3. Len(<<>>) = 0 OBVIOUS
                <5> QED BY <4>4, <5>2, <5>3
            <4>6. /\ 0 < i /\ i <= j
                  /\ (i = 1 /\ u.log[u.nodes[1]].t = "system") => j = 1 /\ c.t = "system"
                BY <4>1, <4>4, <4>5
            <4> QED BY <1>12, <3>3, <3>4, <4>2, <4>3, <4>6 DEF Accepted
        <3>6. Even(u, span)
            <4>1. Position(s.nodes, span[1]) \in 1..Position(s.nodes, span[2])
                <5>1. PICK i : i = Position(s.nodes, span[1]) OBVIOUS
                <5>2. PICK j : j = Position(s.nodes, span[2]) OBVIOUS
                <5>3. PICK M : s.nodes \in Seq(M)
                    BY <1>13, NodesIn
                <5>4. i \in 0..Len(s.nodes) /\ j \in 0..Len(s.nodes) /\ Len(s.nodes) \in Nat
                    BY <1>13, <5>1, <5>2, <5>3, PositionFound, NodesIn
                <5>5. 0 < i /\ i <= j
                    BY <3>3, <3>4, <5>1, <5>2 DEF Accepted
                <5> QED BY <5>1, <5>2, <5>4, <5>5
            <4>2. PICK D : D = DOMAIN s.log OBVIOUS
            <4>3. Likened(s, u, D, span)
                BY <1>12, <1>13, <4>1, <4>2, NodesIn, GrownLog DEF Likened
            <4> QED BY <3>4, <4>3, EvenSame
        <3>7. Fits(u, c)
            BY <3>3, <3>4, <3>5, <3>6 DEF Fits
        <3> QED BY <1>13, <3>1, <3>7, CheckpointTells
    <2> QED BY <2>1, <2>2
<1>15. Steady(s, v, from)
    BY <1>12, <1>13, <1>14, SteadyOn
<1>16. Fine(v, from)
    BY <1>15 DEF Steady, Tells
<1>17. /\ z.t \notin SurfaceType /\ z.t # "turn/end" /\ Counted(z)
       /\ z.t = "offload" => z.v \in OfType(v, "input")
    BY <1>2 DEF Ev, SurfaceType, Counted
<1>18. Steady(v, t, from)
    BY <1>10, <1>16, <1>17, LogSteady
<1> QED BY <1>13, <1>15, <1>18, SteadyOn

(* What a transaction that awaits its summary knows of its span. *)
LEMMA AwaitedEven ==
    ASSUME Inv, Talk, NEW w \in Who, Awaits(jobs[w]), NEW job, job = jobs[w],
           NEW pair, pair = Pair(pairing, session), Stable(session, pair, job)
    PROVE  Even(session, job.span)
<1>1. Folded(session) /\ Steady(session, session, floor)
    BY TalkNow
<1>2. Fed(session, job)
    BY DEF Inv, Lock
<1>3. Cut(session, job)
    BY DEF Talk, Chat, Cuts
<1>4. Balance(pair, session, Len(session.nodes))
    BY <1>1, PairNow
<1> QED BY <1>1, <1>2, <1>3, <1>4, StableEven

(* A commit appends summary, checkpoint and close in one go. *)
LEMMA CommitTalks ==
    ASSUME Inv, Talk, NEW w \in Who, Commit(w)
    PROVE  Talk'
<1>1. Control /\ Fine(session, floor)
    BY TypesNow, TalkNow
<1>2. Awaits(jobs[w]) /\ jobs[w] # NoJob
    BY DEF Commit, Awaiting, Awaits
<1>3. PICK job : job = jobs[w] OBVIOUS
<1>4. PICK c : c = CheckpointOf(job) OBVIOUS
<1>5. PICK accepted \in BOOLEAN : accepted = Accepted(session, c)
    <2>1. Accepted(session, c) \in BOOLEAN
        BY DEF Accepted
    <2> QED BY <2>1
<1>6. PICK t : t = session' OBVIOUS
<1>7. t = PutAll(session, Closure(job, accepted)) /\ Closing(w, accepted)
    BY <1>3, <1>4, <1>5, <1>6 DEF Commit, Closure, CheckpointOf
<1>8. PICK pair : pair = Pair(pairing, session) OBVIOUS
<1>9. Stable(session, pair, job)
    BY <1>3, <1>8 DEF Commit, Usable
<1>10. Even(session, job.span)
    BY <1>2, <1>3, <1>8, <1>9, AwaitedEven
<1>11. accepted => Fits(session, c)
    <2>1. /\ c.t = "checkpoint" /\ c.at = <<job.span[1], job.span[2]>>
        BY <1>4 DEF CheckpointOf, Rewrite
    <2>2. c.at[1] = job.span[1] /\ c.at[2] = job.span[2] /\ c.at # <<>>
        BY <2>1
    <2>3. Even(session, c.at)
        BY <1>10, <2>2 DEF Even
    <2> QED BY <1>5, <2>1, <2>2, <2>3 DEF Fits
<1>12. Steady(session, t, floor)
    BY <1>1, <1>4, <1>7, <1>11, ClosureTells
<1>13. /\ \A v \in Who \ {w} : jobs'[v] = jobs[v]
       /\ ~Awaits(jobs'[w])
    BY <1>1, <1>2, <1>7, ClosingIs
<1>14. \A v \in Who : Awaits(jobs'[v]) => jobs'[v] = jobs[v]
    BY <1>13
<1>15. floor' = floor /\ phase' = phase
    BY DEF Commit, turnVars
<1> QED BY <1>6, <1>12, <1>14, <1>15, SteadyTalk

(* A transaction that fails closes its bracket, or leaves it open. *)
LEMMA FailTalks ==
    ASSUME Inv, Talk, NEW w \in Who, Fail(w)
    PROVE  Talk'
<1>1. Control /\ Fine(session, floor) /\ Steady(session, session, floor)
    BY TypesNow, TalkNow
<1>2. Awaits(jobs[w]) /\ jobs[w] # NoJob
    BY DEF Fail, Awaiting, Awaits
<1>3. floor' = floor /\ phase' = phase
    BY DEF Fail, turnVars
<1>4. CASE /\ session' = Put(session, Ev("compaction/end", jobs[w].mode))
           /\ Closing(w, FALSE)
    <2>1. PICK e : e = Ev("compaction/end", jobs[w].mode) OBVIOUS
    <2>2. /\ e.t \notin SurfaceType /\ e.t # "turn/end" /\ Counted(e)
          /\ e.t = "offload" => e.v \in OfType(session, "input")
        BY <2>1 DEF Ev, SurfaceType, Counted
    <2>3. PICK t : t = session' OBVIOUS
    <2>4. t = Put(session, e)
        BY <1>4, <2>1, <2>3
    <2>5. Steady(session, t, floor)
        BY <1>1, <2>2, <2>4, LogSteady
    <2>6. /\ \A v \in Who \ {w} : jobs'[v] = jobs[v]
          /\ ~Awaits(jobs'[w])
        BY <1>1, <1>2, <1>4, ClosingIs
    <2> QED BY <1>3, <2>3, <2>5, <2>6, SteadyTalk
<1>5. CASE /\ session' = session
           /\ jobs' = IF w = "caller" THEN [jobs EXCEPT ![w] = NoJob]
                      ELSE [jobs EXCEPT ![w].at = "done"]
    <2>1. DOMAIN jobs = Who /\ JobOK(jobs[w])
        BY <1>1, <1>2 DEF Control
    <2>2. \A v \in Who \ {w} : jobs'[v] = jobs[v]
        BY <1>5, <2>1
    <2>3. ~Awaits(jobs'[w])
        <3>1. CASE w = "caller"
            BY <1>5, <2>1, <3>1, NotAwaiting
        <3>2. CASE w # "caller"
            <4>1. PICK job : job = jobs[w] OBVIOUS
            <4>2. PICK new : new = [job EXCEPT !.at = "done"] OBVIOUS
            <4>3. jobs'[w] = new
                BY <1>5, <2>1, <3>2, <4>1, <4>2
            <4>4. new.at = "done"
                BY <2>1, <4>1, <4>2 DEF JobOK, JobFields
            <4> QED BY <4>3, <4>4 DEF Awaits
        <3> QED BY <3>1, <3>2
    <2>4. PICK t : t = session' OBVIOUS
    <2>5. Steady(session, t, floor)
        BY <1>1, <1>5, <2>4
    <2> QED BY <1>3, <2>2, <2>3, <2>4, <2>5, SteadyTalk
<1> QED BY <1>4, <1>5 DEF Fail

(* An image of the span is offloaded and the span measured anew. *)
LEMMA RecoverTalks ==
    ASSUME Inv, Talk, NEW w \in Who, Recover(w)
    PROVE  Talk'
<1>1. Folded(session) /\ Control /\ Fine(session, floor)
    BY TypesNow, TalkNow
<1>2. Awaits(jobs[w])
    BY DEF Recover, Awaiting, Awaits
<1>3. PICK job : job = jobs[w] OBVIOUS
<1>4. PICK pair : pair = Pair(pairing, session) OBVIOUS
<1>5. PICK t : t = session' OBVIOUS
<1>6. PICK n \in Range(Span(session.nodes, job.span)) :
         /\ session.log[n].t = "input"
         /\ t = Put(session, Ev("offload", n))
         /\ jobs' = [jobs EXCEPT ![w] = Job(job.mode, "summary", job.left, job.gen, job.span,
                                            Prepare(t, job.span))]
    BY <1>3, <1>5 DEF Recover
<1>7. Stable(session, pair, job) /\ Fed(session, job)
    BY <1>2, <1>3, <1>4 DEF Recover, Inv, Lock
<1>8. Position(session.nodes, job.span[1]) \in 1..Position(session.nodes, job.span[2])
    BY <1>1, <1>7, StableInput
<1>9. n \in OfType(session, "input")
    <2> DEFINE D == {i \in DOMAIN session.log : session.log[i].t \in SurfaceType}
    <2>1. session.nodes \in Seq(D)
        BY <1>1 DEF Folded
    <2> HIDE DEF D
    <2>2. PICK span : span = job.span OBVIOUS
    <2>3. Span(session.nodes, span) \in Seq(D)
        BY <1>8, <2>1, <2>2, SpanType
    <2>4. n \in D
        BY <1>6, <2>2, <2>3 DEF Range
    <2> QED BY <1>6, <2>4 DEF D, OfType
<1>10. PICK e : e = Ev("offload", n) OBVIOUS
<1>11. e.t = "offload" /\ e.v = n /\ e.t \notin SurfaceType /\ Counted(e) /\ e.t # "turn/end"
    BY <1>10 DEF Ev, SurfaceType, Counted
<1>12. Steady(session, t, floor) /\ t.nodes = session.nodes
    BY <1>1, <1>6, <1>9, <1>10, <1>11, LogSteady
<1>13. Folded(t) /\ Grown(session, t)
    BY <1>12 DEF Steady, Tells, Fine
<1>14. Even(session, job.span)
    BY <1>2, <1>3, <1>4, <1>7, AwaitedEven
<1>15. Even(t, job.span)
    <2>1. PICK span : span = job.span OBVIOUS
    <2>2. PICK D : D = DOMAIN session.log OBVIOUS
    <2>3. Likened(session, t, D, span)
        BY <1>1, <1>8, <1>12, <1>13, <2>1, <2>2, NodesIn, GrownLog DEF Likened
    <2>4. Even(session, span)
        BY <1>14, <2>1
    <2>5. Even(t, span)
        BY <2>3, <2>4, EvenSame
    <2> QED BY <2>1, <2>5
<1>16. PICK prepared : prepared = Prepare(t, job.span) OBVIOUS
<1>17. PICK new : new = Job(job.mode, "summary", job.left, job.gen, job.span, prepared)
    OBVIOUS
<1>18. Fields(new, job.mode, "summary", job.left, job.gen, job.span, prepared)
    BY <1>17, JobIs
<1>19. new.span = job.span /\ new.whole = prepared.whole
    BY <1>18 DEF Fields
<1>20. new.whole = Measure(t)
    BY <1>16, <1>19, PrepareFields
<1>21. Cut(t, new)
    <2>1. Position(t.nodes, new.span[1]) \in 1..Position(t.nodes, new.span[2]) /\ Even(t, new.span)
        BY <1>8, <1>12, <1>15, <1>19
    <2> QED BY <1>13, <1>20, <2>1, CutNow
<1>22. jobs'[w] = new /\ \A v \in Who \ {w} : jobs'[v] = jobs[v]
    BY <1>1, <1>6, <1>16, <1>17 DEF Control
<1>23. \A v \in Who : Awaits(jobs'[v]) => jobs'[v] = jobs[v] \/ Cut(t, jobs'[v])
    BY <1>21, <1>22
<1>24. floor' = floor /\ phase' = phase
    BY DEF Recover, turnVars
<1> QED BY <1>5, <1>12, <1>23, <1>24, SteadyTalk

-----------------------------------------------------------------------------
(* The theorems. *)

(* Whoever goes on after a compaction goes back in the turn, or ends it. *)
LEMMA GoesBack ==
    ASSUME NEW mode \in {"pressure", "switch", "overflow"}, NEW ok, NEW gen, NEW s, Continue(mode, ok, gen, s)
    PROVE  phase' # "requesting"
BY DEF Continue, After, EndTurn

(* An attempt sends no request of itself. *)
LEMMA TriesBack ==
    ASSUME NEW mode \in {"pressure", "switch", "overflow"}, NEW s, NEW priced, NEW retain, NEW left, NEW gen,
           Attempt(mode, s, priced, retain, left, gen)
    PROVE  phase' # "requesting"
<1>1. PICK span, pair :
         IF span = <<>> \/ Refused(s, pair, mode, span)
         THEN Continue(mode, FALSE, gen, s)
         ELSE phase' = "compacting"
    BY DEF Attempt
<1>2. CASE Continue(mode, FALSE, gen, s)
    BY <1>2, GoesBack
<1>3. CASE phase' = "compacting"
    BY <1>3
<1> QED BY <1>1, <1>2, <1>3

(* A turn that ends sends nothing. *)
LEMMA EndsBack ==
    ASSUME NEW s, EndTurn(s)
    PROVE  phase' # "requesting"
BY DEF EndTurn

(* A request is on its way only once it was built. *)
LEMMA OnlyRequest ==
    ASSUME Inv, Next, phase # "requesting", phase' = "requesting"
    PROVE  Request
<1>1. Control
    BY TypesNow
<1>2. ~(IntakeReply \/ IntakePass \/ Prepared \/ Respond \/ ToolResult \/ Flush)
    BY DEF IntakeReply, IntakePass, Prepared, Enter, Respond, ToolResult, Flush, turnVars
<1>3. ~(FailStep \/ ToolsFail \/ Stop)
    BY EndsBack DEF FailStep, ToolsFail, Stop
<1>4. ~Priced
    <2> SUFFICES ASSUME Priced PROVE FALSE OBVIOUS
    <2>1. /\ jobs["driver"] # NoJob /\ jobs["driver"].mode # "manual"
        BY <1>1 DEF Priced, Control, Assigned
    <2>2. PICK mode \in {"pressure", "switch", "overflow"} : mode = jobs["driver"].mode
        BY <1>1, <2>1, DriverMode
    <2>3. \/ \E s, ok, gen : Continue(mode, ok, gen, s)
          \/ \E s, priced, retain, left, gen : Attempt(mode, s, priced, retain, left, gen)
        BY <2>2 DEF Priced
    <2> QED BY <2>3, GoesBack, TriesBack
<1>5. ~Resume
    <2> SUFFICES ASSUME Resume PROVE FALSE OBVIOUS
    <2>1. jobs["driver"] # NoJob
        BY DEF Resume
    <2>2. jobs["driver"].mode # "manual" =>
             jobs["driver"].mode \in {"pressure", "switch", "overflow"}
        BY <1>1, <2>1, DriverMode
    <2>3. \/ phase' = "idle"
          \/ /\ jobs["driver"].mode \in {"pressure", "switch", "overflow"}
             /\ \/ \E s, ok, gen : Continue(jobs["driver"].mode, ok, gen, s)
                \/ \E s, priced, retain, left, gen :
                      Attempt(jobs["driver"].mode, s, priced, retain, left, gen)
        BY <2>2 DEF Resume, Released
    <2>4. PICK mode : mode = jobs["driver"].mode OBVIOUS
    <2> QED BY <2>3, <2>4, GoesBack, TriesBack
<1>6. ~Overflow
    BY DEF Overflow
<1>7. ~(StartTurn \/ SwitchModel \/ Abort \/ CompactNow \/ CompactRegion \/ Edit \/ Crash)
    BY DEF StartTurn, SwitchModel, Abort, CompactNow, Enter, CompactRegion, Edit, Crash, turnVars
<1>8. ~(\E w \in Who : Commit(w) \/ Fail(w) \/ Recover(w))
    BY DEF Commit, Fail, Recover, turnVars
<1> QED BY <1>2, <1>3, <1>4, <1>5, <1>6, <1>7, <1>8 DEF Next, Drive

(* Every step tells the conversation on. *)
LEMMA NextTalks ==
    ASSUME Inv, Talk, Next
    PROVE  Talk'
<1>1. CASE Drive
    BY <1>1, IntakeReplyTalks, IntakePassTalks, PreparedTalks, RequestTalks, RespondTalks,
       FailStepTalks, ToolResultTalks, ToolsFailTalks, StopTalks, PricedTalks, FlushTalks,
       ResumeTalks DEF Drive
<1>2. CASE Overflow \/ StartTurn \/ SwitchModel \/ Abort \/ CompactNow \/ CompactRegion
    BY <1>2, OverflowTalks, StartTurnTalks, SwitchModelTalks, AbortTalks, CompactNowTalks,
       CompactRegionTalks
<1>3. ASSUME NEW w \in Who, Commit(w) \/ Fail(w) \/ Recover(w)
      PROVE  Talk'
    BY <1>3, CommitTalks, FailTalks, RecoverTalks
<1>4. CASE Edit \/ Crash
    BY <1>4, EditTalks, CrashTalks
<1> QED BY <1>1, <1>2, <1>3, <1>4 DEF Next

(* The conversation's invariant holds of every reachable state. *)
LEMMA TalkAlways == Spec => [](Inv /\ Talk)
<1>1. Init => Inv /\ Talk
    BY InitInv, InitTalk
<1>2. Inv /\ Talk /\ [Next]_vars => (Inv /\ Talk)'
    <2> SUFFICES ASSUME Inv, Talk, [Next]_vars PROVE Inv' /\ Talk' OBVIOUS
    <2>1. CASE Next
        BY <2>1, NextKeeps, NextTalks
    <2>2. CASE UNCHANGED vars
        <3>1. session' = session /\ floor' = floor /\ jobs' = jobs /\ phase' = phase
            BY <2>2 DEF vars, turnVars
        <3>2. Talk'
            BY <3>1 DEF Talk
        <3> QED BY <2>2, <3>2, StutterKeeps
    <2> QED BY <2>1, <2>2
<1> QED BY <1>1, <1>2, PTL DEF Spec

(* A surface without a node that stands twice has as many as it is long. *)
LEMMA ApartCount ==
    ASSUME NEW S, NEW q \in Seq(S), \A i, j \in DOMAIN q : i < j => q[i] # q[j]
    PROVE  Cardinality(Range(q)) = Len(q)
<1>1. PICK n \in Nat : n = Len(q) OBVIOUS
<1>2. DOMAIN q = 1..n
    BY <1>1
<1>3. \A i, j \in 1..n : i # j => q[i] # q[j]
    <2>1. \A i, j \in 1..n : i < j \/ j < i \/ i = j OBVIOUS
    <2> QED BY <1>2, <2>1
<1>4. q \in Bijection(1..n, Range(q))
    <2>1. q \in [1..n -> Range(q)]
        BY <1>2 DEF Range
    <2>2. \A a, b \in 1..n : q[a] = q[b] => a = b
        BY <1>3
    <2>3. \A t \in Range(q) : \E s \in 1..n : q[s] = t
        BY <1>2 DEF Range
    <2> QED BY <2>1, <2>2, <2>3 DEF Bijection, Injection, Surjection, IsInjective
<1>5. ExistsBijection(1..n, Range(q))
    BY <1>4 DEF ExistsBijection
<1>6. IsFiniteSet(1..n) /\ Cardinality(1..n) = n
    BY FS_Interval
<1> QED BY <1>1, <1>5, <1>6, FS_Bijection

(* The session's log has the surface it shows, a durable prefix of it as well is
   a conversation, a runtime context that is known is the last one, and the span
   of a transaction that awaits its summary splits no step (core/session/src/
   surface.ts, compaction/src/tool-pairing.ts). *)
THEOREM TalkInvariant == Spec => []TalkInv
<1>1. Inv /\ Talk => TalkInv
    <2> SUFFICES ASSUME Inv, Talk PROVE TalkInv OBVIOUS
    <2>1. Fine(session, floor) /\ ContextKnown(session) /\ Mood(session, phase)
        BY TalkNow
    <2>2. \A w \in Who : Awaiting(w) => Cut(session, jobs[w])
        BY DEF Talk, Chat, Cuts, Awaiting, Awaits
    <2>3. PutAll(NewSession, session.log).nodes = session.nodes /\ Told(session.log, floor)
        BY <2>1 DEF Fine, Refolds
    <2>4. /\ phase = "tools" <=> Unanswered(session, Len(session.nodes)) > 0
          /\ phase \notin {"idle", "maintenance"} => OpenTurn(session.log)
          /\ phase = "requesting" => session.nodes # <<>>
        BY <2>1 DEF Mood, Unheard
    <2> QED BY <2>1, <2>2, <2>3, <2>4 DEF TalkInv
<1> QED BY TalkAlways, <1>1, PTL

(* However requests, prunes, compactions of three triggers, edits and crashes
   follow one another, the surface is a conversation that a provider accepts
   (region.ts validateSurfaceRegion, session/src/surface.ts, agent.ts step):
   the system prompt's node comes first, every result has its call before it,
   and outside a batch every call has its result. *)
THEOREM SurfaceIsSound == Spec => []SurfaceSound
<1>1. Inv /\ Talk => SurfaceSound
    <2> SUFFICES ASSUME Inv, Talk PROVE SurfaceSound OBVIOUS
    <2>1. /\ Fine(session, floor) /\ Folded(session) /\ Mood(session, phase)
          /\ Unheard(session) \in Int /\ Unheard(session) >= 0
        BY TalkNow
    <2>2. Conversation(session)
        BY <2>1 DEF Fine
    <2>3. phase # "tools" => Unanswered(session, Len(session.nodes)) = 0
        <3>1. phase # "tools" => ~(Unheard(session) > 0)
            BY <2>1 DEF Mood
        <3> QED BY <2>1, <3>1 DEF Unheard
    <2>4. Cardinality(Range(session.nodes)) = Len(session.nodes)
        <3>1. PICK q : q = session.nodes OBVIOUS
        <3>2. q \in Seq(DOMAIN session.log) /\ \A i, j \in DOMAIN q : i < j => q[i] # q[j]
            BY <2>1, <2>2, <3>1, NodesIn DEF Conversation
        <3>3. Cardinality(Range(q)) = Len(q)
            BY <3>2, ApartCount
        <3> QED BY <3>1, <3>3
    <2>5. /\ session.nodes # <<>> => session.log[session.nodes[1]].t = "system"
          /\ \A n \in DOMAIN session.nodes : Unanswered(session, n) >= 0
        BY <2>2 DEF Conversation
    <2> QED BY <2>3, <2>4, <2>5 DEF SurfaceSound
<1> QED BY TalkAlways, <1>1, PTL

(* Every request tells the model the whole surface, the prompt rendered for its
   step and the runtime context of this moment (agent.ts buildRequest,
   system-prompt-message.ts, runtime-context), although compactions before it
   shadowed earlier prompts and contexts and crashes forgot the caches. *)
THEOREM RequestIsSound == Spec => RequestSound
<1>1. ASSUME Inv, Talk, [Next]_vars
      PROVE  [(phase # "requesting" /\ phase' = "requesting") =>
                 /\ derived'.messages = Messages(session', session'.nodes)
                 /\ EffectivePrompt(session') = prompt'
                 /\ ContextHeard(session', current')]_vars
    <2>1. CASE UNCHANGED vars
        BY <2>1
    <2>2. CASE Next /\ Request
        BY <1>1, <2>2, RequestTalks
    <2>3. CASE Next /\ ~Request
        BY <1>1, <2>3, OnlyRequest
    <2> QED BY <1>1, <2>1, <2>2, <2>3
<1>2. Inv /\ Talk /\ [Next]_vars
         => [(phase # "requesting" /\ phase' = "requesting") =>
                /\ derived'.messages = Messages(session', session'.nodes)
                /\ EffectivePrompt(session') = prompt'
                /\ ContextHeard(session', current')]_vars
    BY <1>1
<1> QED BY TalkAlways, <1>2, PTL DEF Spec, RequestSound
=============================================================================
