-------------------------- MODULE FollowStreamProofs --------------------------
(***************************************************************************)
(* Theorems about FollowStream, for any bounds on steps, attempts, chunks, *)
(* lives, backlog and twists.  FollowInv is inductive.  Its types also say *)
(* that an open connection is where its client is; StreamTrue, that the    *)
(* accumulator follows the attempt that runs or none; QueueCovers, that    *)
(* every place the client has yet to see waits in the queue, no event      *)
(* ahead of an earlier one; FramesLinked, that each frame goes on from     *)
(* what the one before it, or the client, leaves running;                  *)
(* SettlementsPaired, that a settlement which the client will hold back    *)
(* has its end frame right behind it; Window, that the client shows or     *)
(* holds back each place up to its cursor, in order.                       *)
(*                                                                         *)
(* The first parts have no step in them: rows without those of an attempt  *)
(* or with one more; what the client makes of an event, of an item's       *)
(* events and of a frame; and what becomes of QueueCovers, FramesLinked    *)
(* and SettlementsPaired in a queue with an item more at its end, at its   *)
(* front, or without its head.  Then there is a lemma for each kind of     *)
(* step of the host and of the connection.  Facts about a sequence of any  *)
(* length go by the least number that has a property (UpTo).               *)
(*                                                                         *)
(* OwnInv, in the second half, is inductive where FollowInv holds.  Told   *)
(* says what the log tells of steps; StreamTracks, that the accumulator    *)
(* has of a running attempt all its chunks; Joined, that the rows and the  *)
(* settlements held back are those of the client's attempts, and that only *)
(* an open step makes it ask anew; Queued, that the frames that wait lead  *)
(* from the client's attempt to the agent's (Tracked), that a start waits  *)
(* between the events before and after it and an end behind its settlement *)
(* (Placed), and that before a start every message's step has ended.       *)
(***************************************************************************)
EXTENDS FollowStream, WellFoundedInduction, FiniteSetTheorems, SequenceTheorems, TLAPS

(* Induction over a number, on a set. *)

(* Every set of numbers that is not empty has a least one. *)
LEMMA Least ==
    ASSUME NEW T \in SUBSET Nat, T # {}
    PROVE  \E m \in T : \A k \in T : m <= k
<1> DEFINE R == OpToRel(<, Nat)
<1>1. IsWellFoundedOn(R, Nat)
    BY NatLessThanWellFounded
<1>2. R = {p \in Nat \X Nat : p[1] < p[2]}
    BY DEF OpToRel
<1> HIDE DEF R
<1>3. PICK m \in T : \A k \in T : <<k, m>> \notin R
    BY <1>1, WFMin
<1>4. \A k \in T : <<k, m>> \in Nat \X Nat
    OBVIOUS
<1>5. \A k \in T : ~(k < m)
    BY <1>2, <1>3, <1>4
<1> QED BY <1>5

(* What holds at the start and goes on from each number to the next holds up
   to n. *)
LEMMA UpTo ==
    ASSUME NEW m \in Int, NEW n \in Int, m <= n, NEW S \in SUBSET (m..n),
           m \in S, \A k \in m..(n - 1) : k \in S => k + 1 \in S
    PROVE  S = m..n
<1> SUFFICES ASSUME S # m..n PROVE FALSE
    OBVIOUS
<1> DEFINE T == {k \in Nat : m + k \in (m..n) \ S}
<1>0. (m..n) \ S # {}
    OBVIOUS
<1>1. PICK k \in (m..n) \ S : TRUE
    BY <1>0
<1>2. k - m \in T
    BY <1>1
<1>3. PICK l \in T : \A j \in T : l <= j
    BY <1>2, Least
<1>4. l \in Nat /\ m + l \in m..n /\ m + l \notin S
    BY <1>3
<1>5. l # 0
    BY <1>4
<1>6. l - 1 \in Nat /\ l - 1 \notin T
    <2> HIDE DEF T
    <2> QED BY <1>3, <1>4, <1>5
<1>7. m + (l - 1) \in m..(n - 1) /\ m + (l - 1) \in S
    BY <1>4, <1>5, <1>6
<1>8. (m + (l - 1)) + 1 \in S
    BY <1>7
<1> QED BY <1>4, <1>8

-----------------------------------------------------------------------------
(* Rows of a window. *)

\* W is what is left of the first m rows without those of the attempt id.
PickedTo(rows, id, m, W) ==
    /\ \A i \in DOMAIN W : \E k \in 1..m : W[i] = rows[k] /\ rows[k].id # id
    /\ \A k \in 1..m : rows[k].id # id => \E i \in DOMAIN W : W[i] = rows[k]
    /\ \A i, j \in DOMAIN W :
           i < j => \E k, l \in 1..m : k < l /\ W[i] = rows[k] /\ W[j] = rows[l]

(* A sequence with one element more. *)
LEMMA AppendIs ==
    ASSUME NEW S, NEW q \in Seq(S), NEW e \in S
    PROVE  /\ Append(q, e) \in Seq(S) /\ Len(q) \in Nat /\ Len(Append(q, e)) = Len(q) + 1
           /\ DOMAIN q = 1..Len(q) /\ DOMAIN Append(q, e) = 1..(Len(q) + 1)
           /\ \A i \in 1..Len(q) : Append(q, e)[i] = q[i] /\ q[i] \in S
           /\ Append(q, e)[Len(q) + 1] = e
  OBVIOUS

(* One row more is picked or left. *)
LEMMA PickedNext ==
    ASSUME NEW S, NEW rows \in Seq(S), NEW id, NEW m \in Nat, m + 1 \in 1..Len(rows),
           NEW W \in Seq(S), PickedTo(rows, id, m, W)
    PROVE  LET V == IF rows[m + 1].id = id THEN W ELSE Append(W, rows[m + 1])
           IN  V \in Seq(S) /\ PickedTo(rows, id, m + 1, V)
<1>0. \A k \in 1..m : k \in 1..(m + 1)
    OBVIOUS
<1>0a. \A k \in 1..(m + 1) : k \in 1..m \/ k = m + 1
    OBVIOUS
<1>1. CASE rows[m + 1].id = id
    BY <1>0, <1>0a, <1>1 DEF PickedTo
<1>2. CASE rows[m + 1].id # id
    <2> DEFINE V == Append(W, rows[m + 1])
               n == Len(W)
    <2>1. rows[m + 1] \in S
        OBVIOUS
    <2>2. /\ V \in Seq(S) /\ n \in Nat /\ DOMAIN V = 1..(n + 1) /\ DOMAIN W = 1..n
          /\ V[n + 1] = rows[m + 1] /\ \A i \in 1..n : V[i] = W[i]
        BY <2>1, AppendIs
    <2> HIDE DEF V, n
    <2>3. \A i \in DOMAIN V : i \in DOMAIN W \/ i = n + 1
        BY <2>2
    <2>4. \A i \in DOMAIN V : \E k \in 1..(m + 1) : V[i] = rows[k] /\ rows[k].id # id
        BY <1>0, <1>2, <2>2, <2>3 DEF PickedTo
    <2>5. \A k \in 1..(m + 1) : rows[k].id # id => \E i \in DOMAIN V : V[i] = rows[k]
        <3> SUFFICES ASSUME NEW k \in 1..(m + 1), rows[k].id # id
                     PROVE  \E i \in DOMAIN V : V[i] = rows[k]
            OBVIOUS
        <3>1. CASE k \in 1..m
            <4>1. PICK i \in DOMAIN W : W[i] = rows[k]
                BY <3>1 DEF PickedTo
            <4> QED BY <2>2, <4>1
        <3>2. CASE k = m + 1
            <4>1. n + 1 \in DOMAIN V
                BY <2>2
            <4> QED BY <2>2, <3>2, <4>1
        <3> QED BY <1>0a, <3>1, <3>2
    <2>6. ASSUME NEW i \in DOMAIN V, NEW j \in DOMAIN V, i < j
          PROVE  \E k, l \in 1..(m + 1) : k < l /\ V[i] = rows[k] /\ V[j] = rows[l]
        <3>1. i \in DOMAIN W
            BY <2>2, <2>6
        <3>2. CASE j \in DOMAIN W
            <4>1. PICK k \in 1..m, l \in 1..m : k < l /\ W[i] = rows[k] /\ W[j] = rows[l]
                BY <2>6, <3>1, <3>2 DEF PickedTo
            <4> QED BY <1>0, <2>2, <3>1, <3>2, <4>1
        <3>3. CASE j = n + 1
            <4>1. PICK k \in 1..m : W[i] = rows[k]
                BY <3>1 DEF PickedTo
            <4>2. k < m + 1 /\ k \in 1..(m + 1) /\ m + 1 \in 1..(m + 1)
                BY <4>1
            <4> QED BY <2>2, <3>1, <3>3, <4>1, <4>2
        <3> QED BY <2>3, <3>2, <3>3
    <2>7. PickedTo(rows, id, m + 1, V)
        BY <2>4, <2>5, <2>6 DEF PickedTo
    <2> QED BY <1>2, <2>2, <2>7 DEF V
<1> QED BY <1>1, <1>2

\* f[k] is what Without keeps of the first k rows.
KeptTo(rows, id, n, f) ==
    /\ f = [k \in 0..n |-> f[k]] /\ f[0] = <<>>
    /\ \A k \in 1..n : f[k] = IF rows[k].id = id THEN f[k - 1] ELSE Append(f[k - 1], rows[k])

(* Such a function exists. *)
LEMMA KeptExists ==
    ASSUME NEW rows, NEW id, NEW n \in Nat
    PROVE  \E f : KeptTo(rows, id, n, f)
<1> DEFINE T == {m \in 0..n : \E f : KeptTo(rows, id, m, f)}
<1>1. 0 \in T
    <2> DEFINE f == [k \in 0..0 |-> <<>>]
    <2>1. KeptTo(rows, id, 0, f)
        BY DEF KeptTo
    <2> QED BY <2>1
<1>2. ASSUME NEW m \in 0..(n - 1), m \in T
      PROVE  m + 1 \in T
    <2>1. PICK f : KeptTo(rows, id, m, f)
        BY <1>2
    <2> DEFINE next == IF rows[m + 1].id = id THEN f[m] ELSE Append(f[m], rows[m + 1])
               g == [k \in 0..(m + 1) |-> IF k = m + 1 THEN next ELSE f[k]]
    <2>2. /\ g = [k \in 0..(m + 1) |-> g[k]]
          /\ g[m + 1] = next /\ \A k \in 0..m : g[k] = f[k]
        OBVIOUS
    <2> HIDE DEF g
    <2>3. \A k \in 1..(m + 1) : k = m + 1 \/ (k \in 1..m /\ k \in 0..m /\ k - 1 \in 0..m)
        OBVIOUS
    <2>4. g[0] = <<>> /\ g[m] = f[m] /\ (m + 1) - 1 = m
        <3>1. 0 \in 0..m /\ m \in 0..m /\ (m + 1) - 1 = m
            OBVIOUS
        <3>2. f[0] = <<>>
            BY <2>1 DEF KeptTo
        <3> QED BY <3>1, <3>2, <2>2
    <2>5. ASSUME NEW k \in 1..(m + 1)
          PROVE  g[k] = IF rows[k].id = id THEN g[k - 1] ELSE Append(g[k - 1], rows[k])
        <3>1. CASE k = m + 1
            BY <3>1, <2>2, <2>4
        <3>2. CASE k \in 1..m /\ k \in 0..m /\ k - 1 \in 0..m
            BY <3>2, <2>1, <2>2 DEF KeptTo
        <3> QED BY <3>1, <3>2, <2>3
    <2>6. KeptTo(rows, id, m + 1, g)
        BY <2>2, <2>4, <2>5 DEF KeptTo
    <2>7. m + 1 \in 0..n
        OBVIOUS
    <2> QED BY <2>6, <2>7
<1>3. T = 0..n
    <2> HIDE DEF T
    <2>1. T \in SUBSET (0..n)
        BY DEF T
    <2> QED BY <1>1, <1>2, <2>1, UpTo
<1> QED BY <1>3

(* Without is the last of them. *)
LEMMA WithoutIsKept ==
    ASSUME NEW S, NEW rows \in Seq(S), NEW id
    PROVE  \E f : KeptTo(rows, id, Len(rows), f) /\ Without(rows, id) = f[Len(rows)]
<1> DEFINE n == Len(rows)
           step(f) == [k \in 0..n |->
               IF k = 0 THEN <<>>
               ELSE IF rows[k].id = id THEN f[k - 1] ELSE Append(f[k - 1], rows[k])]
           F == CHOOSE f : f = step(f)
<1>0. n \in Nat
    OBVIOUS
<1>1. PICK g : KeptTo(rows, id, n, g)
    BY <1>0, KeptExists
<1>2. g = step(g)
    <2>1. \A k \in 0..n : g[k] = step(g)[k]
        <3> SUFFICES ASSUME NEW k \in 0..n PROVE g[k] = step(g)[k]
            OBVIOUS
        <3>1. CASE k = 0
            BY <3>1, <1>1 DEF KeptTo
        <3>2. CASE k \in 1..n
            BY <3>2, <1>1 DEF KeptTo
        <3> QED BY <1>0, <3>1, <3>2
    <2>2. g = [k \in 0..n |-> g[k]]
        BY <1>1 DEF KeptTo
    <2>3. step(g) = [k \in 0..n |-> step(g)[k]]
        OBVIOUS
    <2> HIDE DEF step, n
    <2>4. [k \in 0..n |-> g[k]] = [k \in 0..n |-> step(g)[k]]
        BY <2>1
    <2> QED BY <2>2, <2>3, <2>4
<1>3. F = step(F)
    <2> HIDE DEF step
    <2> QED BY <1>2
<1>4. Without(rows, id) = F[n]
    BY DEF Without
<1> HIDE DEF F
<1>5. F = [k \in 0..n |-> F[k]]
    BY <1>3
<1>6. F[0] = <<>>
    BY <1>0, <1>3
<1>7. ASSUME NEW k \in 1..n
      PROVE  F[k] = IF rows[k].id = id THEN F[k - 1] ELSE Append(F[k - 1], rows[k])
    <2>1. k \in 0..n /\ k # 0
        BY <1>0
    <2> QED BY <1>3, <2>1
<1>8. KeptTo(rows, id, n, F)
    BY <1>5, <1>6, <1>7 DEF KeptTo
<1> QED BY <1>4, <1>8

(* Without picks the rows of other attempts, in their order. *)
LEMMA WithoutPicks ==
    ASSUME NEW S, NEW rows \in Seq(S), NEW id
    PROVE  Without(rows, id) \in Seq(S) /\ PickedTo(rows, id, Len(rows), Without(rows, id))
<1> DEFINE n == Len(rows)
<1>1. n \in Nat /\ DOMAIN rows = 1..n
    OBVIOUS
<1>2. PICK f : KeptTo(rows, id, n, f) /\ Without(rows, id) = f[n]
    BY WithoutIsKept
<1> DEFINE T == {m \in 0..n : f[m] \in Seq(S) /\ PickedTo(rows, id, m, f[m])}
<1>3. 0 \in T
    <2>1. f[0] = <<>> /\ <<>> \in Seq(S) /\ DOMAIN <<>> = {}
        BY <1>2 DEF KeptTo
    <2>2. PickedTo(rows, id, 0, <<>>)
        BY <2>1 DEF PickedTo
    <2>3. f[0] \in Seq(S) /\ PickedTo(rows, id, 0, f[0]) /\ 0 \in 0..n
        BY <1>1, <2>1, <2>2
    <2> QED BY <2>3
<1>4. ASSUME NEW m \in 0..(n - 1), m \in T PROVE m + 1 \in T
    <2>1. m \in Nat /\ m + 1 \in 1..n /\ m + 1 \in 0..n /\ (m + 1) - 1 = m
        BY <1>1
    <2>2. f[m] \in Seq(S) /\ PickedTo(rows, id, m, f[m])
        BY <1>4
    <2>3. f[m + 1] = IF rows[m + 1].id = id THEN f[m] ELSE Append(f[m], rows[m + 1])
        BY <1>2, <2>1 DEF KeptTo
    <2> HIDE DEF T
    <2>4. f[m + 1] \in Seq(S) /\ PickedTo(rows, id, m + 1, f[m + 1])
        BY <2>1, <2>2, <2>3, PickedNext
    <2> QED BY <2>1, <2>4 DEF T
<1>5. T = 0..n
    <2> HIDE DEF T
    <2>1. T \in SUBSET (0..n)
        BY DEF T
    <2> QED BY <1>1, <1>3, <1>4, <2>1, UpTo
<1>6. n \in T
    BY <1>1, <1>5
<1>7. f[n] \in Seq(S) /\ PickedTo(rows, id, n, f[n])
    BY <1>6
<1> QED BY <1>2, <1>7

(* A sequence behind another. *)
LEMMA ConcatIs ==
    ASSUME NEW S, NEW a \in Seq(S), NEW b \in Seq(S)
    PROVE  /\ a \o b \in Seq(S) /\ Len(a) \in Nat /\ Len(b) \in Nat
           /\ Len(a \o b) = Len(a) + Len(b) /\ DOMAIN (a \o b) = 1..(Len(a) + Len(b))
           /\ DOMAIN a = 1..Len(a) /\ DOMAIN b = 1..Len(b)
           /\ \A i \in 1..Len(a) : (a \o b)[i] = a[i]
           /\ \A i \in 1..Len(b) : (a \o b)[Len(a) + i] = b[i]
    OBVIOUS

(* What stays shown, and in order, without an attempt's rows. *)
LEMMA WithoutRows ==
    ASSUME NEW k \in Nat, NEW rows \in Seq(RowsTo(k)), NEW id, id # 0
    PROVE  /\ Without(rows, id) \in Seq(RowsTo(k))
           /\ \A n : ShownIn(Without(rows, id), n) <=> ShownIn(rows, n)
           /\ Sorted(rows) => Sorted(Without(rows, id))
           /\ \A m \in Nat : (\A i \in DOMAIN rows : rows[i].event < m) =>
                  \A i \in DOMAIN Without(rows, id) : Without(rows, id)[i].event < m
<1> DEFINE W == Without(rows, id)
<1>1. W \in Seq(RowsTo(k)) /\ PickedTo(rows, id, Len(rows), W)
    BY WithoutPicks
<1>2. DOMAIN rows = 1..Len(rows)
    OBVIOUS
<1> HIDE DEF W
<1>3. ASSUME NEW n PROVE ShownIn(W, n) <=> ShownIn(rows, n)
    <2>1. ShownIn(W, n) => ShownIn(rows, n)
        BY <1>1, <1>2 DEF ShownIn, PickedTo
    <2>2. ASSUME NEW i \in 1..Len(rows), rows[i] = Durable(n)
          PROVE  ShownIn(W, n)
        <3>1. rows[i].id # id
            BY <2>2 DEF Durable
        <3> QED BY <1>1, <2>2, <3>1 DEF ShownIn, PickedTo
    <2> QED BY <1>2, <2>1, <2>2 DEF ShownIn
<1>4. ASSUME Sorted(rows) PROVE Sorted(W)
    <2> SUFFICES ASSUME NEW i \in DOMAIN W, NEW j \in DOMAIN W, i < j
                 PROVE  /\ W[i].event <= W[j].event
                        /\ W[j].id = 0 => W[i].event < W[j].event
        BY DEF Sorted
    <2>1. PICK l \in 1..Len(rows), m \in 1..Len(rows) : l < m /\ W[i] = rows[l] /\ W[j] = rows[m]
        BY <1>1 DEF PickedTo
    <2> QED BY <1>2, <1>4, <2>1 DEF Sorted
<1>5. ASSUME NEW m \in Nat, \A i \in DOMAIN rows : rows[i].event < m
      PROVE  \A i \in DOMAIN W : W[i].event < m
    BY <1>1, <1>2, <1>5, SMTT(30) DEF PickedTo
<1> QED BY <1>1, <1>3, <1>4, <1>5 DEF W

(* A row at the end. *)
LEMMA AppendedRow ==
    ASSUME NEW k \in Nat, NEW rows \in Seq(RowsTo(k)), NEW r \in RowsTo(k)
    PROVE  /\ Append(rows, r) \in Seq(RowsTo(k))
           /\ \A n : ShownIn(Append(rows, r), n) <=> ShownIn(rows, n) \/ r = Durable(n)
           /\ /\ Sorted(rows)
              /\ \A i \in DOMAIN rows : rows[i].event <= r.event /\ (r.id = 0 => rows[i].event < r.event)
              => Sorted(Append(rows, r))
<1> DEFINE A == Append(rows, r)
           m == Len(rows)
<1>1. /\ A \in Seq(RowsTo(k)) /\ m \in Nat /\ DOMAIN rows = 1..m /\ DOMAIN A = 1..(m + 1)
      /\ A[m + 1] = r /\ \A i \in 1..m : A[i] = rows[i]
    BY AppendIs
<1> HIDE DEF A, m
<1>2. \A i \in DOMAIN A : i \in DOMAIN rows \/ i = m + 1
    BY <1>1
<1>3. \A i \in DOMAIN rows : i \in DOMAIN A /\ i < m + 1
    BY <1>1
<1>4. m + 1 \in DOMAIN A
    BY <1>1
<1>5. ASSUME NEW n PROVE ShownIn(A, n) <=> ShownIn(rows, n) \/ r = Durable(n)
    BY <1>1, <1>2, <1>3, <1>4 DEF ShownIn
<1>6. ASSUME Sorted(rows),
             \A i \in DOMAIN rows : rows[i].event <= r.event /\ (r.id = 0 => rows[i].event < r.event)
      PROVE  Sorted(A)
    <2> SUFFICES ASSUME NEW i \in DOMAIN A, NEW j \in DOMAIN A, i < j
                 PROVE  /\ A[i].event <= A[j].event
                        /\ A[j].id = 0 => A[i].event < A[j].event
        BY DEF Sorted
    <2>1. i \in DOMAIN rows
        BY <1>1, <1>2
    <2>2. CASE j \in DOMAIN rows
        BY <1>1, <1>6, <2>1, <2>2 DEF Sorted
    <2>3. CASE j = m + 1
        BY <1>1, <1>6, <2>1, <2>3
    <2> QED BY <1>2, <2>2, <2>3
<1> QED BY <1>1, <1>5, <1>6 DEF A

(* A settlement put in its place; behind all that is earlier, that is the end. *)
LEMMA InsertedRow ==
    ASSUME NEW k \in Nat, NEW rows \in Seq(RowsTo(k)), NEW n \in 1..k
    PROVE  /\ Insert(rows, n) \in Seq(RowsTo(k))
           /\ \A m : ShownIn(Insert(rows, n), m) <=> ShownIn(rows, m) \/ Durable(n) = Durable(m)
           /\ (\A i \in DOMAIN rows : rows[i].event < n) => Insert(rows, n) = Append(rows, Durable(n))
<1> DEFINE later == {i \in DOMAIN rows : rows[i].event > n \/ (rows[i].id # 0 /\ rows[i].event = n)}
           at == Min(later)
           l == Len(rows)
<1>0. Durable(n) \in RowsTo(k)
    BY BoundsAssumption DEF Durable, RowsTo
<1>1. l \in Nat /\ DOMAIN rows = 1..l /\ \A i \in 1..l : rows[i] \in RowsTo(k)
    OBVIOUS
<1>2. Insert(rows, n) = IF later = {} THEN Append(rows, Durable(n)) ELSE InsertAt(rows, at, Durable(n))
    BY DEF Insert
<1>3. ASSUME \A i \in DOMAIN rows : rows[i].event < n
      PROVE  later = {}
    BY <1>1, <1>3, SMTT(30) DEF RowsTo
<1>4. later \in SUBSET (1..l) /\ later \in SUBSET Nat
    BY <1>1
<1> HIDE DEF later
<1>5. CASE later = {}
    BY <1>0, <1>2, <1>5, AppendedRow
<1>6. CASE later # {}
    <2>1. PICK x \in later : \A y \in later : x <= y
        BY <1>4, <1>6, Least
    <2>2. at \in later
        BY <2>1 DEF Min
    <2> HIDE DEF at
    <2> DEFINE I == InsertAt(rows, at, Durable(n))
    <2>3. at \in 1..l
        BY <1>4, <2>2
    <2>4. /\ I \in Seq(RowsTo(k)) /\ DOMAIN I = 1..(l + 1) /\ I[at] = Durable(n)
          /\ \A i \in 1..(at - 1) : I[i] = rows[i]
          /\ \A i \in at..l : I[i + 1] = rows[i]
        <3> DEFINE a == SubSeq(rows, 1, at - 1)
                   b == SubSeq(rows, at, l)
        <3>1. I = a \o <<Durable(n)>> \o b
            BY DEF InsertAt
        <3>2. /\ a \in Seq(RowsTo(k)) /\ Len(a) = at - 1 /\ \A i \in 1..(at - 1) : a[i] = rows[i]
              /\ b \in Seq(RowsTo(k)) /\ Len(b) = l - at + 1
              /\ \A i \in 1..(l - at + 1) : b[i] = rows[at + i - 1]
            BY <1>1, <2>3
        <3>3. <<Durable(n)>> \in Seq(RowsTo(k))
            BY <1>0
        <3> HIDE DEF a, b, I, l
        <3> DEFINE c == a \o <<Durable(n)>>
        <3>4. /\ c \in Seq(RowsTo(k)) /\ Len(c) = at /\ c[at] = Durable(n)
              /\ \A i \in 1..(at - 1) : c[i] = a[i]
            <4>1. Len(a) = at - 1 /\ Len(a) + 1 = at
                BY <2>3, <3>2
            <4>2. Len(<<Durable(n)>>) = 1 /\ <<Durable(n)>>[1] = Durable(n)
                OBVIOUS
            <4>3. /\ c \in Seq(RowsTo(k)) /\ Len(c) = Len(a) + 1
                  /\ \A i \in 1..Len(a) : c[i] = a[i]
                  /\ \A i \in 1..Len(<<Durable(n)>>) : c[Len(a) + i] = <<Durable(n)>>[i]
                BY <3>2, <3>3, <4>2, ConcatIs
            <4>4. c[Len(a) + 1] = Durable(n)
                BY <4>2, <4>3
            <4> HIDE DEF c
            <4> QED BY <4>1, <4>3, <4>4
        <3> HIDE DEF c
        <3> DEFINE d == c \o b
        <3>5. /\ d \in Seq(RowsTo(k)) /\ Len(d) = l + 1
              /\ \A i \in 1..at : d[i] = c[i]
              /\ \A i \in 1..(l - at + 1) : d[at + i] = b[i]
            <4>1. Len(c) + Len(b) = l + 1
                BY <1>1, <2>3, <3>2, <3>4
            <4>2. /\ d \in Seq(RowsTo(k)) /\ Len(d) = Len(c) + Len(b)
                  /\ \A i \in 1..Len(c) : d[i] = c[i]
                  /\ \A i \in 1..Len(b) : d[Len(c) + i] = b[i]
                <5>1. c \in Seq(RowsTo(k)) /\ b \in Seq(RowsTo(k))
                    BY <3>2, <3>4
                <5> QED BY <5>1, ConcatIs
            <4>3. Len(c) = at /\ Len(b) = l - at + 1
                BY <3>2, <3>4
            <4> HIDE DEF d
            <4> QED BY <4>1, <4>2, <4>3
        <3>6. I = d
            BY <3>1 DEF c, d
        <3> HIDE DEF d
        <3>7. ASSUME NEW i \in at..l PROVE I[i + 1] = rows[i]
            <4>1. i - at + 1 \in 1..(l - at + 1) /\ at + (i - at + 1) = i + 1 /\ at + (i - at + 1) - 1 = i
                BY <1>1, <2>3
            <4>2. d[at + (i - at + 1)] = b[i - at + 1] /\ b[i - at + 1] = rows[at + (i - at + 1) - 1]
                BY <3>2, <3>5, <4>1
            <4> QED BY <3>6, <4>1, <4>2
        <3>8. ASSUME NEW i \in 1..(at - 1) PROVE I[i] = rows[i]
            BY <2>3, <3>2, <3>4, <3>5, <3>6, <3>8
        <3>9. I[at] = Durable(n)
            BY <2>3, <3>4, <3>5, <3>6
        <3>10. I \in Seq(RowsTo(k)) /\ DOMAIN I = 1..(l + 1)
            BY <3>5, <3>6
        <3> QED BY <3>7, <3>8, <3>9, <3>10
    <2> HIDE DEF I, l
    <2>5. ASSUME NEW m PROVE ShownIn(I, m) <=> ShownIn(rows, m) \/ Durable(n) = Durable(m)
        <3>1. ASSUME NEW i \in DOMAIN I, I[i] = Durable(m)
              PROVE  ShownIn(rows, m) \/ Durable(n) = Durable(m)
            <4>1. i = at \/ i \in 1..(at - 1) \/ (i - 1 \in at..l /\ (i - 1) + 1 = i)
                BY <1>1, <2>3, <2>4
            <4>2. CASE i = at
                BY <2>4, <3>1, <4>2
            <4>3. CASE i \in 1..(at - 1)
                <5>1. i \in DOMAIN rows
                    BY <1>1, <2>3, <4>3
                <5> QED BY <2>4, <3>1, <4>3, <5>1 DEF ShownIn
            <4>4. CASE i - 1 \in at..l /\ (i - 1) + 1 = i
                <5>1. i - 1 \in DOMAIN rows
                    BY <1>1, <2>3, <4>4
                <5>2. rows[i - 1] = Durable(m)
                    BY <2>4, <3>1, <4>4
                <5> QED BY <5>1, <5>2 DEF ShownIn
            <4> QED BY <4>1, <4>2, <4>3, <4>4
        <3>2. ASSUME NEW i \in DOMAIN rows, rows[i] = Durable(m)
              PROVE  ShownIn(I, m)
            <4>1. i \in 1..(at - 1) \/ i \in at..l
                BY <1>1, <2>3
            <4>2. CASE i \in 1..(at - 1)
                <5>1. i \in DOMAIN I
                    BY <1>1, <2>3, <2>4, <4>2
                <5> QED BY <2>4, <3>2, <4>2, <5>1 DEF ShownIn
            <4>3. CASE i \in at..l
                <5>1. i + 1 \in DOMAIN I
                    BY <1>1, <2>3, <2>4, <4>3
                <5> QED BY <2>4, <3>2, <4>3, <5>1 DEF ShownIn
            <4> QED BY <4>1, <4>2, <4>3
        <3>3. ASSUME Durable(n) = Durable(m) PROVE ShownIn(I, m)
            <4>1. at \in DOMAIN I
                BY <1>1, <2>3, <2>4
            <4> QED BY <2>4, <3>3, <4>1 DEF ShownIn
        <3> QED BY <3>1, <3>2, <3>3 DEF ShownIn
    <2> QED BY <1>2, <1>3, <1>6, <2>4, <2>5 DEF I
<1> QED BY <1>5, <1>6

-----------------------------------------------------------------------------
(* What the client makes of an event and of a frame. *)

(* What holds of the bounds. *)
LEMMA Bounds ==
    /\ MaxSteps \in Nat /\ MaxAttempts \in Nat /\ MaxChunks \in Nat
    /\ MaxLives \in Nat /\ MaxBacklog \in Nat /\ MaxTwists \in Nat
  BY BoundsAssumption

(* No attempt is an attempt, and an event a row. *)
LEMMA Plainly ==
    ASSUME Len(log) \in Nat
    PROVE  /\ NoAttempt \in Attempts /\ NoAttempt.id = 0
           /\ \A k \in Nat : \A n \in 0..k : Durable(n) \in RowsTo(k)
           /\ \A n : Durable(n).event = n /\ Durable(n).id = 0
           /\ \A m, n : Durable(m) = Durable(n) <=> m = n
           /\ \A k \in Nat : RowsTo(k) \subseteq RowsTo(k + 1)
<1>1. NoAttempt \in Attempts /\ NoAttempt.id = 0
    BY Bounds DEF NoAttempt, Attempts
<1>2. \A k \in Nat : \A n \in 0..k : Durable(n) \in RowsTo(k)
    BY Bounds DEF Durable, RowsTo
<1>3. \A n : Durable(n).event = n /\ Durable(n).id = 0
    BY DEF Durable
<1>4. \A m, n : Durable(m) = Durable(n) <=> m = n
    BY <1>3
<1>5. \A k \in Nat : RowsTo(k) \subseteq RowsTo(k + 1)
    BY DEF RowsTo
<1> QED BY <1>1, <1>2, <1>3, <1>4, <1>5

(* The fields of a client, and that they are all there is. *)
LEMMA ClientFields ==
    ASSUME NEW k \in Nat, NEW c \in ClientsTo(k)
    PROVE  /\ c.rev \in Nat /\ c.active \in Attempts /\ c.retained \in Attempts
           /\ c.pending \in SUBSET (1..k) /\ c.published \in SUBSET (1..k) /\ c.cursor = k
           /\ c.restart \in BOOLEAN /\ c.rows \in Seq(RowsTo(k))
           /\ \A i \in DOMAIN c.rows : c.rows[i] \in RowsTo(k) /\ c.rows[i].event <= k
<1>1. /\ c.rev \in Nat /\ c.active \in Attempts /\ c.retained \in Attempts
      /\ c.pending \in SUBSET (1..k) /\ c.published \in SUBSET (1..k) /\ c.cursor = k
      /\ c.restart \in BOOLEAN /\ c.rows \in Seq(RowsTo(k))
    BY DEF ClientsTo
<1>2. \A i \in DOMAIN c.rows : c.rows[i] \in RowsTo(k)
    BY <1>1
<1>3. \A r \in RowsTo(k) : r.event <= k
    BY DEF RowsTo
<1> QED BY <1>1, <1>2, <1>3

\* What a step of the fold keeps.
SameButRows(c, d) == d.rev = c.rev /\ d.active = c.active /\ d.pending = c.pending

(* A published event is shown, beside what was. *)
LEMMA PublishKeeps ==
    ASSUME Len(log) \in Nat, NEW k \in Nat, NEW c \in ClientsTo(k), NEW n \in 1..k
    PROVE  /\ Publish(c, n) \in ClientsTo(k) /\ SameButRows(c, Publish(c, n))
           /\ \A m : ShownIn(Publish(c, n).rows, m) <=> ShownIn(c.rows, m) \/ m = n
           /\ Sorted(c.rows) /\ (\A i \in DOMAIN c.rows : c.rows[i].event < n)
                  => Sorted(Publish(c, n).rows)
<1> DEFINE p == [c EXCEPT !.published = @ \cup {n}, !.rows = Append(@, Durable(n))]
           A == Append(c.rows, Durable(n))
           W == Without(A, c.retained.id)
<1>1. /\ c.rows \in Seq(RowsTo(k)) /\ Durable(n) \in RowsTo(k) /\ c.published \in SUBSET (1..k)
      /\ \A i \in DOMAIN c.rows : c.rows[i] \in RowsTo(k)
    BY ClientFields, Plainly
<1>2. /\ A \in Seq(RowsTo(k)) /\ \A m : ShownIn(A, m) <=> ShownIn(c.rows, m) \/ m = n
      /\ Sorted(c.rows) /\ (\A i \in DOMAIN c.rows : c.rows[i].event < n) => Sorted(A)
    <2>1. /\ A \in Seq(RowsTo(k))
          /\ \A m : ShownIn(A, m) <=> ShownIn(c.rows, m) \/ Durable(n) = Durable(m)
          /\ /\ Sorted(c.rows)
             /\ \A i \in DOMAIN c.rows :
                    c.rows[i].event <= Durable(n).event /\ (Durable(n).id = 0 => c.rows[i].event < Durable(n).event)
             => Sorted(A)
        BY <1>1, AppendedRow
    <2>2. Durable(n).event = n /\ Durable(n).id = 0 /\ \A m : Durable(n) = Durable(m) <=> m = n
        BY Plainly
    <2>3. ASSUME \A i \in DOMAIN c.rows : c.rows[i].event < n
          PROVE  \A i \in DOMAIN c.rows : c.rows[i].event <= n
        <3>1. \A r \in RowsTo(k) : r.event \in Nat
            BY DEF RowsTo
        <3> QED BY <1>1, <2>3, <3>1
    <2> HIDE DEF A
    <2> QED BY <2>1, <2>2, <2>3
<1>3. p \in ClientsTo(k) /\ SameButRows(c, p) /\ p.rows = A
    <2> HIDE DEF A
    <2>1. p = [c EXCEPT !.published = @ \cup {n}, !.rows = A]
        BY DEF A
    <2>2. c.published \cup {n} \in SUBSET (1..k)
        BY <1>1
    <2> QED BY <1>2, <2>1, <2>2 DEF ClientsTo, SameButRows
<1>4. CASE c.retained.id # 0 /\ log[n].type = "end" /\ log[n].step = c.retained.step
    <2> DEFINE q == [p EXCEPT !.rows = Without(@, c.retained.id), !.retained = NoAttempt]
    <2>1. Publish(c, n) = q
        BY <1>4 DEF Publish
    <2>2. /\ W \in Seq(RowsTo(k)) /\ \A m : ShownIn(W, m) <=> ShownIn(A, m)
          /\ Sorted(A) => Sorted(W)
        <3> HIDE DEF A
        <3> QED BY <1>2, <1>4, WithoutRows
    <2>3. q = [p EXCEPT !.rows = W, !.retained = NoAttempt]
        BY <1>3
    <2> HIDE DEF p, W, A
    <2>4. q \in ClientsTo(k) /\ SameButRows(p, q) /\ q.rows = W
        <3>1. NoAttempt \in Attempts
            BY Plainly
        <3> QED BY <1>3, <2>2, <2>3, <3>1 DEF ClientsTo, SameButRows
    <2>5. SameButRows(c, q)
        BY <1>3, <2>4 DEF SameButRows
    <2> HIDE DEF q
    <2> QED BY <1>2, <2>1, <2>2, <2>4, <2>5
<1>5. CASE ~(c.retained.id # 0 /\ log[n].type = "end" /\ log[n].step = c.retained.step)
    <2>1. Publish(c, n) = p
        BY <1>5 DEF Publish
    <2> HIDE DEF p, A
    <2> QED BY <1>2, <1>3, <2>1
<1> QED BY <1>4, <1>5

(* The cursor moves on. *)
LEMMA MoveOn ==
    ASSUME Len(log) \in Nat, NEW k \in Nat, NEW c \in ClientsTo(k)
    PROVE  /\ [c EXCEPT !.cursor = k + 1] \in ClientsTo(k + 1)
           /\ SameButRows(c, [c EXCEPT !.cursor = k + 1])
           /\ [c EXCEPT !.cursor = k + 1].rows = c.rows
           /\ ~ShownIn(c.rows, k + 1) /\ k + 1 \notin c.pending
<1>1. c.rows \in Seq(RowsTo(k + 1))
    <2>1. RowsTo(k) \subseteq RowsTo(k + 1)
        BY Plainly
    <2>2. c.rows \in Seq(RowsTo(k))
        BY ClientFields
    <2> HIDE DEF RowsTo
    <2> QED BY <2>1, <2>2
<1>2. c.pending \in SUBSET (1..(k + 1)) /\ c.published \in SUBSET (1..(k + 1)) /\ k + 1 \notin c.pending
    BY ClientFields
<1>3. ~ShownIn(c.rows, k + 1)
    <2>1. \A i \in DOMAIN c.rows : c.rows[i].event <= k
        BY ClientFields
    <2>2. Durable(k + 1).event = k + 1
        BY Plainly
    <2>3. ~(k + 1 <= k)
        OBVIOUS
    <2> QED BY <2>1, <2>2, <2>3 DEF ShownIn
<1>4. [c EXCEPT !.cursor = k + 1] \in ClientsTo(k + 1)
    BY <1>1, <1>2 DEF ClientsTo
<1>5. /\ SameButRows(c, [c EXCEPT !.cursor = k + 1])
      /\ [c EXCEPT !.cursor = k + 1].rows = c.rows
    BY DEF ClientsTo, SameButRows
<1> QED BY <1>2, <1>3, <1>4, <1>5

(* An event is held back when it settles the attempt that streams, and shown
   otherwise. *)
LEMMA DurableKeeps ==
    ASSUME Len(log) \in Nat, NEW k \in Nat, NEW c \in ClientsTo(k), Whole(c)
    PROVE  LET d == AcceptDurable(c, k + 1)
           IN  /\ d \in ClientsTo(k + 1) /\ Whole(d) /\ d.rev = c.rev /\ d.active = c.active
               /\ Settles(k + 1, c.active) => d.pending = c.pending \cup {k + 1} /\ d.rows = c.rows
               /\ ~Settles(k + 1, c.active) =>
                      d.pending = c.pending /\ (Sorted(c.rows) => Sorted(d.rows))
<1> DEFINE e == [c EXCEPT !.cursor = k + 1]
           d == AcceptDurable(c, k + 1)
<1>1. /\ e \in ClientsTo(k + 1) /\ SameButRows(c, e) /\ e.rows = c.rows
      /\ ~ShownIn(c.rows, k + 1) /\ k + 1 \notin c.pending
    BY MoveOn
<1>2. /\ c.cursor = k /\ \A i \in DOMAIN c.rows : c.rows[i] \in RowsTo(k) /\ c.rows[i].event <= k
    BY ClientFields
<1>3. \A n \in 1..(k + 1) : n \in 1..k \/ n = k + 1
    OBVIOUS
<1>4. CASE Settles(k + 1, c.active)
    <2>1. d = [e EXCEPT !.pending = @ \cup {k + 1}]
        BY <1>1, <1>4 DEF AcceptDurable
    <2> HIDE DEF e, d
    <2>2. e.pending \cup {k + 1} \in SUBSET (1..(k + 1))
        BY <1>1 DEF ClientsTo
    <2>3. /\ d \in ClientsTo(k + 1) /\ d.rev = e.rev /\ d.active = e.active /\ d.rows = e.rows
          /\ d.pending = e.pending \cup {k + 1} /\ d.cursor = k + 1
        BY <1>1, <2>1, <2>2 DEF ClientsTo
    <2>4. Whole(d)
        BY <1>1, <1>2, <1>3, <2>3 DEF Whole, SameButRows
    <2> QED BY <1>1, <1>4, <2>3, <2>4 DEF SameButRows, d
<1>5. CASE ~Settles(k + 1, c.active)
    <2>1. d = Publish(e, k + 1)
        BY <1>5 DEF AcceptDurable
    <2> HIDE DEF e, d
    <2>2. k + 1 \in Nat /\ k + 1 \in 1..(k + 1)
        OBVIOUS
    <2>3. /\ d \in ClientsTo(k + 1) /\ SameButRows(e, d)
          /\ \A m : ShownIn(d.rows, m) <=> ShownIn(e.rows, m) \/ m = k + 1
          /\ Sorted(e.rows) /\ (\A i \in DOMAIN e.rows : e.rows[i].event < k + 1) => Sorted(d.rows)
        <3>1. e \in ClientsTo(k + 1)
            BY <1>1
        <3> QED BY <2>1, <2>2, <3>1, PublishKeeps
    <2>4. \A i \in DOMAIN e.rows : e.rows[i].event < k + 1
        <3>1. \A r \in RowsTo(k) : r.event <= k => r.event < k + 1
            BY DEF RowsTo
        <3> QED BY <1>1, <1>2, <3>1
    <2>5. d.cursor = k + 1
        BY <2>2, <2>3, ClientFields
    <2>6. Whole(d)
        BY <1>1, <1>2, <1>3, <2>3, <2>5 DEF Whole, SameButRows
    <2> QED BY <1>1, <1>5, <2>3, <2>4, <2>6 DEF SameButRows, d
<1> QED BY <1>4, <1>5

\* f[n] is the client c with the events from first to n.
AcceptedTo(c, first, last, f) ==
    /\ f = [n \in first - 1 .. last |-> f[n]] /\ f[first - 1] = c
    /\ \A n \in first..last : f[n] = AcceptDurable(f[n - 1], n)

(* Such a function exists. *)
LEMMA AcceptedExists ==
    ASSUME NEW c, NEW first \in Int, NEW last \in Int, first - 1 <= last
    PROVE  \E f : AcceptedTo(c, first, last, f)
<1> DEFINE b == first - 1
           T == {m \in b..last : \E f : AcceptedTo(c, first, m, f)}
<1>1. b \in T
    <2> DEFINE f == [n \in first - 1 .. b |-> c]
    <2>1. AcceptedTo(c, first, b, f)
        BY DEF AcceptedTo
    <2>2. b \in b..last
        OBVIOUS
    <2> HIDE DEF f
    <2> QED BY <2>1, <2>2
<1>2. ASSUME NEW m \in b..(last - 1), m \in T PROVE m + 1 \in T
    <2>1. PICK f : AcceptedTo(c, first, m, f)
        BY <1>2
    <2> DEFINE next == AcceptDurable(f[m], m + 1)
               g == [n \in first - 1 .. m + 1 |-> IF n = m + 1 THEN next ELSE f[n]]
    <2>2. /\ g = [n \in first - 1 .. m + 1 |-> g[n]]
          /\ g[m + 1] = next /\ \A n \in first - 1 .. m : g[n] = f[n]
        OBVIOUS
    <2> HIDE DEF g
    <2>3. /\ \A n \in first..(m + 1) :
                 n = m + 1 \/ (n \in first..m /\ n \in first - 1 .. m /\ n - 1 \in first - 1 .. m)
          /\ first - 1 \in first - 1 .. m /\ m \in first - 1 .. m /\ (m + 1) - 1 = m
        OBVIOUS
    <2>4. g[first - 1] = c /\ g[m] = f[m]
        BY <2>1, <2>2, <2>3 DEF AcceptedTo
    <2>5. ASSUME NEW n \in first..(m + 1)
          PROVE  g[n] = AcceptDurable(g[n - 1], n)
        <3>1. CASE n = m + 1
            BY <2>2, <2>3, <2>4, <3>1
        <3>2. CASE n \in first..m /\ n \in first - 1 .. m /\ n - 1 \in first - 1 .. m
            BY <2>1, <2>2, <3>2 DEF AcceptedTo
        <3> QED BY <2>3, <3>1, <3>2
    <2>6. AcceptedTo(c, first, m + 1, g)
        BY <2>2, <2>4, <2>5 DEF AcceptedTo
    <2>7. m + 1 \in b..last
        OBVIOUS
    <2> QED BY <2>6, <2>7
<1>3. T = b..last
    <2>1. T \in SUBSET (b..last) /\ b \in Int
        OBVIOUS
    <2> HIDE DEF T
    <2> QED BY <1>1, <1>2, <2>1, UpTo
<1>4. last \in T
    <2> HIDE DEF T
    <2> QED BY <1>3
<1> QED BY <1>4

(* AcceptAll is the last of them. *)
LEMMA AcceptAllIs ==
    ASSUME NEW c, NEW first \in Int, NEW last \in Int, first - 1 <= last
    PROVE  \E f : AcceptedTo(c, first, last, f) /\ AcceptAll(c, first, last) = f[last]
<1> DEFINE step(f) == [n \in first - 1 .. last |->
               IF n = first - 1 THEN c ELSE AcceptDurable(f[n - 1], n)]
           F == CHOOSE f : f = step(f)
<1>1. PICK g : AcceptedTo(c, first, last, g)
    BY AcceptedExists
<1>2. g = step(g)
    <2>1. ASSUME NEW n \in first - 1 .. last PROVE g[n] = step(g)[n]
        <3>1. CASE n = first - 1
            BY <3>1, <1>1 DEF AcceptedTo
        <3>2. CASE n \in first..last
            BY <3>2, <1>1 DEF AcceptedTo
        <3> QED BY <3>1, <3>2
    <2>2. g = [n \in first - 1 .. last |-> g[n]]
        BY <1>1 DEF AcceptedTo
    <2>3. step(g) = [n \in first - 1 .. last |-> step(g)[n]]
        OBVIOUS
    <2> HIDE DEF step
    <2>4. [n \in first - 1 .. last |-> g[n]] = [n \in first - 1 .. last |-> step(g)[n]]
        BY <2>1
    <2> QED BY <2>2, <2>3, <2>4
<1>3. F = step(F)
    <2> HIDE DEF step
    <2> QED BY <1>2
<1>4. AcceptAll(c, first, last) = F[last]
    BY DEF AcceptAll
<1> HIDE DEF F
<1>5. F = [n \in first - 1 .. last |-> F[n]]
    BY <1>3
<1>6. F[first - 1] = c
    <2>1. first - 1 \in first - 1 .. last
        OBVIOUS
    <2> QED BY <1>3, <2>1
<1>7. ASSUME NEW n \in first..last PROVE F[n] = AcceptDurable(F[n - 1], n)
    <2>1. n \in first - 1 .. last /\ n # first - 1
        OBVIOUS
    <2> QED BY <1>3, <2>1
<1>8. AcceptedTo(c, first, last, F)
    BY <1>5, <1>6, <1>7 DEF AcceptedTo
<1> QED BY <1>4, <1>8

(* The events of an item: the client comes to their end with a whole window,
   and in order when none of them settles the attempt that streams. *)
LEMMA AllKept ==
    ASSUME Len(log) \in Nat, NEW k \in Nat, NEW c \in ClientsTo(k), Whole(c),
           NEW last \in Nat, k <= last
    PROVE  LET d == AcceptAll(c, k + 1, last)
           IN  /\ d \in ClientsTo(last) /\ Whole(d) /\ d.rev = c.rev /\ d.active = c.active
               /\ (\A n \in k + 1 .. last : ~Settles(n, c.active)) =>
                      d.pending = c.pending /\ (Sorted(c.rows) => Sorted(d.rows))
<1> DEFINE Quiet == \A n \in k + 1 .. last : ~Settles(n, c.active)
           Good(d, n) ==
               /\ d \in ClientsTo(n) /\ Whole(d) /\ d.rev = c.rev /\ d.active = c.active
               /\ Quiet => d.pending = c.pending /\ (Sorted(c.rows) => Sorted(d.rows))
<1>1. PICK f : AcceptedTo(c, k + 1, last, f) /\ AcceptAll(c, k + 1, last) = f[last]
    <2>1. k + 1 \in Int /\ last \in Int /\ (k + 1) - 1 <= last
        OBVIOUS
    <2> QED BY <2>1, AcceptAllIs
<1> DEFINE T == {n \in k..last : Good(f[n], n)}
<1>2. k \in T
    <2>1. f[k] = c /\ k \in k..last
        <3>1. (k + 1) - 1 = k
            OBVIOUS
        <3> QED BY <1>1, <3>1 DEF AcceptedTo
    <2> QED BY <2>1
<1>3. ASSUME NEW n \in k..(last - 1), n \in T PROVE n + 1 \in T
    <2>1. n \in Nat /\ n + 1 \in k..last /\ n + 1 \in k + 1 .. last /\ (n + 1) - 1 = n
        OBVIOUS
    <2>2. f[n] \in ClientsTo(n) /\ Whole(f[n]) /\ Good(f[n], n)
        BY <1>3
    <2>3. f[n + 1] = AcceptDurable(f[n], n + 1)
        BY <1>1, <2>1 DEF AcceptedTo
    <2> HIDE DEF T
    <2>4. /\ f[n + 1] \in ClientsTo(n + 1) /\ Whole(f[n + 1])
          /\ f[n + 1].rev = f[n].rev /\ f[n + 1].active = f[n].active
          /\ ~Settles(n + 1, f[n].active) =>
                 f[n + 1].pending = f[n].pending /\ (Sorted(f[n].rows) => Sorted(f[n + 1].rows))
        BY <2>1, <2>2, <2>3, DurableKeeps
    <2>5. Quiet => ~Settles(n + 1, f[n].active)
        BY <2>1, <2>2
    <2>6. Good(f[n + 1], n + 1)
        <3>1. f[n + 1].rev = c.rev /\ f[n + 1].active = c.active
            BY <2>2, <2>4
        <3>2. Quiet => f[n + 1].pending = c.pending /\ (Sorted(c.rows) => Sorted(f[n + 1].rows))
            BY <2>2, <2>4, <2>5
        <3> QED BY <2>4, <3>1, <3>2
    <2> HIDE DEF Good
    <2> QED BY <2>1, <2>6 DEF T
<1>4. T = k..last
    <2>1. T \in SUBSET (k..last)
        OBVIOUS
    <2> HIDE DEF T
    <2> QED BY <1>2, <1>3, <2>1, UpTo
<1>5. last \in T
    <2> HIDE DEF T
    <2> QED BY <1>4
<1>6. Good(f[last], last)
    BY <1>5
<1> QED BY <1>1, <1>6

(* The only event of an item that settles the attempt is held back. *)
LEMMA OneKept ==
    ASSUME NEW k \in Nat, NEW c
    PROVE  AcceptAll(c, k + 1, k + 1) = AcceptDurable(c, k + 1)
<1>1. k + 1 \in Int /\ (k + 1) - 1 = k /\ k <= k + 1 /\ k + 1 \in k + 1 .. k + 1
    OBVIOUS
<1>2. PICK f : AcceptedTo(c, k + 1, k + 1, f) /\ AcceptAll(c, k + 1, k + 1) = f[k + 1]
    BY <1>1, AcceptAllIs
<1> QED BY <1>1, <1>2 DEF AcceptedTo

(* A start names the attempt, if no other is about. *)
LEMMA StartKeeps ==
    ASSUME Len(log) \in Nat, NEW k \in Nat, NEW c \in ClientsTo(k),
           NEW f \in Frames, f.type = "start"
    PROVE  LET d == AcceptStart(c, f)
           IN  /\ d \in ClientsTo(k) /\ d.rev = c.rev /\ d.rows = c.rows /\ d.pending = c.pending
               /\ \/ d.active = c.active
                  \/ /\ c.active.id = 0 /\ c.pending = {}
                     /\ d.active.id = f.id /\ d.active.after = f.after
<1> DEFINE a == [id |-> f.id, step |-> f.step, after |-> f.after, next |-> 0]
<1>1. a \in Attempts /\ a.id = f.id /\ a.after = f.after
    BY Bounds DEF Frames, Attempts
<1> HIDE DEF a
<1>2. CASE c.active.id # 0 \/ c.retained.id # 0 \/ c.pending # {}
    BY <1>2 DEF AcceptStart, Rebaseline, ClientsTo
<1>3. CASE ~(c.active.id # 0 \/ c.retained.id # 0 \/ c.pending # {})
    <2>1. AcceptStart(c, f) = [c EXCEPT !.active = a]
        BY <1>3 DEF AcceptStart, a
    <2> QED BY <1>1, <1>3, <2>1 DEF ClientsTo
<1> QED BY <1>2, <1>3

(* A chunk is a row behind all others. *)
LEMMA ChunkKeeps ==
    ASSUME Len(log) \in Nat, NEW k \in Nat, NEW c \in ClientsTo(k), Whole(c),
           NEW f \in Frames, f.type = "chunk"
    PROVE  LET d == AcceptChunk(c, f)
           IN  /\ d \in ClientsTo(k) /\ Whole(d) /\ d.rev = c.rev /\ d.pending = c.pending
               /\ d.active.id = c.active.id /\ d.active.after = c.active.after
               /\ Sorted(c.rows) => Sorted(d.rows)
<1>1. f.id \in 1..MaxAttempts /\ f.index \in 1..MaxChunks
    BY DEF Frames
<1>2. CASE c.active.id # f.id
    BY <1>2 DEF AcceptChunk
<1>3. CASE c.active.id = f.id /\ f.index # c.active.next + 1
    BY <1>3 DEF AcceptChunk, Rebaseline, ClientsTo, Whole
<1>4. CASE c.active.id = f.id /\ f.index = c.active.next + 1
    <2> DEFINE r == Chunk(c, c.active, f.index)
               A == Append(c.rows, r)
               b == [c.active EXCEPT !.next = f.index]
               d == AcceptChunk(c, f)
    <2>0. /\ c.active \in Attempts /\ c.cursor = k /\ c.rows \in Seq(RowsTo(k))
          /\ \A i \in DOMAIN c.rows : c.rows[i].event <= k
        BY ClientFields
    <2>1. r \in RowsTo(k) /\ r.event = k /\ r.id = f.id /\ r.id # 0
        <3>1. c.active.step \in 0..MaxSteps /\ f.id \in 0..MaxAttempts /\ f.index \in 0..MaxChunks /\ f.id # 0
            BY <1>1, <2>0, Bounds, SMTT(30) DEF Attempts
        <3>2. r = [event |-> k, id |-> f.id, step |-> c.active.step, index |-> f.index]
            BY <1>4, <2>0 DEF Chunk
        <3> QED BY <3>1, <3>2 DEF RowsTo
    <2>2. b \in Attempts /\ b.id = c.active.id /\ b.after = c.active.after
        <3>1. f.index \in 0..MaxChunks
            BY <1>1, Bounds
        <3> QED BY <2>0, <3>1 DEF Attempts
    <2>3. d = [c EXCEPT !.active = b, !.rows = A]
        BY <1>4 DEF AcceptChunk, ClientsTo
    <2> HIDE DEF r, b, d
    <2>4. /\ A \in Seq(RowsTo(k)) /\ \A n : ShownIn(A, n) <=> ShownIn(c.rows, n)
          /\ Sorted(c.rows) => Sorted(A)
        <3>1. \A n : Durable(n) # r
            BY <2>1, Plainly
        <3>2. \A i \in DOMAIN c.rows : c.rows[i].event <= r.event /\ (r.id = 0 => c.rows[i].event < r.event)
            BY <2>0, <2>1
        <3> QED BY <2>0, <2>1, <3>1, <3>2, AppendedRow
    <2> HIDE DEF A
    <2>5. /\ d \in ClientsTo(k) /\ d.rev = c.rev /\ d.pending = c.pending /\ d.active = b
          /\ d.rows = A /\ d.cursor = c.cursor
        BY <2>2, <2>3, <2>4 DEF ClientsTo
    <2>6. Whole(d)
        BY <2>4, <2>5 DEF Whole
    <2> QED BY <2>2, <2>4, <2>5, <2>6 DEF d
<1> QED BY <1>2, <1>3, <1>4

(* An event that is not held back any more is shown. *)
LEMMA Released ==
    ASSUME NEW c, Whole(c), NEW d, NEW n, n \in c.pending, d.cursor = c.cursor,
           d.pending = c.pending \ {n},
           \A m : ShownIn(d.rows, m) <=> ShownIn(c.rows, m) \/ m = n
    PROVE  Whole(d)
  BY DEF Whole

(* The end of an attempt takes its rows away or leaves them to the step, and
   shows its settlement. *)
LEMMA EndKeeps ==
    ASSUME Len(log) \in Nat, NEW k \in Nat, NEW c \in ClientsTo(k), Whole(c),
           NEW f \in Frames, f.type = "end"
    PROVE  LET d == AcceptEnd(c, f)
           IN  /\ d \in ClientsTo(k) /\ Whole(d) /\ d.rev = c.rev
               /\ c.active.id # f.id => d = c
               /\ c.active.id = f.id =>
                      d.active = NoAttempt /\ (Sorted(c.rows) /\ OnlyLast(c) => Sorted(d.rows))
<1> DEFINE a == c.active
           e == [c EXCEPT !.active = NoAttempt]
           d == AcceptEnd(c, f)
<1>1. /\ c.active \in Attempts /\ c.cursor = k /\ c.rows \in Seq(RowsTo(k))
      /\ c.pending \in SUBSET (1..k) /\ c.published \in SUBSET (1..k) /\ f.id # 0
      /\ \A i \in DOMAIN c.rows : c.rows[i].event <= k
    BY ClientFields DEF Frames
<1>2. /\ e \in ClientsTo(k) /\ e.rev = c.rev /\ e.active = NoAttempt /\ e.pending = c.pending
      /\ e.rows = c.rows /\ e.published = c.published /\ e.cursor = c.cursor
    BY Plainly DEF ClientsTo
<1>3. /\ Rebaseline(e) \in ClientsTo(k) /\ SameButRows(e, Rebaseline(e))
      /\ Rebaseline(e).rows = e.rows /\ Rebaseline(e).cursor = e.cursor
    <2> HIDE DEF e
    <2> QED BY <1>2 DEF Rebaseline, ClientsTo, SameButRows
<1>4. Whole(e) /\ Whole(Rebaseline(e))
    <2> HIDE DEF e
    <2> QED BY <1>2, <1>3 DEF Whole, SameButRows
<1>5. CASE a.id # f.id
    BY <1>5 DEF AcceptEnd
<1>6. CASE a.id = f.id /\ d = Rebaseline(e)
    <2> HIDE DEF e, d
    <2> QED BY <1>2, <1>3, <1>4, <1>6 DEF SameButRows, d
<1>7. CASE a.id = f.id /\ d = e
    <2> HIDE DEF e, d
    <2> QED BY <1>2, <1>4, <1>7 DEF d
<1> DEFINE W == Without(c.rows, a.id)
<1>8. /\ a.id = f.id => W \in Seq(RowsTo(k))
      /\ a.id = f.id => \A n : ShownIn(W, n) <=> ShownIn(c.rows, n)
      /\ a.id = f.id => (Sorted(c.rows) => Sorted(W))
      /\ a.id = f.id => \A m \in Nat : (\A i \in DOMAIN c.rows : c.rows[i].event < m) =>
             \A i \in DOMAIN W : W[i].event < m
    BY <1>1, WithoutRows
<1>9. CASE a.id = f.id /\ d = [e EXCEPT !.rows = Without(@, a.id)]
    <2>1. d = [e EXCEPT !.rows = W]
        BY <1>2, <1>9
    <2> HIDE DEF e, d, W
    <2>2. /\ d \in ClientsTo(k) /\ d.rev = e.rev /\ d.active = e.active /\ d.pending = e.pending
          /\ d.rows = W /\ d.cursor = e.cursor
        BY <1>2, <1>8, <1>9, <2>1 DEF ClientsTo
    <2>3. Whole(d)
        BY <1>2, <1>8, <1>9, <2>2 DEF Whole
    <2> QED BY <1>2, <1>8, <1>9, <2>2, <2>3 DEF d
<1> DEFINE g == [e EXCEPT !.pending = @ \ {f.seq}]
<1>10. /\ g \in ClientsTo(k) /\ g.rev = c.rev /\ g.active = NoAttempt
       /\ g.pending = c.pending \ {f.seq} /\ g.rows = c.rows /\ g.cursor = c.cursor
       /\ g.published = c.published
    <2>1. g = [e EXCEPT !.pending = c.pending \ {f.seq}]
        BY <1>2
    <2>2. c.pending \ {f.seq} \in SUBSET (1..k)
        BY <1>1
    <2> HIDE DEF e, g
    <2> QED BY <1>2, <2>1, <2>2 DEF ClientsTo
<1>11. ASSUME f.seq \in c.pending, Sorted(c.rows), OnlyLast(c)
       PROVE  f.seq = k /\ \A i \in DOMAIN c.rows : c.rows[i].event < f.seq
    BY <1>1, <1>11 DEF OnlyLast
<1>12. CASE /\ a.id = f.id /\ f.seq \in c.pending /\ log[f.seq].type = "message"
            /\ d = Publish([g EXCEPT !.retained = a], f.seq)
    <2> DEFINE h == [g EXCEPT !.retained = a]
    <2>1. /\ h \in ClientsTo(k) /\ SameButRows(g, h) /\ h.rows = c.rows /\ h.cursor = c.cursor
        <3> HIDE DEF e, g
        <3> QED BY <1>1, <1>10 DEF ClientsTo, SameButRows
    <2>2. f.seq \in 1..k /\ d = Publish(h, f.seq)
        BY <1>1, <1>12
    <2> HIDE DEF d, e, g, h
    <2>3. /\ d \in ClientsTo(k) /\ SameButRows(h, d)
          /\ \A m : ShownIn(d.rows, m) <=> ShownIn(h.rows, m) \/ m = f.seq
          /\ Sorted(h.rows) /\ (\A i \in DOMAIN h.rows : h.rows[i].event < f.seq) => Sorted(d.rows)
        BY <2>1, <2>2, PublishKeeps
    <2>4. d.cursor = c.cursor /\ d.pending = c.pending \ {f.seq} /\ d.rev = c.rev /\ d.active = NoAttempt
        <3>1. d.cursor = k
            BY <2>3, ClientFields
        <3> QED BY <1>1, <1>10, <2>1, <2>3, <3>1 DEF SameButRows
    <2>5. Whole(d)
        BY <1>12, <2>1, <2>3, <2>4, Released
    <2>6. Sorted(c.rows) /\ OnlyLast(c) => Sorted(d.rows)
        BY <1>11, <1>12, <2>1, <2>3
    <2> QED BY <1>12, <2>3, <2>4, <2>5, <2>6 DEF d
<1>13. CASE /\ a.id = f.id /\ f.seq \in c.pending
            /\ d = [g EXCEPT !.published = @ \cup {f.seq}, !.rows = Insert(Without(@, a.id), f.seq)]
    <2> DEFINE I == Insert(W, f.seq)
    <2>1. f.seq \in 1..k /\ f.seq \in Nat
        BY <1>1, <1>13
    <2>2. d = [g EXCEPT !.published = c.published \cup {f.seq}, !.rows = I]
        BY <1>10, <1>13
    <2>3. c.published \cup {f.seq} \in SUBSET (1..k)
        BY <1>1, <2>1
    <2> HIDE DEF d, e, g, W
    <2>4. /\ I \in Seq(RowsTo(k))
          /\ \A m : ShownIn(I, m) <=> ShownIn(W, m) \/ Durable(f.seq) = Durable(m)
          /\ (\A i \in DOMAIN W : W[i].event < f.seq) => I = Append(W, Durable(f.seq))
        <3>1. W \in Seq(RowsTo(k))
            BY <1>8, <1>13
        <3> QED BY <2>1, <3>1, InsertedRow, ZenonT(60)
    <2> HIDE DEF I
    <2>5. /\ d \in ClientsTo(k) /\ d.rev = c.rev /\ d.active = NoAttempt
          /\ d.pending = c.pending \ {f.seq} /\ d.rows = I /\ d.cursor = c.cursor
        BY <1>10, <2>2, <2>3, <2>4 DEF ClientsTo
    <2>6. \A m : ShownIn(d.rows, m) <=> ShownIn(c.rows, m) \/ m = f.seq
        <3>1. \A m : Durable(f.seq) = Durable(m) <=> m = f.seq
            BY Plainly
        <3> QED BY <1>8, <1>13, <2>4, <2>5, <3>1
    <2>7. Whole(d)
        BY <1>13, <2>5, <2>6, Released
    <2>8. ASSUME Sorted(c.rows), OnlyLast(c)
          PROVE  Sorted(d.rows)
        <3>1. \A i \in DOMAIN c.rows : c.rows[i].event < f.seq
            BY <1>11, <1>13, <2>8
        <3>2. Sorted(W) /\ \A i \in DOMAIN W : W[i].event < f.seq
            BY <1>8, <1>13, <2>1, <2>8, <3>1
        <3>3. /\ \A i \in DOMAIN W : W[i] \in RowsTo(k)
              /\ Durable(f.seq) \in RowsTo(k) /\ Durable(f.seq).event = f.seq
            <4>1. W \in Seq(RowsTo(k)) /\ f.seq \in 0..k
                BY <1>8, <1>13, <2>1
            <4>2. \A i \in DOMAIN W : W[i] \in RowsTo(k)
                BY <4>1
            <4> QED BY <4>1, <4>2, Plainly
        <3>4. \A i \in DOMAIN W : /\ W[i].event <= Durable(f.seq).event
                                  /\ Durable(f.seq).id = 0 => W[i].event < Durable(f.seq).event
            <4>1. \A r \in RowsTo(k) : r.event \in Nat
                BY DEF RowsTo
            <4> QED BY <2>1, <3>2, <3>3, <4>1
        <3>5. Sorted(Append(W, Durable(f.seq)))
            BY <1>8, <1>13, <3>2, <3>3, <3>4, AppendedRow
        <3> QED BY <2>4, <2>5, <3>2, <3>5
    <2> QED BY <1>13, <2>5, <2>7, <2>8 DEF d
<1> QED BY <1>2, <1>5, <1>6, <1>7, <1>9, <1>12, <1>13 DEF AcceptEnd

(* A frame moves the client to its revision. *)
LEMMA FrameKeeps ==
    ASSUME Len(log) \in Nat, NEW k \in Nat, NEW c \in ClientsTo(k), Whole(c), NEW f \in Frames
    PROVE  LET d == AcceptFrame(c, f)
           IN  /\ d \in ClientsTo(k) /\ Whole(d) /\ d.rev = f.rev
               /\ f.type = "start" =>
                      /\ d.rows = c.rows /\ d.pending = c.pending
                      /\ \/ d.active = c.active
                         \/ /\ c.active.id = 0 /\ c.pending = {}
                            /\ d.active.id = f.id /\ d.active.after = f.after
               /\ f.type = "chunk" =>
                      /\ d.pending = c.pending /\ d.active.id = c.active.id
                      /\ d.active.after = c.active.after /\ (Sorted(c.rows) => Sorted(d.rows))
               /\ f.type = "end" /\ c.active.id # f.id =>
                      d.active = c.active /\ d.pending = c.pending /\ d.rows = c.rows
               /\ f.type = "end" /\ c.active.id = f.id =>
                      d.active = NoAttempt /\ (Sorted(c.rows) /\ OnlyLast(c) => Sorted(d.rows))
<1> DEFINE e == [c EXCEPT !.rev = f.rev]
           d == AcceptFrame(c, f)
<1>1. f.type \in {"start", "chunk", "end"} /\ f.rev \in Nat
    BY DEF Frames
<1>2. /\ e \in ClientsTo(k) /\ e.rev = f.rev /\ e.active = c.active /\ e.pending = c.pending
      /\ e.rows = c.rows /\ e.cursor = c.cursor
    BY <1>1 DEF ClientsTo
<1> HIDE DEF e
<1>3. Whole(e) /\ (OnlyLast(c) <=> OnlyLast(e))
    BY <1>2 DEF Whole, OnlyLast
<1>4. CASE f.type = "start"
    <2>1. d = AcceptStart(e, f)
        BY <1>4 DEF AcceptFrame, e
    <2> HIDE DEF d
    <2>2. /\ d \in ClientsTo(k) /\ d.rev = e.rev /\ d.rows = e.rows /\ d.pending = e.pending
          /\ \/ d.active = e.active
             \/ /\ e.active.id = 0 /\ e.pending = {}
                /\ d.active.id = f.id /\ d.active.after = f.after
        BY <1>2, <1>4, <2>1, StartKeeps
    <2>3. d.cursor = e.cursor
        BY <1>2, <2>2, ClientFields
    <2>4. Whole(d)
        BY <1>3, <2>2, <2>3 DEF Whole
    <2> QED BY <1>2, <1>4, <2>2, <2>4 DEF d
<1>5. CASE f.type = "chunk"
    <2>1. d = AcceptChunk(e, f)
        BY <1>5 DEF AcceptFrame, e
    <2> HIDE DEF d
    <2>2. /\ d \in ClientsTo(k) /\ Whole(d) /\ d.rev = e.rev /\ d.pending = e.pending
          /\ d.active.id = e.active.id /\ d.active.after = e.active.after
          /\ Sorted(e.rows) => Sorted(d.rows)
        BY <1>2, <1>3, <1>5, <2>1, ChunkKeeps
    <2> QED BY <1>2, <1>5, <2>2 DEF d
<1>6. CASE f.type = "end"
    <2>1. d = AcceptEnd(e, f)
        BY <1>6 DEF AcceptFrame, e
    <2> HIDE DEF d
    <2>2. /\ d \in ClientsTo(k) /\ Whole(d) /\ d.rev = e.rev
          /\ e.active.id # f.id => d = e
          /\ e.active.id = f.id =>
                 d.active = NoAttempt /\ (Sorted(e.rows) /\ OnlyLast(e) => Sorted(d.rows))
        BY <1>2, <1>3, <1>6, <2>1, EndKeeps
    <2> QED BY <1>2, <1>3, <1>6, <2>2 DEF d
<1> QED BY <1>1, <1>4, <1>5, <1>6

-----------------------------------------------------------------------------
(* The queue, with an item more at its end, at its front or without its head. *)

(* An item ahead of a sequence. *)
LEMMA ConsIs ==
    ASSUME NEW S, NEW q \in Seq(S), NEW e \in S
    PROVE  /\ <<e>> \o q \in Seq(S) /\ Len(q) \in Nat /\ Len(<<e>> \o q) = Len(q) + 1
           /\ DOMAIN q = 1..Len(q) /\ DOMAIN (<<e>> \o q) = 1..(Len(q) + 1)
           /\ (<<e>> \o q)[1] = e
           /\ \A i \in 1..Len(q) : (<<e>> \o q)[i + 1] = q[i] /\ q[i] \in S
<1>1. <<e>> \in Seq(S) /\ Len(<<e>>) = 1 /\ <<e>>[1] = e
    OBVIOUS
<1>2. /\ <<e>> \o q \in Seq(S) /\ Len(q) \in Nat
      /\ Len(<<e>> \o q) = 1 + Len(q) /\ DOMAIN (<<e>> \o q) = 1..(1 + Len(q))
      /\ DOMAIN q = 1..Len(q)
      /\ \A i \in 1..1 : (<<e>> \o q)[i] = <<e>>[i]
      /\ \A i \in 1..Len(q) : (<<e>> \o q)[1 + i] = q[i]
    BY <1>1, ConcatIs
<1>3. \A i \in 1..Len(q) : q[i] \in S /\ (<<e>> \o q)[i + 1] = q[i]
    <2>1. \A i \in 1..Len(q) : 1 + i = i + 1
        BY <1>2
    <2>2. \A i \in 1..Len(q) : q[i] \in S
        OBVIOUS
    <2> QED BY <1>2, <2>1, <2>2
<1>4. (<<e>> \o q)[1] = e /\ 1 + Len(q) = Len(q) + 1
    BY <1>1, <1>2
<1> QED BY <1>2, <1>3, <1>4

(* What is behind the head. *)
LEMMA TailIs ==
    ASSUME NEW S, NEW q \in Seq(S), q # <<>>
    PROVE  /\ Tail(q) \in Seq(S) /\ Len(q) \in Nat /\ Len(q) >= 1 /\ Len(Tail(q)) = Len(q) - 1
           /\ DOMAIN q = 1..Len(q) /\ DOMAIN Tail(q) = 1..(Len(q) - 1)
           /\ Head(q) = q[1] /\ Head(q) \in S
           /\ \A i \in 1..(Len(q) - 1) : Tail(q)[i] = q[i + 1]
  OBVIOUS

(* An event at the end, of the next place or of a covered one. *)
LEMMA CoveredHeard ==
    ASSUME NEW S, NEW q \in Seq(S), NEW base \in Nat, NEW top \in Nat, Covered(q, base, top),
           NEW n \in 1..(top + 1), Heard(n) \in S
    PROVE  Covered(Append(q, Heard(n)), base, IF n = top + 1 THEN n ELSE top)
<1> DEFINE A == Append(q, Heard(n))
           l == Len(q)
<1>1. /\ A \in Seq(S) /\ l \in Nat /\ DOMAIN q = 1..l /\ DOMAIN A = 1..(l + 1)
      /\ A[l + 1] = Heard(n) /\ \A i \in 1..l : A[i] = q[i]
    BY AppendIs
<1>2. Heard(n).type = "event" /\ Heard(n).n = n /\ Covers(Heard(n), n)
    BY DEF Heard, Covers
<1> HIDE DEF A, l
<1>3. ASSUME NEW m \in base..top PROVE \E i \in DOMAIN A : i \in 1..l /\ Covers(A[i], m)
    <2>1. PICK i \in DOMAIN q : Covers(q[i], m)
        BY DEF Covered
    <2>2. i \in 1..l /\ i \in DOMAIN A
        BY <1>1
    <2> QED BY <1>1, <2>1, <2>2
<1>4. ASSUME NEW m \in base..(IF n = top + 1 THEN n ELSE top) PROVE \E i \in DOMAIN A : Covers(A[i], m)
    <2>1. m \in base..top \/ m = n
        OBVIOUS
    <2>2. l + 1 \in DOMAIN A
        BY <1>1
    <2> QED BY <1>1, <1>2, <1>3, <2>1, <2>2
<1>5. ASSUME NEW i \in DOMAIN A, A[i].type = "event", NEW m \in base..A[i].n - 1
      PROVE  \E j \in 1..i - 1 : Covers(A[j], m)
    <2>1. CASE i \in 1..l
        <3>1. i \in DOMAIN q /\ A[i] = q[i]
            BY <1>1, <2>1
        <3>2. PICK j \in 1..i - 1 : Covers(q[j], m)
            BY <1>5, <3>1 DEF Covered
        <3>3. j \in 1..l
            BY <1>1, <2>1
        <3> QED BY <1>1, <3>2, <3>3
    <2>2. CASE i = l + 1
        <3>1. m \in base..top
            BY <1>1, <1>2, <1>5, <2>2
        <3>2. i - 1 = l
            BY <1>1, <2>2
        <3> QED BY <1>3, <3>1, <3>2
    <2> QED BY <1>1, <2>1, <2>2
<1>6. Covered(A, base, IF n = top + 1 THEN n ELSE top)
    BY <1>4, <1>5 DEF Covered
<1> QED BY <1>6 DEF A

(* A frame at the end. *)
LEMMA CoveredFrame ==
    ASSUME NEW S, NEW q \in Seq(S), NEW base \in Nat, NEW top \in Nat, Covered(q, base, top),
           NEW e \in S, e.type = "frame"
    PROVE  Covered(Append(q, e), base, top)
<1> DEFINE A == Append(q, e)
           l == Len(q)
<1>1. /\ A \in Seq(S) /\ l \in Nat /\ DOMAIN q = 1..l /\ DOMAIN A = 1..(l + 1)
      /\ A[l + 1] = e /\ \A i \in 1..l : A[i] = q[i]
    BY AppendIs
<1> HIDE DEF A, l
<1>2. ASSUME NEW m \in base..top PROVE \E i \in DOMAIN A : Covers(A[i], m)
    <2>1. PICK i \in DOMAIN q : Covers(q[i], m)
        BY DEF Covered
    <2>2. i \in 1..l /\ i \in DOMAIN A
        BY <1>1
    <2> QED BY <1>1, <2>1, <2>2
<1>3. ASSUME NEW i \in DOMAIN A, A[i].type = "event", NEW m \in base..A[i].n - 1
      PROVE  \E j \in 1..i - 1 : Covers(A[j], m)
    <2>0. i \in 1..l
        BY <1>1, <1>3
    <2>1. i \in DOMAIN q /\ A[i] = q[i]
        BY <1>1, <2>0
    <2>2. PICK j \in 1..i - 1 : Covers(q[j], m)
        BY <1>3, <2>1 DEF Covered
    <2>3. j \in 1..l
        BY <1>1, <2>0
    <2> QED BY <1>1, <2>2, <2>3
<1>4. Covered(A, base, top)
    BY <1>2, <1>3 DEF Covered
<1> QED BY <1>4 DEF A

(* A created notice at the front covers what was covered and more. *)
LEMMA CoveredCreated ==
    ASSUME NEW S, NEW q \in Seq(S), NEW base \in Nat, NEW top \in Nat,
           NEW end \in Nat, top <= end, Created(end) \in S,
           \A i \in DOMAIN q : q[i].type = "event" => q[i].n \in Nat /\ q[i].n <= top
    PROVE  Covered(<<Created(end)>> \o q, base, end)
<1> DEFINE A == <<Created(end)>> \o q
           l == Len(q)
<1>1. /\ A \in Seq(S) /\ l \in Nat /\ DOMAIN q = 1..l /\ DOMAIN A = 1..(l + 1)
      /\ A[1] = Created(end) /\ \A i \in 1..l : A[i + 1] = q[i]
    BY ConsIs
<1> HIDE DEF A, l
<1>2. Created(end).type # "event" /\ \A m \in base..end : Covers(Created(end), m)
    BY DEF Created, Covers
<1>3. 1 \in DOMAIN A
    BY <1>1
<1>4. ASSUME NEW i \in DOMAIN A, A[i].type = "event", NEW m \in base..A[i].n - 1
      PROVE  \E j \in 1..i - 1 : Covers(A[j], m)
    <2>1. i # 1
        BY <1>1, <1>2, <1>4
    <2>2. i - 1 \in 1..l /\ (i - 1) + 1 = i
        BY <1>1, <2>1
    <2>3. A[i] = q[i - 1] /\ i - 1 \in DOMAIN q
        BY <1>1, <2>2
    <2>4. A[i].n \in Nat /\ A[i].n <= top
        BY <1>4, <2>3
    <2>5. m \in base..end /\ 1 \in 1..i - 1
        BY <1>1, <2>2, <2>4
    <2> QED BY <1>1, <1>2, <2>5
<1>5. Covered(A, base, end)
    BY <1>1, <1>2, <1>3, <1>4 DEF Covered
<1> QED BY <1>5 DEF A

(* Without a head that covers none of the places to come. *)
LEMMA CoveredTail ==
    ASSUME NEW S, NEW q \in Seq(S), q # <<>>, NEW base \in Nat, NEW top \in Nat,
           Covered(q, base, top), NEW next \in Nat, base <= next,
           \A m \in Nat : m >= next => ~Covers(Head(q), m)
    PROVE  Covered(Tail(q), next, top)
<1> DEFINE A == Tail(q)
           l == Len(q)
<1>1. /\ A \in Seq(S) /\ l \in Nat /\ DOMAIN q = 1..l /\ DOMAIN A = 1..(l - 1) /\ Head(q) = q[1]
      /\ \A i \in 1..(l - 1) : A[i] = q[i + 1]
    BY TailIs
<1> HIDE DEF A, l
<1>2. ASSUME NEW m \in next..top PROVE \E i \in DOMAIN A : Covers(A[i], m)
    <2>1. PICK i \in DOMAIN q : Covers(q[i], m)
        BY DEF Covered
    <2>2. i # 1
        BY <1>1, <2>1
    <2>3. i - 1 \in 1..(l - 1) /\ (i - 1) + 1 = i
        BY <1>1, <2>2
    <2>4. A[i - 1] = q[i] /\ i - 1 \in DOMAIN A
        BY <1>1, <2>3
    <2> QED BY <2>1, <2>4
<1>3. ASSUME NEW i \in DOMAIN A, A[i].type = "event", NEW m \in next..A[i].n - 1
      PROVE  \E j \in 1..i - 1 : Covers(A[j], m)
    <2>1. i + 1 \in DOMAIN q /\ A[i] = q[i + 1] /\ (i + 1) - 1 = i
        BY <1>1
    <2>2. PICK j \in 1..i : Covers(q[j], m)
        <3>1. m \in base..q[i + 1].n - 1
            BY <2>1
        <3> QED BY <1>3, <2>1, <3>1 DEF Covered
    <2>3. j # 1
        BY <1>1, <2>2
    <2>4. j - 1 \in 1..(i - 1) /\ j - 1 \in 1..(l - 1) /\ (j - 1) + 1 = j
        BY <1>1, <2>3
    <2> QED BY <1>1, <2>2, <2>4
<1>4. Covered(A, next, top)
    BY <1>2, <1>3 DEF Covered
<1> QED BY <1>4 DEF A

(* An event at the head is the next place or one that is covered. *)
LEMMA HeadCovers ==
    ASSUME NEW S, NEW q \in Seq(S), q # <<>>, NEW base \in Nat, NEW top \in Nat, Covered(q, base, top),
           Head(q).type = "event", Head(q).n \in Nat
    PROVE  Head(q).n <= base
<1>1. Head(q) = q[1] /\ 1 \in DOMAIN q
    BY TailIs
<1>2. ASSUME base < q[1].n PROVE FALSE
    <2>1. base \in base..q[1].n - 1
        BY <1>1, <1>2
    <2>2. \E j \in 1..1 - 1 : Covers(q[j], base)
        BY <1>1, <2>1 DEF Covered
    <2> QED BY <2>2
<1> QED BY <1>1, <1>2

(* The frame that the agent emits next continues the last one. *)
LEMMA LinkedFrame ==
    ASSUME NEW S, NEW q \in Seq(S), NEW cut, NEW rev \in Nat, NEW id, NEW a, Linked(q, cut, rev, id, a),
           a.rev \in Nat, \A i \in DOMAIN q : Live(q[i], cut) => q[i].frame.rev \in Nat,
           NEW e \in S, Live(e, cut), e.frame.rev = a.rev + 1,
           IF e.frame.type = "start" THEN a.attempt = 0 ELSE e.frame.id = a.attempt,
           NEW b, b.rev = e.frame.rev, b.attempt = IdAfter(e.frame)
    PROVE  Linked(Append(q, e), cut, rev, id, b)
<1> DEFINE A == Append(q, e)
           l == Len(q)
<1>1. /\ A \in Seq(S) /\ l \in Nat /\ DOMAIN q = 1..l /\ DOMAIN A = 1..(l + 1) /\ Len(A) = l + 1
      /\ A[l + 1] = e /\ \A i \in 1..l : A[i] = q[i]
    BY AppendIs
<1>l. Len(q) = l
    OBVIOUS
<1> HIDE DEF A, l
<1>2. ASSUME NEW r \in Nat, NEW x, LastLink(r, x, a) PROVE Link(r, x, e.frame)
    <2>1. e.frame.rev = r + 1 => r = a.rev
        OBVIOUS
    <2> QED BY <1>2, <2>1 DEF Link, LastLink
<1>3. ASSUME NEW j \in DOMAIN A, Live(A[j], cut), \A k \in 1 .. j - 1 : ~Live(A[k], cut)
      PROVE  Link(rev, id, A[j].frame)
    <2>1. CASE j \in 1..l
        <3>1. \A k \in 1 .. j - 1 : k \in 1..l /\ ~Live(q[k], cut)
            BY <1>1, <1>3, <2>1
        <3> QED BY <1>1, <1>3, <2>1, <3>1 DEF Linked
    <2>2. CASE j = l + 1
        <3>1. \A k \in DOMAIN q : ~Live(q[k], cut)
            BY <1>1, <1>3, <2>2
        <3>2. LastLink(rev, id, a)
            BY <3>1 DEF Linked
        <3> QED BY <1>1, <1>2, <2>2, <3>2
    <2> QED BY <1>1, <2>1, <2>2
<1>4. ASSUME NEW i \in DOMAIN A, NEW j \in DOMAIN A, i < j, Live(A[i], cut), Live(A[j], cut),
             \A k \in i + 1 .. j - 1 : ~Live(A[k], cut)
      PROVE  Link(A[i].frame.rev, IdAfter(A[i].frame), A[j].frame)
    <2>0. i \in 1..l /\ i \in DOMAIN q /\ A[i] = q[i]
        BY <1>1, <1>4
    <2>1. CASE j \in 1..l
        <3>1. \A k \in i + 1 .. j - 1 : k \in 1..l /\ ~Live(q[k], cut)
            BY <1>1, <1>4, <2>0, <2>1
        <3> QED BY <1>1, <1>4, <2>0, <2>1, <3>1 DEF Linked
    <2>2. CASE j = l + 1
        <3>1. \A k \in i + 1 .. Len(q) : ~Live(q[k], cut)
            BY <1>1, <1>4, <1>l, <2>0, <2>2
        <3>2. LastLink(q[i].frame.rev, IdAfter(q[i].frame), a)
            BY <1>4, <2>0, <3>1 DEF Linked
        <3>3. q[i].frame.rev \in Nat
            BY <1>4, <2>0
        <3> QED BY <1>1, <1>2, <2>0, <2>2, <3>2, <3>3
    <2> QED BY <1>1, <2>1, <2>2
<1>5. l + 1 \in DOMAIN A /\ Live(A[l + 1], cut)
    BY <1>1
<1>6. ASSUME NEW i \in DOMAIN A, Live(A[i], cut), \A k \in i + 1 .. Len(A) : ~Live(A[k], cut)
      PROVE  LastLink(A[i].frame.rev, IdAfter(A[i].frame), b)
    <2>1. i = l + 1
        BY <1>1, <1>5, <1>6
    <2> QED BY <1>1, <2>1 DEF LastLink
<1>7. Linked(A, cut, rev, id, b)
    BY <1>3, <1>4, <1>5, <1>6 DEF Linked
<1> QED BY <1>7 DEF A

(* An item that is no frame behind the baseline, at the end. *)
LEMMA LinkedOther ==
    ASSUME NEW S, NEW q \in Seq(S), NEW cut, NEW rev, NEW id, NEW a, Linked(q, cut, rev, id, a),
           NEW e \in S, ~Live(e, cut)
    PROVE  Linked(Append(q, e), cut, rev, id, a)
<1> DEFINE A == Append(q, e)
           l == Len(q)
<1>1. /\ A \in Seq(S) /\ l \in Nat /\ DOMAIN q = 1..l /\ DOMAIN A = 1..(l + 1) /\ Len(A) = l + 1
      /\ A[l + 1] = e /\ \A i \in 1..l : A[i] = q[i]
    BY AppendIs
<1>l. Len(q) = l
    OBVIOUS
<1> HIDE DEF A, l
<1>2. \A i \in DOMAIN A : Live(A[i], cut) => i \in 1..l /\ i \in DOMAIN q /\ A[i] = q[i]
    BY <1>1
<1>3. ASSUME NEW j \in DOMAIN A, Live(A[j], cut), \A k \in 1 .. j - 1 : ~Live(A[k], cut)
      PROVE  Link(rev, id, A[j].frame)
    <2>1. \A k \in 1 .. j - 1 : k \in 1..l /\ ~Live(q[k], cut)
        BY <1>1, <1>2, <1>3
    <2> QED BY <1>2, <1>3, <2>1 DEF Linked
<1>4. ASSUME NEW i \in DOMAIN A, NEW j \in DOMAIN A, i < j, Live(A[i], cut), Live(A[j], cut),
             \A k \in i + 1 .. j - 1 : ~Live(A[k], cut)
      PROVE  Link(A[i].frame.rev, IdAfter(A[i].frame), A[j].frame)
    <2>0. /\ i \in 1..l /\ i \in DOMAIN q /\ A[i] = q[i]
          /\ j \in 1..l /\ j \in DOMAIN q /\ A[j] = q[j]
        BY <1>2, <1>4
    <2>1. \A k \in i + 1 .. j - 1 : k \in 1..l /\ ~Live(q[k], cut)
        BY <1>1, <1>4, <2>0
    <2> QED BY <1>4, <2>0, <2>1 DEF Linked
<1>5. ASSUME \A k \in DOMAIN A : ~Live(A[k], cut) PROVE LastLink(rev, id, a)
    <2>1. \A k \in DOMAIN q : ~Live(q[k], cut)
        BY <1>1, <1>5
    <2> QED BY <2>1 DEF Linked
<1>6. ASSUME NEW i \in DOMAIN A, Live(A[i], cut), \A k \in i + 1 .. Len(A) : ~Live(A[k], cut)
      PROVE  LastLink(A[i].frame.rev, IdAfter(A[i].frame), a)
    <2>0. i \in 1..l /\ i \in DOMAIN q /\ A[i] = q[i]
        BY <1>2, <1>6
    <2>1. \A k \in i + 1 .. Len(q) : ~Live(q[k], cut)
        BY <1>1, <1>6, <1>l, <2>0
    <2> QED BY <1>6, <2>0, <2>1 DEF Linked
<1>7. Linked(A, cut, rev, id, a)
    BY <1>3, <1>4, <1>5, <1>6 DEF Linked
<1> QED BY <1>7 DEF A

(* And at the front. *)
LEMMA LinkedFront ==
    ASSUME NEW S, NEW q \in Seq(S), NEW cut, NEW rev, NEW id, NEW a, Linked(q, cut, rev, id, a),
           NEW e \in S, ~Live(e, cut)
    PROVE  Linked(<<e>> \o q, cut, rev, id, a)
<1> DEFINE A == <<e>> \o q
           l == Len(q)
<1>1. /\ A \in Seq(S) /\ l \in Nat /\ DOMAIN q = 1..l /\ DOMAIN A = 1..(l + 1) /\ Len(A) = l + 1
      /\ A[1] = e /\ \A i \in 1..l : A[i + 1] = q[i]
    BY ConsIs
<1>l. Len(q) = l
    OBVIOUS
<1> HIDE DEF A, l
<1>2. \A i \in DOMAIN A : Live(A[i], cut) => i - 1 \in 1..l /\ i - 1 \in DOMAIN q /\ A[i] = q[i - 1]
    <2> SUFFICES ASSUME NEW i \in DOMAIN A, Live(A[i], cut)
                 PROVE  i - 1 \in 1..l /\ i - 1 \in DOMAIN q /\ A[i] = q[i - 1]
        OBVIOUS
    <2>1. i # 1
        BY <1>1
    <2>2. i - 1 \in 1..l /\ (i - 1) + 1 = i
        BY <1>1, <2>1
    <2> QED BY <1>1, <2>2
<1>3. ASSUME NEW j \in DOMAIN A, Live(A[j], cut), \A k \in 1 .. j - 1 : ~Live(A[k], cut)
      PROVE  Link(rev, id, A[j].frame)
    <2>0. j - 1 \in 1..l /\ j - 1 \in DOMAIN q /\ A[j] = q[j - 1]
        BY <1>2, <1>3
    <2>1. ASSUME NEW k \in 1 .. (j - 1) - 1 PROVE ~Live(q[k], cut)
        <3>1. k + 1 \in 1 .. j - 1 /\ k \in 1..l
            BY <1>1, <2>0
        <3> QED BY <1>1, <1>3, <3>1
    <2> QED BY <1>3, <2>0, <2>1 DEF Linked
<1>4. ASSUME NEW i \in DOMAIN A, NEW j \in DOMAIN A, i < j, Live(A[i], cut), Live(A[j], cut),
             \A k \in i + 1 .. j - 1 : ~Live(A[k], cut)
      PROVE  Link(A[i].frame.rev, IdAfter(A[i].frame), A[j].frame)
    <2>0. /\ i - 1 \in 1..l /\ i - 1 \in DOMAIN q /\ A[i] = q[i - 1]
          /\ j - 1 \in 1..l /\ j - 1 \in DOMAIN q /\ A[j] = q[j - 1] /\ i - 1 < j - 1
        BY <1>1, <1>2, <1>4
    <2>1. ASSUME NEW k \in (i - 1) + 1 .. (j - 1) - 1 PROVE ~Live(q[k], cut)
        <3>1. k + 1 \in i + 1 .. j - 1 /\ k \in 1..l
            BY <1>1, <2>0, SMTT(30)
        <3> QED BY <1>1, <1>4, <3>1
    <2> QED BY <1>4, <2>0, <2>1 DEF Linked
<1>5. ASSUME \A k \in DOMAIN A : ~Live(A[k], cut) PROVE LastLink(rev, id, a)
    <2>1. ASSUME NEW k \in DOMAIN q PROVE ~Live(q[k], cut)
        <3>1. k + 1 \in DOMAIN A /\ A[k + 1] = q[k]
            BY <1>1
        <3> QED BY <1>5, <3>1
    <2> QED BY <2>1 DEF Linked
<1>6. ASSUME NEW i \in DOMAIN A, Live(A[i], cut), \A k \in i + 1 .. Len(A) : ~Live(A[k], cut)
      PROVE  LastLink(A[i].frame.rev, IdAfter(A[i].frame), a)
    <2>0. i - 1 \in 1..l /\ i - 1 \in DOMAIN q /\ A[i] = q[i - 1]
        BY <1>2, <1>6
    <2>1. ASSUME NEW k \in (i - 1) + 1 .. Len(q) PROVE ~Live(q[k], cut)
        <3>1. k + 1 \in i + 1 .. Len(A) /\ k \in 1..l
            BY <1>1, <1>l, <2>0
        <3> QED BY <1>1, <1>6, <3>1
    <2> QED BY <1>6, <2>0, <2>1 DEF Linked
<1>7. Linked(A, cut, rev, id, a)
    BY <1>3, <1>4, <1>5, <1>6 DEF Linked
<1> QED BY <1>7 DEF A

(* Without its head: what that leaves running, if it is such a frame, is what
   the rest continues. *)
LEMMA LinkedTail ==
    ASSUME NEW S, NEW q \in Seq(S), q # <<>>, NEW cut, NEW rev, NEW id, NEW a, Linked(q, cut, rev, id, a),
           NEW r, NEW x,
           IF Live(Head(q), cut) THEN r = Head(q).frame.rev /\ x \in {0, IdAfter(Head(q).frame)}
           ELSE r = rev /\ x = id
    PROVE  Linked(Tail(q), cut, r, x, a)
<1> DEFINE A == Tail(q)
           l == Len(q)
<1>1. /\ A \in Seq(S) /\ l \in Nat /\ l >= 1 /\ DOMAIN q = 1..l /\ DOMAIN A = 1..(l - 1) /\ Len(A) = l - 1
      /\ Head(q) = q[1] /\ \A i \in 1..(l - 1) : A[i] = q[i + 1]
    BY TailIs
<1>l. Len(q) = l
    OBVIOUS
<1> HIDE DEF A, l
<1>0. ASSUME NEW f, NEW s, NEW y PROVE /\ Link(s, y, f) => Link(s, 0, f)
                                       /\ LastLink(s, y, a) => LastLink(s, 0, a)
    BY DEF Link, LastLink
<1>2. \A i \in DOMAIN A : i + 1 \in DOMAIN q /\ A[i] = q[i + 1]
    BY <1>1
<1>3. ASSUME NEW j \in DOMAIN A, Live(A[j], cut), \A k \in 1 .. j - 1 : ~Live(A[k], cut)
      PROVE  Link(r, x, A[j].frame)
    <2>0. j + 1 \in DOMAIN q /\ A[j] = q[j + 1] /\ 1 \in DOMAIN q /\ 1 < j + 1
        BY <1>1, <1>2
    <2>1. ASSUME NEW k \in 1 + 1 .. (j + 1) - 1 PROVE ~Live(q[k], cut)
        <3>1. k - 1 \in 1 .. j - 1 /\ (k - 1) + 1 = k /\ k - 1 \in 1..(l - 1)
            BY <1>1, <2>0
        <3> QED BY <1>1, <1>3, <3>1
    <2>2. CASE Live(q[1], cut)
        <3>1. Link(q[1].frame.rev, IdAfter(q[1].frame), q[j + 1].frame)
            BY <1>3, <2>0, <2>1, <2>2 DEF Linked
        <3> QED BY <1>0, <1>1, <2>0, <2>2, <3>1
    <2>3. CASE ~Live(q[1], cut)
        <3>1. ASSUME NEW k \in 1 .. (j + 1) - 1 PROVE ~Live(q[k], cut)
            <4>1. k = 1 \/ k \in 1 + 1 .. (j + 1) - 1
                OBVIOUS
            <4> QED BY <2>1, <2>3, <4>1
        <3>2. Link(rev, id, q[j + 1].frame)
            BY <1>3, <2>0, <3>1 DEF Linked
        <3> QED BY <1>1, <2>0, <2>3, <3>2
    <2> QED BY <2>2, <2>3
<1>4. ASSUME NEW i \in DOMAIN A, NEW j \in DOMAIN A, i < j, Live(A[i], cut), Live(A[j], cut),
             \A k \in i + 1 .. j - 1 : ~Live(A[k], cut)
      PROVE  Link(A[i].frame.rev, IdAfter(A[i].frame), A[j].frame)
    <2>0. /\ i + 1 \in DOMAIN q /\ A[i] = q[i + 1]
          /\ j + 1 \in DOMAIN q /\ A[j] = q[j + 1] /\ i + 1 < j + 1
        BY <1>1, <1>2, <1>4
    <2>1. ASSUME NEW k \in (i + 1) + 1 .. (j + 1) - 1 PROVE ~Live(q[k], cut)
        <3>1. k - 1 \in i + 1 .. j - 1 /\ (k - 1) + 1 = k /\ k - 1 \in 1..(l - 1)
            BY <1>1, <2>0, SMTT(30)
        <3> QED BY <1>1, <1>4, <3>1
    <2> QED BY <1>4, <2>0, <2>1 DEF Linked
<1>5. ASSUME \A k \in DOMAIN A : ~Live(A[k], cut) PROVE LastLink(r, x, a)
    <2>0. 1 \in DOMAIN q
        BY <1>1
    <2>1. ASSUME NEW k \in 1 + 1 .. Len(q) PROVE ~Live(q[k], cut)
        <3>1. k - 1 \in DOMAIN A /\ (k - 1) + 1 = k
            BY <1>1, <1>l
        <3> QED BY <1>2, <1>5, <3>1
    <2>2. CASE Live(q[1], cut)
        <3>1. LastLink(q[1].frame.rev, IdAfter(q[1].frame), a)
            BY <2>0, <2>1, <2>2 DEF Linked
        <3> QED BY <1>0, <1>1, <2>2, <3>1
    <2>3. CASE ~Live(q[1], cut)
        <3>1. \A k \in DOMAIN q : k = 1 \/ k \in 1 + 1 .. Len(q)
            BY <1>1, <1>l
        <3>2. LastLink(rev, id, a)
            BY <2>1, <2>3, <3>1 DEF Linked
        <3> QED BY <1>1, <2>3, <3>2
    <2> QED BY <2>2, <2>3
<1>6. ASSUME NEW i \in DOMAIN A, Live(A[i], cut), \A k \in i + 1 .. Len(A) : ~Live(A[k], cut)
      PROVE  LastLink(A[i].frame.rev, IdAfter(A[i].frame), a)
    <2>0. i + 1 \in DOMAIN q /\ A[i] = q[i + 1]
        BY <1>2
    <2>1. ASSUME NEW k \in (i + 1) + 1 .. Len(q) PROVE ~Live(q[k], cut)
        <3>1. k - 1 \in i + 1 .. Len(A) /\ (k - 1) + 1 = k /\ k - 1 \in 1..(l - 1)
            BY <1>1, <1>l
        <3> QED BY <1>1, <1>6, <3>1
    <2> QED BY <1>6, <2>0, <2>1 DEF Linked
<1>7. Linked(A, cut, r, x, a)
    BY <1>3, <1>4, <1>5, <1>6 DEF Linked
<1> QED BY <1>7 DEF A

(* For an agent that has emitted nothing yet, nothing has to be continued. *)
LEMMA LinkedAnew ==
    ASSUME NEW q, NEW cut, NEW rev, NEW id, NEW a, Linked(q, cut, rev, id, a),
           NEW b, b.rev = 0, rev = 0 => id = 0,
           \A i \in DOMAIN q : Live(q[i], cut) => q[i].frame.rev # 0
    PROVE  Linked(q, cut, rev, id, b)
<1>1. LastLink(rev, id, b)
    BY DEF LastLink
<1>2. \A i \in DOMAIN q : Live(q[i], cut) => LastLink(q[i].frame.rev, IdAfter(q[i].frame), b)
    BY DEF LastLink
<1> QED BY <1>1, <1>2 DEF Linked

(* Of the agent only the revision and the attempt matter. *)
LEMMA LinkedAlike ==
    ASSUME NEW q, NEW cut, NEW rev, NEW id, NEW a, Linked(q, cut, rev, id, a),
           NEW b, b.rev = a.rev, b.attempt = a.attempt
    PROVE  Linked(q, cut, rev, id, b)
<1>1. \A r, x : LastLink(r, x, a) => LastLink(r, x, b)
    BY DEF LastLink
<1> QED BY <1>1 DEF Linked

(* A queue without frames behind the baseline. *)
LEMMA LinkedNone ==
    ASSUME NEW q, NEW cut, NEW rev, NEW id, NEW a, LastLink(rev, id, a),
           \A i \in DOMAIN q : ~Live(q[i], cut)
    PROVE  Linked(q, cut, rev, id, a)
  BY DEF Linked

(* Any item at the end but the settlement of an attempt, or a notice. *)
LEMMA PairedOther ==
    ASSUME NEW S, NEW q \in Seq(S), NEW cut, NEW next, NEW a, NEW Z, Paired(q, cut, next, a, Z),
           NEW e \in S, e.type # "created", e.type = "event" => e.n \notin Z,
           Live(e, cut) /\ e.frame.type = "start" => \A n \in Z : n <= e.frame.after
    PROVE  Paired(Append(q, e), cut, next, a, Z)
<1> DEFINE A == Append(q, e)
           l == Len(q)
<1>1. /\ A \in Seq(S) /\ l \in Nat /\ DOMAIN q = 1..l /\ DOMAIN A = 1..(l + 1)
      /\ A[l + 1] = e /\ \A i \in 1..l : A[i] = q[i]
    BY AppendIs
<1> HIDE DEF A, l
<1>2. \A i \in DOMAIN A : i = l + 1 \/ (i \in DOMAIN q /\ A[i] = q[i])
    BY <1>1
<1>3. ASSUME NEW n \in Z, Dead(n, a, q, cut) PROVE Dead(n, a, A, cut)
    BY <1>1, <1>2, <1>3 DEF Dead
<1>4. ASSUME NEW i \in Int, NEW n, EndsAt(i, n, q, cut) PROVE EndsAt(i, n, A, cut)
    <2>1. i \in DOMAIN q /\ i \in DOMAIN A /\ A[i] = q[i]
        BY <1>1, <1>4 DEF EndsAt
    <2> QED BY <1>4, <2>1 DEF EndsAt
<1>5. ASSUME NEW i \in DOMAIN A, A[i].type = "event", A[i].n >= next, A[i].n \in Z
      PROVE  Dead(A[i].n, a, A, cut) \/ EndsAt(i + 1, A[i].n, A, cut)
    <2>1. i \in DOMAIN q /\ A[i] = q[i]
        BY <1>1, <1>2, <1>5
    <2>2. Dead(q[i].n, a, q, cut) \/ EndsAt(i + 1, q[i].n, q, cut)
        BY <1>5, <2>1 DEF Paired
    <2>3. i + 1 \in Int
        BY <1>1
    <2> QED BY <1>3, <1>4, <1>5, <2>1, <2>2, <2>3
<1>6. ASSUME NEW i \in DOMAIN A, A[i].type = "created", NEW n \in Z, next <= n, n <= A[i].end
      PROVE  Dead(n, a, A, cut)
    <2>1. i \in DOMAIN q /\ A[i] = q[i]
        BY <1>1, <1>2, <1>6
    <2>2. Dead(n, a, q, cut)
        BY <1>6, <2>1 DEF Paired
    <2> QED BY <1>3, <2>2
<1>7. Paired(A, cut, next, a, Z)
    BY <1>5, <1>6 DEF Paired
<1> QED BY <1>7 DEF A

(* A settlement and then its end frame. *)
LEMMA PairedSettled ==
    ASSUME NEW S, NEW q \in Seq(S), NEW cut, NEW next, NEW a, NEW Z, Paired(q, cut, next, a, Z),
           NEW n \in Nat,
           \A i \in DOMAIN q : q[i].type = "event" /\ q[i].n = n => i = Len(q),
           \A i \in DOMAIN q : q[i].type = "created" => q[i].end \in Nat /\ q[i].end < n,
           NEW e \in S, Live(e, cut), e.frame.type = "end", e.frame.seq = n
    PROVE  Paired(Append(q, e), cut, next, a, Z \cup {n})
<1> DEFINE A == Append(q, e)
           l == Len(q)
<1>1. /\ A \in Seq(S) /\ l \in Nat /\ DOMAIN q = 1..l /\ DOMAIN A = 1..(l + 1)
      /\ A[l + 1] = e /\ \A i \in 1..l : A[i] = q[i]
    BY AppendIs
<1>l. Len(q) = l
    OBVIOUS
<1>e. e.type = "frame"
    BY DEF Live
<1>0. Paired(A, cut, next, a, Z)
    <2>1. e.type # "created" /\ e.type # "event" /\ e.frame.type # "start"
        BY <1>e
    <2> QED BY <2>1, PairedOther
<1> HIDE DEF A, l
<1>2. \A i \in DOMAIN A : i = l + 1 \/ (i \in DOMAIN q /\ A[i] = q[i])
    BY <1>1
<1>3. ASSUME NEW i \in DOMAIN A, A[i].type = "event", A[i].n >= next, A[i].n \in Z \cup {n}
      PROVE  Dead(A[i].n, a, A, cut) \/ EndsAt(i + 1, A[i].n, A, cut)
    <2>1. CASE A[i].n \in Z
        BY <1>0, <1>3, <2>1 DEF Paired
    <2>2. CASE A[i].n = n
        <3>1. i \in DOMAIN q /\ A[i] = q[i]
            BY <1>1, <1>2, <1>3, <1>e
        <3>2. i = l
            BY <1>3, <1>l, <2>2, <3>1
        <3>3. l + 1 \in DOMAIN A
            BY <1>1
        <3> QED BY <1>1, <2>2, <3>2, <3>3 DEF EndsAt
    <2> QED BY <1>3, <2>1, <2>2
<1>4. ASSUME NEW i \in DOMAIN A, A[i].type = "created", NEW m \in Z \cup {n}, next <= m, m <= A[i].end
      PROVE  Dead(m, a, A, cut)
    <2>1. i \in DOMAIN q /\ A[i] = q[i]
        BY <1>1, <1>2, <1>4, <1>e
    <2>2. m # n
        BY <1>4, <2>1
    <2> QED BY <1>0, <1>4, <2>2 DEF Paired
<1>5. Paired(A, cut, next, a, Z \cup {n})
    BY <1>3, <1>4 DEF Paired
<1> QED BY <1>5 DEF A

(* A notice that overtakes no frame: what it covers settles nothing. *)
LEMMA PairedCreated ==
    ASSUME NEW S, NEW q \in Seq(S), NEW cut, NEW next \in Nat, NEW a, NEW Z, Paired(q, cut, next, a, Z),
           NEW top \in Nat, Covered(q, next, top), Z \subseteq 1..top,
           \A i \in DOMAIN q : q[i].type # "frame",
           NEW end, Created(end) \in S
    PROVE  Paired(<<Created(end)>> \o q, cut, next, a, Z)
<1> DEFINE A == <<Created(end)>> \o q
           l == Len(q)
<1>1. /\ A \in Seq(S) /\ l \in Nat /\ DOMAIN q = 1..l /\ DOMAIN A = 1..(l + 1)
      /\ A[1] = Created(end) /\ \A i \in 1..l : A[i + 1] = q[i]
    BY ConsIs
<1> HIDE DEF A, l
<1>2. \A i \in DOMAIN A : ~Live(A[i], cut)
    <2> SUFFICES ASSUME NEW i \in DOMAIN A PROVE A[i].type # "frame"
        BY DEF Live
    <2>1. CASE i = 1
        BY <1>1, <2>1 DEF Created
    <2>2. CASE i # 1
        <3>1. i - 1 \in 1..l /\ (i - 1) + 1 = i
            BY <1>1, <2>2
        <3> QED BY <1>1, <3>1
    <2> QED BY <2>1, <2>2
<1>3. ASSUME NEW n \in Z, next <= n PROVE Dead(n, a, A, cut)
    <2>1. n \in next..top
        BY <1>3
    <2>2. PICK i \in DOMAIN q : Covers(q[i], n)
        BY <2>1 DEF Covered
    <2>3. ~EndsAt(i + 1, n, q, cut)
        BY DEF EndsAt, Live
    <2>4. Dead(n, a, q, cut)
        <3>1. CASE q[i].type = "event" /\ q[i].n = n
            BY <1>3, <2>1, <2>3, <3>1 DEF Paired
        <3>2. CASE q[i].type = "created" /\ n <= q[i].end
            BY <1>3, <3>2 DEF Paired
        <3> QED BY <2>2, <3>1, <3>2 DEF Covers
    <2> QED BY <1>2, <2>4 DEF Dead
<1>4. ASSUME NEW i \in DOMAIN A, A[i].type = "event", A[i].n >= next, A[i].n \in Z
      PROVE  Dead(A[i].n, a, A, cut)
    <2>1. \A z \in Z : z >= next => next <= z
        OBVIOUS
    <2>2. next <= A[i].n
        BY ONLY <1>4, <2>1
    <2> QED BY <1>3, <1>4, <2>2
<1>5. Paired(A, cut, next, a, Z)
    BY <1>3, <1>4 DEF Paired
<1> QED BY <1>5 DEF A

(* Without its head, for an attempt that is the same, the one it starts, or none. *)
LEMMA PairedTail ==
    ASSUME NEW S, NEW q \in Seq(S), q # <<>>, NEW cut, NEW next \in Nat, NEW a, NEW Z, Z \subseteq Nat,
           Paired(q, cut, next, a, Z), NEW m \in Nat, next <= m,
           NEW b,
           \/ b.id = 0
           \/ b.id = a.id /\ b.after = a.after
           \/ Live(Head(q), cut) /\ Head(q).frame.type = "start" /\ b.after = Head(q).frame.after
    PROVE  Paired(Tail(q), cut, m, b, Z)
<1> DEFINE A == Tail(q)
           l == Len(q)
<1>1. /\ A \in Seq(S) /\ l \in Nat /\ l >= 1 /\ DOMAIN q = 1..l /\ DOMAIN A = 1..(l - 1)
      /\ Head(q) = q[1] /\ \A i \in 1..(l - 1) : A[i] = q[i + 1]
    BY TailIs
<1> HIDE DEF A, l
<1>2. \A i \in DOMAIN A : i + 1 \in DOMAIN q /\ A[i] = q[i + 1]
    BY <1>1
<1>3. ASSUME NEW n, Dead(n, a, q, cut) PROVE Dead(n, b, A, cut)
    <2>1. \A j \in DOMAIN A : Live(A[j], cut) /\ A[j].frame.type = "start" => n <= A[j].frame.after
        BY <1>2, <1>3 DEF Dead
    <2>2. 1 \in DOMAIN q
        BY <1>1
    <2>3. b.id # 0 => n <= b.after
        BY <1>1, <1>3, <2>2 DEF Dead
    <2> QED BY <2>1, <2>3 DEF Dead
<1>4. ASSUME NEW i \in 1..(l - 1), NEW n, EndsAt((i + 1) + 1, n, q, cut) PROVE EndsAt(i + 1, n, A, cut)
    <2>1. i + 1 \in DOMAIN A /\ A[i + 1] = q[(i + 1) + 1]
        BY <1>1, <1>4 DEF EndsAt
    <2> QED BY <1>4, <2>1 DEF EndsAt
<1>5. ASSUME NEW i \in DOMAIN A, A[i].type = "event", A[i].n >= m, A[i].n \in Z
      PROVE  Dead(A[i].n, b, A, cut) \/ EndsAt(i + 1, A[i].n, A, cut)
    <2>1. i + 1 \in DOMAIN q /\ A[i] = q[i + 1] /\ i \in 1..(l - 1)
        BY <1>1, <1>2
    <2>0. \A z \in Z : z >= m => z >= next
        OBVIOUS
    <2>2. q[i + 1].n >= next
        BY ONLY <1>5, <2>0, <2>1
    <2>3. Dead(q[i + 1].n, a, q, cut) \/ EndsAt((i + 1) + 1, q[i + 1].n, q, cut)
        BY <1>5, <2>1, <2>2 DEF Paired
    <2> QED BY <1>3, <1>4, <2>1, <2>3
<1>6. ASSUME NEW i \in DOMAIN A, A[i].type = "created", NEW n \in Z, m <= n, n <= A[i].end
      PROVE  Dead(n, b, A, cut)
    <2>1. next <= n
        BY <1>6
    <2> QED BY <1>2, <1>3, <1>6, <2>1 DEF Paired
<1>7. Paired(A, cut, m, b, Z)
    BY <1>5, <1>6 DEF Paired
<1> QED BY <1>7 DEF A

(* What the steps of the host make of the invariant. *)

(* A sequence over a set is one over a larger set. *)
LEMMA SeqGrows ==
    ASSUME NEW S, NEW T, S \subseteq T
    PROVE  Seq(S) \subseteq Seq(T)
<1> SUFFICES ASSUME NEW q \in Seq(S) PROVE q \in Seq(T)
    OBVIOUS
<1>1. Len(q) \in Nat /\ q = [i \in 1..Len(q) |-> q[i]] /\ \A i \in 1..Len(q) : q[i] \in T
    OBVIOUS
<1> QED BY <1>1

(* The types grow with the log and the ordinal. *)
LEMMA TypesGrow ==
    ASSUME Len(log) \in Nat, Len(log') \in Nat, Len(log) <= Len(log')
    PROVE  /\ Attempts \subseteq Attempts' /\ Frames \subseteq Frames'
           /\ \A k : ClientsTo(k) \subseteq ClientsTo(k)'
           /\ conn.ordinal \in Nat /\ conn'.ordinal \in Nat /\ conn.ordinal <= conn'.ordinal =>
                  Items \subseteq Items' /\ Seq(Items) \subseteq Seq(Items')
<1>1. Attempts \subseteq Attempts'
    BY DEF Attempts
<1>2. 0..Len(log) \subseteq 0..Len(log') /\ 1..Len(log) \subseteq 1..Len(log')
    OBVIOUS
<1>3. Frames \subseteq Frames'
    BY <1>2 DEF Frames
<1>4. ASSUME NEW k PROVE ClientsTo(k) \subseteq ClientsTo(k)'
    BY <1>1 DEF ClientsTo, RowsTo
<1>5. ASSUME conn.ordinal \in Nat, conn'.ordinal \in Nat, conn.ordinal <= conn'.ordinal
      PROVE  Items \subseteq Items' /\ Seq(Items) \subseteq Seq(Items')
    <2>1. 1..conn.ordinal \subseteq 1..conn'.ordinal
        BY <1>5
    <2> HIDE DEF Frames
    <2>2. Items \subseteq Items'
        BY <1>2, <1>3, <2>1 DEF Items
    <2> QED BY <2>2, SeqGrows
<1> QED BY <1>1, <1>3, <1>4, <1>5

(* An event more in the log. *)
LEMMA LogGrows ==
    ASSUME log \in Seq(Events), NEW e \in Events, log' = Append(log, e)
    PROVE  /\ log' \in Seq(Events) /\ Len(log) \in Nat /\ Len(log') = Len(log) + 1
           /\ DOMAIN log = 1..Len(log)
           /\ Settled \subseteq 1..Len(log)
           /\ Settled' = IF e.type \in Settlements THEN Settled \cup {Len(log) + 1} ELSE Settled
<1>1. /\ log' \in Seq(Events) /\ Len(log) \in Nat /\ Len(log') = Len(log) + 1
      /\ DOMAIN log = 1..Len(log) /\ DOMAIN log' = 1..(Len(log) + 1)
      /\ \A i \in 1..Len(log) : log'[i] = log[i]
      /\ log'[Len(log) + 1] = e
    BY AppendIs
<1>2. Settled \subseteq 1..Len(log)
    BY <1>1 DEF Settled
<1>3. \A m : m \in Settled' <=> m \in Settled \/ (m = Len(log) + 1 /\ e.type \in Settlements)
    BY <1>1 DEF Settled
<1> QED BY <1>1, <1>2, <1>3

(* The items of the queue. *)
LEMMA QueueItems ==
    ASSUME HostTypes, ConnTypes
    PROVE  /\ Len(log) \in Nat /\ DOMAIN log = 1..Len(log) /\ Settled \subseteq 1..Len(log)
           /\ conn.ordinal \in Nat /\ conn.ordinalCut \in Nat /\ conn.cut \in 0..Len(log)
           /\ conn.next \in 0..Len(log) + 1
           /\ Base \in Nat
           /\ \A i \in DOMAIN queue :
                  /\ queue[i] \in Items /\ queue[i].type \in {"event", "created", "frame"}
                  /\ queue[i].type = "event" => queue[i].n \in 1..Len(log)
                  /\ queue[i].type = "created" => queue[i].end \in 0..Len(log)
                  /\ queue[i].type = "frame" =>
                         /\ queue[i].frame \in Frames /\ queue[i].frame.rev \in Nat \ {0}
                         /\ queue[i].ordinal \in 1..conn.ordinal
<1>1. Len(log) \in Nat /\ DOMAIN log = 1..Len(log)
    BY DEF HostTypes
<1>2. Settled \subseteq 1..Len(log)
    BY <1>1 DEF Settled
<1>3. /\ conn.ordinal \in Nat /\ conn.ordinalCut \in Nat /\ conn.cut \in 0..Len(log)
      /\ conn.next \in 0..Len(log) + 1
    BY <1>1 DEF ConnTypes
<1>4. Base \in Nat
    BY <1>1, <1>3 DEF Base
<1>5. ASSUME NEW item \in Items
      PROVE  /\ item.type \in {"event", "created", "frame"}
             /\ item.type = "event" => item.n \in 1..Len(log)
             /\ item.type = "created" => item.end \in 0..Len(log)
             /\ item.type = "frame" => item.frame \in Frames /\ item.ordinal \in 1..conn.ordinal
    BY <1>5 DEF Items
<1>6. ASSUME NEW f \in Frames PROVE f.rev \in Nat \ {0}
    BY DEF Frames
<1>7. \A i \in DOMAIN queue : queue[i] \in Items
    BY DEF ConnTypes
<1> QED BY <1>1, <1>2, <1>3, <1>4, <1>5, <1>6, <1>7

(* The agent alone steps: as long as it stays at its revision and attempt. *)
LEMMA HostAlone ==
    ASSUME FollowInv, UNCHANGED <<log, conn, queue, client, overtaken>>,
           agent' \in Agents, agent'.rev = agent.rev, agent'.attempt = agent.attempt,
           twists' \in 0..MaxTwists, stream' \in {stream, NoStream}
    PROVE  FollowInv'
<1>t. /\ Len(log) \in Nat
      /\ Attempts' = Attempts /\ Items' = Items /\ \A k : ClientsTo(k)' = ClientsTo(k)
    BY DEF FollowInv, HostTypes, Attempts, Items, Frames, ClientsTo
<1>1. HostTypes'
    <2>1. NoAttempt \in Attempts
        BY <1>t, Plainly
    <2>2. NoStream \in [rev : Nat, active : Attempts]
        BY <2>1 DEF NoStream
    <2> QED BY <1>t, <2>2 DEF FollowInv, HostTypes
<1>2. ConnTypes'
    BY <1>t DEF FollowInv, ConnTypes, Listening
<1>6. ClientTypes'
    BY <1>t DEF FollowInv, ClientTypes
<1>3. StreamTrue'
    <2>1. StreamTrue /\ Settled' = Settled
        BY DEF FollowInv, Settled
    <2>2. CASE stream' = stream
        BY <2>1, <2>2 DEF StreamTrue
    <2>3. CASE stream' = NoStream
        <3>1. NoStream.active.id = 0 /\ NoStream.active.next = 0
            BY DEF NoStream, NoAttempt
        <3> QED BY <2>3, <3>1 DEF StreamTrue
    <2> QED BY <2>2, <2>3
<1>4. QueueCovers' /\ SettlementsPaired' /\ Window'
    BY DEF FollowInv, QueueCovers, SettlementsPaired, Window, Base, Settled
<1>5. FramesLinked'
    BY LinkedAlike DEF FollowInv, FramesLinked
<1> QED BY <1>1, <1>2, <1>3, <1>4, <1>5, <1>6 DEF FollowInv

(* An event that settles nothing is appended. *)
LEMMA EventAppended ==
    ASSUME FollowInv, NEW type \in {"step", "end", "other"}, NEW step \in 0..MaxSteps,
           Append1(type, step), UNCHANGED <<client, overtaken>>,
           agent' \in Agents, agent'.rev = agent.rev, agent'.attempt = agent.attempt,
           twists' \in 0..MaxTwists
    PROVE  FollowInv'
<1> DEFINE n == Len(log) + 1
           h == Heard(n)
<1>1. Event(type, step) \in Events /\ Event(type, step).type \notin Settlements
    BY DEF Event, Events, Settlements
<1>2. /\ log' \in Seq(Events) /\ Len(log) \in Nat /\ Len(log') = n
      /\ Settled \subseteq 1..Len(log) /\ Settled' = Settled
    BY <1>1, LogGrows DEF FollowInv, HostTypes, Append1
<1>3. /\ stream' = stream /\ conn' = conn
      /\ queue' = IF Listening THEN Append(queue, h) ELSE queue
    BY <1>2 DEF Append1
<1>4. Len(log) <= Len(log') /\ n \in Nat /\ n \notin Settled
    BY <1>2
<1>5. /\ conn.ordinal \in Nat /\ Base \in Nat /\ \A i \in DOMAIN queue : queue[i] \in Items
    BY QueueItems DEF FollowInv
<1>6. /\ Attempts \subseteq Attempts' /\ Items \subseteq Items' /\ Seq(Items) \subseteq Seq(Items')
      /\ \A k : ClientsTo(k) \subseteq ClientsTo(k)'
    BY <1>2, <1>3, <1>4, <1>5, TypesGrow
<1>7. h \in Items' /\ h.type = "event" /\ h.n = n /\ queue \in Seq(Items')
    BY <1>2, <1>6, SMTT(30) DEF Heard, Items, FollowInv, ConnTypes
<1> HIDE DEF n, h
<1>8. HostTypes'
    BY <1>2, <1>3, <1>6 DEF FollowInv, HostTypes
<1>9. ConnTypes'
    <2>1. /\ conn' \in [state : {"closed", "registered", "observed", "open"}, cut : 0 .. Len(log'),
                        next : 0 .. Len(log') + 1, ordinal : Nat, ordinalCut : Nat]
          /\ conn'.ordinalCut <= conn'.ordinal
        BY <1>2, <1>3, <1>4 DEF FollowInv, ConnTypes
    <2>2. queue' \in Seq(Items')
        BY <1>3, <1>7
    <2>3. ~Listening' => queue' = <<>>
        BY <1>3 DEF FollowInv, ConnTypes, Listening
    <2> QED BY <2>1, <2>2, <2>3 DEF ConnTypes
<1>10. ClientTypes'
    BY <1>2, <1>3, <1>4, <1>6 DEF FollowInv, ClientTypes
<1>11. StreamTrue'
    BY <1>2, <1>3 DEF FollowInv, StreamTrue
<1>12. QueueCovers'
    <2> SUFFICES ASSUME conn.state \in {"observed", "open"} PROVE Covered(queue', Base, n)
        BY <1>2, <1>3 DEF QueueCovers, Base
    <2>1. Covered(queue, Base, Len(log)) /\ queue' = Append(queue, h)
        BY <1>3 DEF FollowInv, QueueCovers, Listening
    <2>2. n = Len(log) + 1 /\ n \in 1..(Len(log) + 1) /\ h = Heard(n)
        BY <1>2 DEF n, h
    <2>3. Covered(Append(queue, Heard(n)), Base, IF n = Len(log) + 1 THEN n ELSE Len(log))
        BY <1>2, <1>5, <1>7, <2>1, <2>2, CoveredHeard
    <2> QED BY <2>1, <2>2, <2>3
<1>13. FramesLinked'
    <2> SUFFICES ASSUME conn.state = "open"
                 PROVE  Linked(queue', conn.ordinalCut, client.rev, client.active.id, agent')
        BY <1>3 DEF FollowInv, FramesLinked
    <2>1. Linked(queue, conn.ordinalCut, client.rev, client.active.id, agent) /\ queue' = Append(queue, h)
        BY <1>3 DEF FollowInv, FramesLinked, Listening
    <2>2. ~Live(h, conn.ordinalCut)
        BY <1>7 DEF Live
    <2>3. Linked(queue', conn.ordinalCut, client.rev, client.active.id, agent)
        BY <1>7, <2>1, <2>2, LinkedOther
    <2> QED BY <2>3, LinkedAlike
<1>14. SettlementsPaired'
    <2> SUFFICES ASSUME conn.state = "open", ~overtaken
                 PROVE  /\ Paired(queue', conn.ordinalCut, conn.next, client.active, Settled)
                        /\ client.active.id # 0 =>
                               /\ OnlyLast(client)
                               /\ client.pending # {} => EndsAt(1, client.cursor, queue', conn.ordinalCut)
        BY <1>2, <1>3 DEF SettlementsPaired
    <2>1. /\ Paired(queue, conn.ordinalCut, conn.next, client.active, Settled)
          /\ client.active.id # 0 =>
                 /\ OnlyLast(client)
                 /\ client.pending # {} => EndsAt(1, client.cursor, queue, conn.ordinalCut)
          /\ queue' = Append(queue, h)
        BY <1>3 DEF FollowInv, SettlementsPaired, Listening
    <2>2. h.type # "created" /\ ~Live(h, conn.ordinalCut) /\ h.n \notin Settled
        BY <1>4, <1>7 DEF Live
    <2>3. Paired(queue', conn.ordinalCut, conn.next, client.active, Settled)
        BY <1>7, <2>1, <2>2, PairedOther
    <2>4. EndsAt(1, client.cursor, queue, conn.ordinalCut) => EndsAt(1, client.cursor, queue', conn.ordinalCut)
        BY <1>7, <2>1, AppendIs DEF EndsAt
    <2> QED BY <2>1, <2>3, <2>4
<1>15. Window'
    BY DEF FollowInv, Window
<1> QED BY <1>8, <1>9, <1>10, <1>11, <1>12, <1>13, <1>14, <1>15 DEF FollowInv

(* The accumulator takes a frame of the agent. *)
LEMMA AcceptIs ==
    ASSUME Len(log) \in Nat, NEW s \in [rev : Nat, active : Attempts], NEW f \in Frames
    PROVE  LET t == Accept(s, f)
           IN  /\ t \in [rev : Nat, active : Attempts] /\ t.rev = f.rev /\ t.rev # 0
               /\ t.active.id = 0 => t.active.next = 0
               /\ \/ t.active.id = 0
                  \/ f.type = "start" /\ t.active.id = f.id /\ t.active.after = f.after
                  \/ f.type = "chunk" /\ t.active.id = f.id /\ t.active.id = s.active.id
                     /\ t.active.after = s.active.after
<1> DEFINE t == Accept(s, f)
<1>1. NoAttempt \in Attempts /\ NoAttempt.id = 0 /\ NoAttempt.next = 0
    BY Plainly DEF NoAttempt
<1>2. s.active \in Attempts /\ f.rev \in Nat \ {0} /\ f.type \in {"start", "chunk", "end"}
    BY DEF Frames
<1>3. /\ t.rev = f.rev
      /\ t = [rev |-> f.rev, active |-> t.active]
      /\ \/ t.active = NoAttempt
         \/ f.type = "start" /\ t.active = [id |-> f.id, step |-> f.step, after |-> f.after, next |-> 0]
         \/ f.type = "chunk" /\ s.active.id = f.id /\ t.active = [s.active EXCEPT !.next = f.index]
    BY <1>2 DEF Accept
<1> HIDE DEF t
<1>4. CASE t.active = NoAttempt
    BY <1>1, <1>2, <1>3, <1>4 DEF t
<1>5. CASE f.type = "start" /\ t.active = [id |-> f.id, step |-> f.step, after |-> f.after, next |-> 0]
    <2>1. f.id \in 1..MaxAttempts /\ f.step \in 0..MaxSteps /\ f.after \in 0..Len(log)
        BY <1>5 DEF Frames
    <2>2. t.active \in Attempts /\ t.active.id # 0
        BY <1>5, <2>1, Bounds DEF Attempts
    <2> QED BY <1>2, <1>3, <1>5, <2>2 DEF t
<1>6. CASE f.type = "chunk" /\ s.active.id = f.id /\ t.active = [s.active EXCEPT !.next = f.index]
    <2>1. f.index \in 1..MaxChunks /\ f.id \in 1..MaxAttempts
        BY <1>6 DEF Frames
    <2>2. t.active \in Attempts /\ t.active.id # 0 /\ t.active.id = s.active.id /\ t.active.after = s.active.after
        BY <1>2, <1>6, <2>1, Bounds, SMTT(30) DEF Attempts
    <2> QED BY <1>2, <1>3, <1>6, <2>2 DEF t
<1> QED BY <1>3, <1>4, <1>5, <1>6

(* What Notify leaves in the queue. *)
NoticeOf(frame) == [type |-> "frame", frame |-> frame, ordinal |-> conn.ordinal + 1]

(* The agent emits a frame. *)
LEMMA FrameEmitted ==
    ASSUME FollowInv, NEW f \in Frames, Notify(<<>>, f), UNCHANGED <<log, client, overtaken>>,
           f.rev = agent.rev + 1,
           IF f.type = "start" THEN agent.attempt = 0 /\ f.after = Len(log) ELSE f.id = agent.attempt,
           agent' \in Agents, agent'.rev = f.rev, agent'.attempt = IdAfter(f),
           twists' \in 0..MaxTwists
    PROVE  FollowInv'
<1> DEFINE e == NoticeOf(f)
<1>1. /\ Len(log) \in Nat /\ Settled \subseteq 1..Len(log) /\ Settled' = Settled
      /\ conn.ordinal \in Nat /\ conn.ordinalCut \in Nat /\ Base \in Nat
      /\ conn.ordinalCut <= conn.ordinal /\ queue \in Seq(Items)
      /\ agent.rev \in Nat /\ stream \in [rev : Nat, active : Attempts]
      /\ conn \in [state : {"closed", "registered", "observed", "open"}, cut : 0 .. Len(log),
                   next : 0 .. Len(log) + 1, ordinal : Nat, ordinalCut : Nat]
    BY QueueItems DEF FollowInv, ConnTypes, HostTypes, Agents, Settled
<1>a. /\ \A i \in DOMAIN queue : queue[i] \in Items
      /\ \A i \in DOMAIN queue : Live(queue[i], conn.ordinalCut) => queue[i].frame.rev \in Nat
    BY QueueItems DEF FollowInv, Live
<1>2. /\ stream' = Accept(stream, f)
      /\ ~Listening => queue' = queue /\ conn' = conn
      /\ Listening => queue' = Append(queue, e) /\ conn' = [conn EXCEPT !.ordinal = conn.ordinal + 1]
    BY <1>1, SMTT(30) DEF Notify, NoticeOf
<1>3. /\ conn'.state = conn.state /\ conn'.cut = conn.cut /\ conn'.next = conn.next
      /\ conn'.ordinalCut = conn.ordinalCut /\ conn'.ordinal \in {conn.ordinal, conn.ordinal + 1}
      /\ Base' = Base /\ Listening' = Listening
      /\ conn' \in [state : {"closed", "registered", "observed", "open"}, cut : 0 .. Len(log),
                    next : 0 .. Len(log) + 1, ordinal : Nat, ordinalCut : Nat]
    <2>1. conn' = conn \/ conn' = [conn EXCEPT !.ordinal = conn.ordinal + 1]
        BY <1>2
    <2>2. /\ conn'.state = conn.state /\ conn'.cut = conn.cut /\ conn'.next = conn.next
          /\ conn'.ordinalCut = conn.ordinalCut /\ conn'.ordinal \in {conn.ordinal, conn.ordinal + 1}
          /\ conn' \in [state : {"closed", "registered", "observed", "open"}, cut : 0 .. Len(log),
                        next : 0 .. Len(log) + 1, ordinal : Nat, ordinalCut : Nat]
        BY <1>1, <2>1, SMTT(30)
    <2>3. Base' = Base /\ Listening' = Listening
        BY <2>2 DEF Base, Listening
    <2> QED BY <2>2, <2>3
<1>4. /\ Attempts \subseteq Attempts' /\ Frames \subseteq Frames'
      /\ Items \subseteq Items' /\ Seq(Items) \subseteq Seq(Items')
      /\ \A k : ClientsTo(k) \subseteq ClientsTo(k)'
    BY <1>1, <1>3, TypesGrow, SMTT(30)
<1>5. /\ e.type = "frame" /\ e.frame = f /\ e.ordinal = conn.ordinal + 1
      /\ Live(e, conn.ordinalCut)
    BY <1>1 DEF NoticeOf, Live
<1>6. Listening => e \in Items'
    <2> SUFFICES ASSUME Listening PROVE e \in Items'
        OBVIOUS
    <2>1. conn'.ordinal = conn.ordinal + 1
        BY <1>1, <1>2
    <2>2. e.ordinal \in 1..conn'.ordinal
        BY <1>1, <1>5, <2>1
    <2>3. f \in Frames'
        BY <1>4
    <2> HIDE DEF Frames
    <2> QED BY <1>5, <2>1, <2>2, <2>3, <1>1 DEF Items, NoticeOf
<1>7. queue \in Seq(Items')
    BY <1>1, <1>4
<1> HIDE DEF e
<1>8. HostTypes'
    <2>1. Accept(stream, f) \in [rev : Nat, active : Attempts]
        BY <1>1, AcceptIs
    <2>2. stream' \in [rev : Nat, active : Attempts']
        BY <1>2, <1>4, <2>1
    <2> QED BY <2>2 DEF FollowInv, HostTypes
<1>9. ConnTypes'
    <2>1. conn'.ordinalCut <= conn'.ordinal
        BY <1>1, <1>3
    <2>2. queue' \in Seq(Items')
        BY <1>2, <1>6, <1>7
    <2>3. ~Listening' => queue' = <<>>
        BY <1>2, <1>3 DEF FollowInv, ConnTypes
    <2> QED BY <1>3, <2>1, <2>2, <2>3 DEF ConnTypes
<1>10. ClientTypes'
    BY <1>3, <1>4 DEF FollowInv, ClientTypes
<1>11. StreamTrue'
    <2>1. /\ Accept(stream, f).rev # 0 /\ (Accept(stream, f).active.id = 0 => Accept(stream, f).active.next = 0)
          /\ \/ Accept(stream, f).active.id = 0
             \/ f.type = "start" /\ Accept(stream, f).active.id = f.id /\ Accept(stream, f).active.after = f.after
             \/ f.type = "chunk" /\ Accept(stream, f).active.id = f.id
                /\ Accept(stream, f).active.id = stream.active.id
                /\ Accept(stream, f).active.after = stream.active.after
        BY <1>1, AcceptIs
    <2>2. f.type # "end" => agent'.attempt = f.id
        BY DEF IdAfter
    <2>3. \A m \in Settled : m <= Len(log)
        BY <1>1
    <2>4. stream.active.id # 0 => \A m \in Settled : m <= stream.active.after
        BY DEF FollowInv, StreamTrue
    <2> QED BY <1>1, <1>2, <2>1, <2>2, <2>3, <2>4 DEF StreamTrue
<1>12. QueueCovers'
    <2> SUFFICES ASSUME conn.state \in {"observed", "open"} PROVE Covered(queue', Base, Len(log))
        BY <1>1, <1>3 DEF QueueCovers
    <2>1. Covered(queue, Base, Len(log)) /\ queue' = Append(queue, e) /\ e \in Items'
        BY <1>2, <1>6 DEF FollowInv, QueueCovers, Listening
    <2> QED BY <1>1, <1>5, <1>7, <2>1, CoveredFrame
<1>13. FramesLinked'
    <2> SUFFICES ASSUME conn.state = "open"
                 PROVE  Linked(queue', conn.ordinalCut, client.rev, client.active.id, agent')
        BY <1>3 DEF FollowInv, FramesLinked
    <2>1. /\ Linked(queue, conn.ordinalCut, client.rev, client.active.id, agent)
          /\ queue' = Append(queue, e) /\ e \in Items'
        BY <1>2, <1>6 DEF FollowInv, FramesLinked, Listening
    <2>2. IF e.frame.type = "start" THEN agent.attempt = 0 ELSE e.frame.id = agent.attempt
        BY <1>5
    <2>3. client.rev \in Nat
        BY DEF FollowInv, ClientTypes, ClientsTo
    <2>4. e.frame.rev = agent.rev + 1 /\ agent'.rev = e.frame.rev /\ agent'.attempt = IdAfter(e.frame)
        BY <1>5
    <2> QED BY <1>1, <1>a, <1>5, <1>7, <2>1, <2>2, <2>3, <2>4, LinkedFrame
<1>14. SettlementsPaired'
    <2> SUFFICES ASSUME conn.state = "open", ~overtaken
                 PROVE  /\ Paired(queue', conn.ordinalCut, conn.next, client.active, Settled)
                        /\ client.active.id # 0 =>
                               /\ OnlyLast(client)
                               /\ client.pending # {} => EndsAt(1, client.cursor, queue', conn.ordinalCut)
        BY <1>1, <1>3 DEF SettlementsPaired
    <2>1. /\ Paired(queue, conn.ordinalCut, conn.next, client.active, Settled)
          /\ client.active.id # 0 =>
                 /\ OnlyLast(client)
                 /\ client.pending # {} => EndsAt(1, client.cursor, queue, conn.ordinalCut)
          /\ queue' = Append(queue, e) /\ e \in Items'
        BY <1>2, <1>6 DEF FollowInv, SettlementsPaired, Listening
    <2>2. e.type # "created" /\ e.type # "event"
        BY <1>5
    <2>3. e.frame.type = "start" => \A m \in Settled : m <= e.frame.after
        BY <1>1, <1>5
    <2>4. Paired(queue', conn.ordinalCut, conn.next, client.active, Settled)
        BY <1>7, <2>1, <2>2, <2>3, PairedOther
    <2>5. EndsAt(1, client.cursor, queue, conn.ordinalCut) => EndsAt(1, client.cursor, queue', conn.ordinalCut)
        BY <1>7, <2>1, AppendIs DEF EndsAt
    <2> QED BY <2>1, <2>4, <2>5
<1>15. Window'
    BY DEF FollowInv, Window
<1> QED BY <1>8, <1>9, <1>10, <1>11, <1>12, <1>13, <1>14, <1>15 DEF FollowInv

(* The agent settles its attempt: the event and, behind it, the end frame. *)
LEMMA SettlementEmitted ==
    ASSUME FollowInv, NEW type \in Settlements, NEW step \in 0..MaxSteps, NEW f \in Frames',
           log' = Append(log, Event(type, step)), Notify(<<Heard(Len(log'))>>, f),
           UNCHANGED <<client, overtaken>>,
           f.type = "end", f.rev = agent.rev + 1, f.id = agent.attempt, f.seq = Len(log'),
           agent' \in Agents, agent'.rev = f.rev, agent'.attempt = 0,
           twists' \in 0..MaxTwists
    PROVE  FollowInv'
<1> DEFINE n == Len(log) + 1
           h == Heard(n)
           e == NoticeOf(f)
           mid == Append(queue, h)
<1>1. Event(type, step) \in Events /\ Event(type, step).type \in Settlements
    BY DEF Event, Events
<1>2. /\ log' \in Seq(Events) /\ Len(log) \in Nat /\ Len(log') = n
      /\ Settled \subseteq 1..Len(log) /\ Settled' = Settled \cup {n}
    BY <1>1, LogGrows DEF FollowInv, HostTypes
<1>3. /\ conn.ordinal \in Nat /\ conn.ordinalCut \in Nat /\ Base \in Nat
      /\ conn.ordinalCut <= conn.ordinal /\ queue \in Seq(Items) /\ agent.rev \in Nat
      /\ stream \in [rev : Nat, active : Attempts]
      /\ conn \in [state : {"closed", "registered", "observed", "open"}, cut : 0 .. Len(log),
                   next : 0 .. Len(log) + 1, ordinal : Nat, ordinalCut : Nat]
    BY QueueItems DEF FollowInv, ConnTypes, HostTypes, Agents
<1>a. /\ \A i \in DOMAIN queue : queue[i] \in Items
      /\ \A i \in DOMAIN queue : Live(queue[i], conn.ordinalCut) => queue[i].frame.rev \in Nat
      /\ \A i \in DOMAIN queue : queue[i].type = "event" => queue[i].n \in 1..Len(log)
      /\ \A i \in DOMAIN queue : queue[i].type = "created" => queue[i].end \in 0..Len(log)
    BY QueueItems DEF FollowInv, Live
<1>4. /\ stream' = Accept(stream, f)
      /\ ~Listening => queue' = queue /\ conn' = conn
      /\ Listening => queue' = Append(mid, e) /\ conn' = [conn EXCEPT !.ordinal = conn.ordinal + 1]
    <2>1. ASSUME Listening PROVE queue' = Append(mid, e) /\ conn' = [conn EXCEPT !.ordinal = conn.ordinal + 1]
        <3>1. Heard(Len(log')) = h
            BY <1>2
        <3>2. queue' = Append(queue \o <<h>>, e) /\ conn' = [conn EXCEPT !.ordinal = conn.ordinal + 1]
            BY <2>1, <3>1 DEF Notify, NoticeOf
        <3>3. queue \o <<h>> = Append(queue, h)
            BY <1>3
        <3> QED BY <3>2, <3>3
    <2>2. stream' = Accept(stream, f) /\ (~Listening => queue' = queue /\ conn' = conn)
        BY DEF Notify
    <2> QED BY <2>1, <2>2
<1>5. /\ conn'.state = conn.state /\ conn'.cut = conn.cut /\ conn'.next = conn.next
      /\ conn'.ordinalCut = conn.ordinalCut /\ conn'.ordinal \in {conn.ordinal, conn.ordinal + 1}
      /\ Base' = Base /\ Listening' = Listening
      /\ conn' \in [state : {"closed", "registered", "observed", "open"}, cut : 0 .. Len(log),
                    next : 0 .. Len(log) + 1, ordinal : Nat, ordinalCut : Nat]
    <2>1. conn' = conn \/ conn' = [conn EXCEPT !.ordinal = conn.ordinal + 1]
        BY <1>4
    <2>2. /\ conn'.state = conn.state /\ conn'.cut = conn.cut /\ conn'.next = conn.next
          /\ conn'.ordinalCut = conn.ordinalCut /\ conn'.ordinal \in {conn.ordinal, conn.ordinal + 1}
          /\ conn' \in [state : {"closed", "registered", "observed", "open"}, cut : 0 .. Len(log),
                        next : 0 .. Len(log) + 1, ordinal : Nat, ordinalCut : Nat]
        BY <1>3, <2>1, SMTT(30)
    <2>3. Base' = Base /\ Listening' = Listening
        BY <2>2 DEF Base, Listening
    <2> QED BY <2>2, <2>3
<1>6. n \in Nat /\ Len(log) <= Len(log') /\ n \notin Settled /\ Len(log') \in Nat
    BY <1>2
<1>7. /\ Attempts \subseteq Attempts' /\ Items \subseteq Items' /\ Seq(Items) \subseteq Seq(Items')
      /\ \A k : ClientsTo(k) \subseteq ClientsTo(k)'
    BY <1>2, <1>3, <1>5, <1>6, TypesGrow, SMTT(30)
<1>8. /\ e.type = "frame" /\ e.frame = f /\ e.ordinal = conn.ordinal + 1
      /\ Live(e, conn.ordinalCut)
    BY <1>3 DEF NoticeOf, Live
<1>9. h \in Items' /\ h.type = "event" /\ h.n = n
    BY <1>2 DEF Heard, Items
<1>10. Listening => e \in Items'
    <2> SUFFICES ASSUME Listening PROVE e \in Items'
        OBVIOUS
    <2>1. conn'.ordinal = conn.ordinal + 1
        BY <1>3, <1>4
    <2>2. e.ordinal \in 1..conn'.ordinal
        BY <1>3, <1>8, <2>1
    <2> HIDE DEF Frames
    <2> QED BY <1>8, <2>1, <2>2, <1>3 DEF Items, NoticeOf
<1>11. queue \in Seq(Items') /\ mid \in Seq(Items')
    BY <1>3, <1>7, <1>9
<1>m. /\ Len(queue) \in Nat /\ DOMAIN queue = 1..Len(queue) /\ DOMAIN mid = 1..(Len(queue) + 1)
      /\ mid[Len(queue) + 1] = h /\ \A i \in 1..Len(queue) : mid[i] = queue[i]
      /\ Len(mid) = Len(queue) + 1
    BY <1>9, <1>11, AppendIs
<1>q. /\ \A i \in DOMAIN mid : i = Len(mid) \/ (i \in DOMAIN queue /\ mid[i] = queue[i])
      /\ mid[Len(mid)] = h
    BY <1>m
<1>e. ~Live(h, conn.ordinalCut)
    BY <1>9 DEF Live
<1> HIDE DEF n, h, e, mid
<1>12. HostTypes'
    <2>1. stream \in [rev : Nat, active : Attempts']
        BY <1>3, <1>7
    <2>2. Accept(stream, f) \in [rev : Nat, active : Attempts']
        <3>1. NoAttempt \in Attempts
            BY <1>2, Plainly
        <3>2. f.rev \in Nat
            BY <1>3
        <3>3. Accept(stream, f) = [rev |-> f.rev, active |-> NoAttempt]
            BY DEF Accept
        <3> QED BY <1>7, <3>1, <3>2, <3>3
    <2>3. stream' \in [rev : Nat, active : Attempts']
        BY <1>4, <2>2
    <2> QED BY <1>2, <2>3 DEF FollowInv, HostTypes
<1>13. ConnTypes'
    <2>1. conn'.ordinalCut <= conn'.ordinal
        BY <1>3, <1>5
    <2>2. queue' \in Seq(Items')
        <3>1. Listening => Append(mid, e) \in Seq(Items')
            BY <1>10, <1>11, AppendIs
        <3> QED BY <1>4, <1>11, <3>1
    <2>3. ~Listening' => queue' = <<>>
        BY <1>4, <1>5 DEF FollowInv, ConnTypes
    <2>4. conn' \in [state : {"closed", "registered", "observed", "open"}, cut : 0 .. Len(log'),
                     next : 0 .. Len(log') + 1, ordinal : Nat, ordinalCut : Nat]
        BY <1>5, <1>2, <1>6
    <2> QED BY <2>1, <2>2, <2>3, <2>4 DEF ConnTypes
<1>14. ClientTypes'
    BY <1>2, <1>5, <1>6, <1>7 DEF FollowInv, ClientTypes
<1>15. StreamTrue'
    <2>1. stream'.active.id = 0 /\ stream'.active.next = 0
        BY <1>4 DEF Accept, NoAttempt
    <2> QED BY <2>1 DEF StreamTrue
<1>16. QueueCovers'
    <2> SUFFICES ASSUME conn.state \in {"observed", "open"} PROVE Covered(queue', Base, n)
        BY <1>2, <1>5 DEF QueueCovers
    <2>1. Covered(queue, Base, Len(log)) /\ queue' = Append(mid, e) /\ e \in Items'
        BY <1>4, <1>10 DEF FollowInv, QueueCovers, Listening
    <2>2. n = Len(log) + 1 /\ n \in 1..(Len(log) + 1) /\ h = Heard(n) /\ mid = Append(queue, h)
        BY <1>2 DEF n, h, mid
    <2>3. Covered(Append(queue, Heard(n)), Base, IF n = Len(log) + 1 THEN n ELSE Len(log))
        BY <1>2, <1>3, <1>9, <1>11, <2>1, <2>2, CoveredHeard
    <2>4. Covered(mid, Base, n)
        BY <2>2, <2>3
    <2> QED BY <1>3, <1>6, <1>8, <1>11, <2>1, <2>4, CoveredFrame
<1>17. FramesLinked'
    <2> SUFFICES ASSUME conn.state = "open"
                 PROVE  Linked(queue', conn.ordinalCut, client.rev, client.active.id, agent')
        BY <1>5 DEF FollowInv, FramesLinked
    <2>1. /\ Linked(queue, conn.ordinalCut, client.rev, client.active.id, agent)
          /\ queue' = Append(mid, e) /\ e \in Items' /\ mid = Append(queue, h)
        BY <1>4, <1>10 DEF FollowInv, FramesLinked, Listening, mid
    <2>2. Linked(mid, conn.ordinalCut, client.rev, client.active.id, agent)
        BY <1>9, <1>11, <1>e, <2>1, LinkedOther
    <2>3. \A i \in DOMAIN mid : Live(mid[i], conn.ordinalCut) => mid[i].frame.rev \in Nat
        BY <1>a, <1>q, <1>e
    <2>4. client.rev \in Nat
        BY DEF FollowInv, ClientTypes, ClientsTo
    <2>5. /\ e.frame.rev = agent.rev + 1 /\ agent'.rev = e.frame.rev /\ agent'.attempt = IdAfter(e.frame)
          /\ IF e.frame.type = "start" THEN agent.attempt = 0 ELSE e.frame.id = agent.attempt
        BY <1>8 DEF IdAfter
    <2> QED BY <1>3, <1>8, <1>11, <2>1, <2>2, <2>3, <2>4, <2>5, LinkedFrame
<1>18. SettlementsPaired'
    <2> SUFFICES ASSUME conn.state = "open", ~overtaken
                 PROVE  /\ Paired(queue', conn.ordinalCut, conn.next, client.active, Settled \cup {n})
                        /\ client.active.id # 0 =>
                               /\ OnlyLast(client)
                               /\ client.pending # {} => EndsAt(1, client.cursor, queue', conn.ordinalCut)
        BY <1>2, <1>5 DEF SettlementsPaired
    <2>1. /\ Paired(queue, conn.ordinalCut, conn.next, client.active, Settled)
          /\ client.active.id # 0 =>
                 /\ OnlyLast(client)
                 /\ client.pending # {} => EndsAt(1, client.cursor, queue, conn.ordinalCut)
          /\ queue' = Append(mid, e) /\ e \in Items' /\ mid = Append(queue, h)
        BY <1>4, <1>10 DEF FollowInv, SettlementsPaired, Listening, mid
    <2>2. h.type # "created" /\ h.n \notin Settled
        BY <1>6, <1>9
    <2>3. Paired(mid, conn.ordinalCut, conn.next, client.active, Settled)
        BY <1>9, <1>11, <1>e, <2>1, <2>2, PairedOther
    <2>4. \A i \in DOMAIN mid : mid[i].type = "event" /\ mid[i].n = n => i = Len(mid)
        <3> SUFFICES ASSUME NEW i \in DOMAIN queue, queue[i].type = "event", queue[i].n = n PROVE FALSE
            BY <1>q
        <3> QED BY <1>2, <1>a DEF n
    <2>5. \A i \in DOMAIN mid : mid[i].type = "created" => mid[i].end \in Nat /\ mid[i].end < n
        <3> SUFFICES ASSUME NEW i \in DOMAIN queue, queue[i].type = "created"
                     PROVE  queue[i].end \in Nat /\ queue[i].end < n
            BY <1>9, <1>q
        <3> QED BY <1>2, <1>a DEF n
    <2>6. e.frame.type = "end" /\ e.frame.seq = n
        BY <1>2, <1>8
    <2>7. Paired(queue', conn.ordinalCut, conn.next, client.active, Settled \cup {n})
        BY <1>6, <1>8, <1>11, <2>1, <2>3, <2>4, <2>5, <2>6, PairedSettled
    <2>8. ASSUME EndsAt(1, client.cursor, queue, conn.ordinalCut)
          PROVE  EndsAt(1, client.cursor, queue', conn.ordinalCut)
        <3>1. 1 \in DOMAIN mid /\ mid[1] = queue[1]
            BY <1>m, <2>8 DEF EndsAt
        <3>2. /\ DOMAIN mid = 1..Len(mid) /\ DOMAIN Append(mid, e) = 1..(Len(mid) + 1) /\ Len(mid) \in Nat
              /\ \A i \in 1..Len(mid) : Append(mid, e)[i] = mid[i]
            BY <1>11, <2>1, AppendIs
        <3>3. 1 \in DOMAIN queue' /\ queue'[1] = mid[1]
            BY <2>1, <3>1, <3>2
        <3> QED BY <2>8, <3>1, <3>3 DEF EndsAt
    <2> QED BY <2>1, <2>7, <2>8
<1>19. Window'
    BY DEF FollowInv, Window
<1> QED BY <1>12, <1>13, <1>14, <1>15, <1>16, <1>17, <1>18, <1>19 DEF FollowInv

(* At most one element more. *)
LEMMA BehindIs ==
    ASSUME NEW S, NEW e \in S, NEW q \in Seq(S), NEW p, p = <<>> \/ p = <<e>>
    PROVE  /\ q \o p \in Seq(S) /\ Len(q) \in Nat /\ Len(q \o p) = Len(q) + Len(p)
           /\ \A i \in DOMAIN q : i \in DOMAIN (q \o p) /\ (q \o p)[i] = q[i]
           /\ \A i \in DOMAIN (q \o p) : i \in DOMAIN q \/ (q \o p)[i] = e
<1>1. CASE p = <<>>
    <2>1. q \o p = q /\ Len(p) = 0
        BY <1>1
    <2> QED BY <2>1
<1>2. CASE p = <<e>>
    <2>1. q \o p = Append(q, e) /\ Len(p) = 1
        BY <1>2
    <2>2. /\ Append(q, e) \in Seq(S) /\ Len(q) \in Nat /\ Len(Append(q, e)) = Len(q) + 1
          /\ DOMAIN q = 1..Len(q) /\ DOMAIN Append(q, e) = 1..(Len(q) + 1)
          /\ \A i \in 1..Len(q) : Append(q, e)[i] = q[i]
          /\ Append(q, e)[Len(q) + 1] = e
        BY AppendIs
    <2>3. \A i \in 1..(Len(q) + 1) : i \in 1..Len(q) \/ i = Len(q) + 1
        BY <2>2
    <2>4. \A i \in 1..Len(q) : i \in 1..(Len(q) + 1)
        BY <2>2
    <2> HIDE <1>2
    <2> QED BY ONLY <2>1, <2>2, <2>3, <2>4
<1> QED BY <1>1, <1>2

(* Events that settle nothing, at most two. *)
LEMMA AsidesAppended ==
    ASSUME log \in Seq(Events), NEW p \in {<<>>, <<Event("other", 0)>>},
           NEW w \in {<<>>, <<Event("other", 0)>>}, log' = log \o p \o w
    PROVE  /\ log' \in Seq(Events) /\ Len(log) \in Nat /\ Len(log') = Len(log) + Len(p) + Len(w)
           /\ Settled' = Settled
<1> DEFINE o == Event("other", 0)
           k == log \o p
<1>1. o \in Events /\ o.type \notin Settlements
    BY Bounds DEF Event, Events, Settlements
<1>2. (p = <<>> \/ p = <<o>>) /\ (w = <<>> \/ w = <<o>>) /\ log' = k \o w
    OBVIOUS
<1> HIDE DEF o
<1>3. /\ k \in Seq(Events) /\ Len(log) \in Nat /\ Len(k) = Len(log) + Len(p)
      /\ \A i \in DOMAIN log : i \in DOMAIN k /\ k[i] = log[i]
      /\ \A i \in DOMAIN k : i \in DOMAIN log \/ k[i] = o
    BY <1>1, <1>2, BehindIs
<1> HIDE DEF k
<1>4. /\ log' \in Seq(Events) /\ Len(log') = Len(k) + Len(w)
      /\ \A i \in DOMAIN k : i \in DOMAIN log' /\ log'[i] = k[i]
      /\ \A i \in DOMAIN log' : i \in DOMAIN k \/ log'[i] = o
    <2>1. /\ k \o w \in Seq(Events) /\ Len(k \o w) = Len(k) + Len(w)
          /\ \A i \in DOMAIN k : i \in DOMAIN (k \o w) /\ (k \o w)[i] = k[i]
          /\ \A i \in DOMAIN (k \o w) : i \in DOMAIN k \/ (k \o w)[i] = o
        <3>1. k \in Seq(Events) /\ o \in Events /\ (w = <<>> \/ w = <<o>>)
            BY <1>1, <1>2, <1>3
        <3> QED BY <3>1, BehindIs
    <2> QED BY <1>2, <2>1
<1>5. ASSUME NEW i PROVE i \in Settled' <=> i \in Settled
    BY <1>1, <1>3, <1>4 DEF Settled
<1>6. Settled' = Settled
    BY <1>5
<1>7. Len(log') = Len(log) + Len(p) + Len(w)
    BY <1>3, <1>4
<1> QED BY <1>3, <1>4, <1>6, <1>7

(* A created notice in front of the queue, and an event that an observer writes behind it. *)
LEMMA CreatedInFront ==
    ASSUME FollowInv, log' \in Seq(Events), Len(log) <= Len(log'), Settled' = Settled,
           UNCHANGED <<stream, conn, client>>,
           NEW observed \in BOOLEAN, NEW end \in Nat, Len(log) <= end,
           observed => Len(log) < Len(log') /\ end \in {Len(log'), Len(log') - 1},
           ~observed => end = Len(log'),
           queue' = IF ~Listening THEN queue
                    ELSE <<Created(end)>> \o queue \o IF observed THEN <<Heard(Len(log'))>> ELSE <<>>,
           overtaken' = (overtaken \/ (Listening /\ \E i \in DOMAIN queue : queue[i].type = "frame")),
           agent' \in Agents, agent'.rev = 0, agent'.attempt = agent.attempt,
           twists' \in 0..MaxTwists
    PROVE  FollowInv'
<1> DEFINE n == Len(log')
           c == Created(end)
           h == Heard(n)
           mid == <<c>> \o queue
<1>1. /\ Len(log) \in Nat /\ n \in Nat /\ Len(log) <= n /\ end <= n /\ Settled \subseteq 1..Len(log)
      /\ conn.ordinal \in Nat /\ conn.ordinalCut \in Nat /\ Base \in Nat
      /\ conn.ordinalCut <= conn.ordinal /\ queue \in Seq(Items)
      /\ observed => n >= 1 /\ n \in 1..(end + 1) /\ n <= end + 1 /\ n >= end /\ n \notin Settled
    BY QueueItems, SMTT(30) DEF FollowInv, ConnTypes
<1>a. /\ \A i \in DOMAIN queue : queue[i] \in Items
      /\ \A i \in DOMAIN queue : Live(queue[i], conn.ordinalCut) => queue[i].frame.rev # 0
      /\ \A i \in DOMAIN queue : queue[i].type = "event" => queue[i].n \in Nat /\ queue[i].n <= Len(log)
    BY QueueItems DEF FollowInv, Live
<1>2. /\ Attempts \subseteq Attempts' /\ Items \subseteq Items' /\ Seq(Items) \subseteq Seq(Items')
      /\ \A k : ClientsTo(k) \subseteq ClientsTo(k)'
    BY <1>1, TypesGrow
<1>3. c \in Items' /\ c.type = "created" /\ c.end = end /\ ~Live(c, conn.ordinalCut)
    BY <1>1 DEF Created, Items, Live
<1>4. h.type = "event" /\ h.n = n /\ ~Live(h, conn.ordinalCut) /\ (observed => h \in Items')
    BY <1>1 DEF Heard, Items, Live
<1>5. queue \in Seq(Items')
    BY <1>1, <1>2
<1>6. /\ mid \in Seq(Items') /\ Len(queue) \in Nat /\ Len(mid) = Len(queue) + 1 /\ DOMAIN queue = 1..Len(queue)
      /\ DOMAIN mid = 1..(Len(queue) + 1) /\ mid[1] = c /\ \A i \in 1..Len(queue) : mid[i + 1] = queue[i]
    BY <1>3, <1>5, ConsIs
<1>7. ~Listening => queue' = queue
    OBVIOUS
<1>8. Listening => queue' = IF observed THEN Append(mid, h) ELSE mid
    <2> SUFFICES ASSUME Listening PROVE queue' = IF observed THEN Append(mid, h) ELSE mid
        OBVIOUS
    <2>1. queue' = mid \o IF observed THEN <<h>> ELSE <<>>
        OBVIOUS
    <2> HIDE DEF mid, h
    <2>2. mid \o <<h>> = Append(mid, h) /\ mid \o <<>> = mid
        BY <1>6
    <2> QED BY <2>1, <2>2
<1>e. /\ n = Len(log') /\ h = Heard(n) /\ c = Created(end) /\ mid = <<c>> \o queue
    OBVIOUS
<1> HIDE DEF n, c, h, mid
<1>9. HostTypes'
    BY <1>2 DEF FollowInv, HostTypes
<1>10. ConnTypes'
    <2>1. /\ conn' \in [state : {"closed", "registered", "observed", "open"}, cut : 0 .. Len(log'),
                        next : 0 .. Len(log') + 1, ordinal : Nat, ordinalCut : Nat]
          /\ conn'.ordinalCut <= conn'.ordinal
        BY <1>1, <1>e DEF FollowInv, ConnTypes
    <2>2. observed => Append(mid, h) \in Seq(Items')
        BY <1>4, <1>6, AppendIs
    <2>3. queue' \in Seq(Items')
        BY <1>5, <1>6, <1>7, <1>8, <2>2
    <2>4. ~Listening' => queue' = <<>>
        BY <1>7 DEF FollowInv, ConnTypes, Listening
    <2> QED BY <2>1, <2>3, <2>4 DEF ConnTypes
<1>11. ClientTypes'
    BY <1>1, <1>2, <1>e DEF FollowInv, ClientTypes
<1>12. StreamTrue'
    BY DEF FollowInv, StreamTrue
<1>13. QueueCovers'
    <2> SUFFICES ASSUME conn.state \in {"observed", "open"} PROVE Covered(queue', Base, n)
        BY <1>e DEF QueueCovers, Base
    <2>1. Covered(queue, Base, Len(log)) /\ Listening
        BY DEF FollowInv, QueueCovers, Listening
    <2>2. Covered(mid, Base, end)
        <3>1. Created(end) \in Items'
            BY <1>3, <1>e
        <3>2. Covered(<<Created(end)>> \o queue, Base, end)
            BY <1>1, <1>a, <1>5, <2>1, <3>1, CoveredCreated
        <3> QED BY <1>e, <3>2
    <2>3. CASE observed
        <3>1. Covered(Append(mid, Heard(n)), Base, IF n = end + 1 THEN n ELSE end)
            BY <1>1, <1>4, <1>6, <1>e, <2>2, <2>3, CoveredHeard
        <3>2. (IF n = end + 1 THEN n ELSE end) = n
            BY <1>1, <1>e, <2>3
        <3> QED BY <1>8, <1>e, <2>1, <2>3, <3>1, <3>2
    <2>4. CASE ~observed
        BY <1>8, <1>e, <2>1, <2>2, <2>4
    <2> QED BY <2>3, <2>4
<1>14. FramesLinked'
    <2> SUFFICES ASSUME conn.state = "open"
                 PROVE  Linked(queue', conn.ordinalCut, client.rev, client.active.id, agent')
        BY DEF FollowInv, FramesLinked
    <2>1. Linked(queue, conn.ordinalCut, client.rev, client.active.id, agent) /\ Listening
          /\ (client.rev = 0 => client.active.id = 0)
        BY DEF FollowInv, FramesLinked, Listening
    <2>2. Linked(queue, conn.ordinalCut, client.rev, client.active.id, agent')
        BY <1>a, <2>1, LinkedAnew
    <2>3. Linked(mid, conn.ordinalCut, client.rev, client.active.id, agent')
        BY <1>3, <1>5, <1>e, <2>2, LinkedFront
    <2>4. observed => Linked(Append(mid, h), conn.ordinalCut, client.rev, client.active.id, agent')
        BY <1>4, <1>6, <2>3, LinkedOther
    <2> QED BY <1>8, <2>1, <2>3, <2>4
<1>15. SettlementsPaired'
    <2> SUFFICES ASSUME conn.state = "open", ~overtaken'
                 PROVE  /\ Paired(queue', conn.ordinalCut, conn.next, client.active, Settled)
                        /\ client.active.id # 0 =>
                               /\ OnlyLast(client)
                               /\ client.pending # {} => EndsAt(1, client.cursor, queue', conn.ordinalCut)
        BY DEF SettlementsPaired
    <2>1. Listening /\ ~overtaken /\ \A i \in DOMAIN queue : queue[i].type # "frame"
        BY DEF Listening
    <2>2. /\ Paired(queue, conn.ordinalCut, conn.next, client.active, Settled)
          /\ client.active.id # 0 =>
                 /\ OnlyLast(client)
                 /\ client.pending # {} => EndsAt(1, client.cursor, queue, conn.ordinalCut)
          /\ Covered(queue, conn.next, Len(log)) /\ conn.next \in Nat
        BY <1>1, <2>1 DEF FollowInv, SettlementsPaired, QueueCovers, Base
    <2>3. client.active.id # 0 => client.pending = {}
        BY <2>1, <2>2 DEF EndsAt, Live
    <2>4. Paired(mid, conn.ordinalCut, conn.next, client.active, Settled)
        <3>1. Created(end) \in Items'
            BY <1>3, <1>e
        <3>2. Paired(<<Created(end)>> \o queue, conn.ordinalCut, conn.next, client.active, Settled)
            BY <1>1, <1>5, <2>1, <2>2, <3>1, PairedCreated
        <3> QED BY <1>e, <3>2
    <2>5. observed => Paired(Append(mid, h), conn.ordinalCut, conn.next, client.active, Settled)
        BY <1>1, <1>4, <1>6, <2>4, PairedOther
    <2> QED BY <1>8, <2>1, <2>2, <2>3, <2>4, <2>5
<1>16. Window'
    BY DEF FollowInv, Window
<1> QED BY <1>9, <1>10, <1>11, <1>12, <1>13, <1>14, <1>15, <1>16 DEF FollowInv

(* The session is created or resumed. *)
LEMMA LoadKeeps ==
    ASSUME FollowInv, Load
    PROVE  FollowInv'
<1>1. PICK observed \in BOOLEAN, early \in BOOLEAN :
          LET prepared == IF agent.lives = 0 THEN <<>> ELSE <<Event("other", 0)>>
              written == IF observed THEN <<Event("other", 0)>> ELSE <<>>
              end == Len(log') - IF observed /\ ~early THEN 1 ELSE 0
          IN  /\ log' = log \o prepared \o written
              /\ IF observed THEN Twist ELSE UNCHANGED twists
              /\ queue' = IF ~Listening THEN queue
                          ELSE <<Created(end)>> \o queue
                               \o IF observed THEN <<Heard(Len(log'))>> ELSE <<>>
    BY DEF Load
<1> DEFINE p == IF agent.lives = 0 THEN <<>> ELSE <<Event("other", 0)>>
           w == IF observed THEN <<Event("other", 0)>> ELSE <<>>
           end == Len(log') - IF observed /\ ~early THEN 1 ELSE 0
<1>2. /\ p \in {<<>>, <<Event("other", 0)>>} /\ w \in {<<>>, <<Event("other", 0)>>}
      /\ Len(p) \in {0, 1} /\ Len(w) = IF observed THEN 1 ELSE 0
    OBVIOUS
<1>3. log' = log \o p \o w /\ log \in Seq(Events)
    BY <1>1 DEF FollowInv, HostTypes
<1> HIDE DEF p, w
<1>4. /\ log' \in Seq(Events) /\ Len(log) \in Nat /\ Len(log') = Len(log) + Len(p) + Len(w)
      /\ Settled' = Settled
    BY <1>2, <1>3, AsidesAppended
<1>5. /\ end \in Nat /\ Len(log) <= end /\ Len(log) <= Len(log')
      /\ observed => Len(log) < Len(log') /\ end \in {Len(log'), Len(log') - 1}
      /\ ~observed => end = Len(log')
    BY <1>2, <1>4
<1>6. queue' = IF ~Listening THEN queue
               ELSE <<Created(end)>> \o queue \o IF observed THEN <<Heard(Len(log'))>> ELSE <<>>
    BY <1>1
<1>7. twists' \in 0..MaxTwists
    BY <1>1, Bounds DEF Twist, FollowInv, HostTypes
<1>8. agent' \in Agents /\ agent'.rev = 0 /\ agent'.attempt = agent.attempt
    <2>1. agent \in Agents /\ 0 \in 0..MaxAttempts
        BY Bounds DEF FollowInv, HostTypes
    <2>2. agent.lives + 1 \in Nat
        BY <2>1 DEF Agents
    <2>3. agent' = [agent EXCEPT !.on = TRUE, !.lives = agent.lives + 1, !.rev = 0, !.count = 0]
        BY DEF Load
    <2> QED BY <2>1, <2>2, <2>3 DEF Agents
<1>9. /\ UNCHANGED <<stream, conn, client>>
      /\ overtaken' = (overtaken \/ (Listening /\ \E i \in DOMAIN queue : queue[i].type = "frame"))
    BY DEF Load
<1> HIDE DEF end
<1> QED BY <1>4, <1>5, <1>6, <1>7, <1>8, <1>9, CreatedInFront

(* What the steps of the connection make of the invariant. *)

(* A function on the numbers up to one is a sequence. *)
LEMMA FunctionIsSeq ==
    ASSUME NEW S, NEW n \in Nat, NEW g \in [1..n -> S]
    PROVE  g \in Seq(S) /\ Len(g) = n
  OBVIOUS

(* The page and the rows of the attempt that runs. *)
LEMMA ReplacedIs ==
    ASSUME Len(log) \in Nat, NEW cut \in Nat, NEW s \in [rev : Nat, active : Attempts],
           s.active.id = 0 => s.active.next = 0
    PROVE  LET c == Replaced(cut, s)
           IN  /\ c \in ClientsTo(cut) /\ c.cursor = cut /\ c.rev = s.rev /\ c.active = s.active
               /\ c.pending = {} /\ Whole(c) /\ Sorted(c.rows)
<1> DEFINE c0 == [rev |-> s.rev, active |-> s.active, retained |-> NoAttempt, pending |-> {},
                  published |-> 1 .. cut, cursor |-> cut, restart |-> FALSE, rows |-> <<>>]
           page == [n \in 1 .. cut |-> Durable(n)]
           own == [i \in 1 .. s.active.next |-> Chunk(c0, s.active, i)]
           c == Replaced(cut, s)
<1>1. NoAttempt \in Attempts /\ s.active \in Attempts /\ s.rev \in Nat
    BY Plainly
<1>2. /\ s.active.id \in 0..MaxAttempts /\ s.active.step \in 0..MaxSteps /\ s.active.next \in 0..MaxChunks
      /\ s.active.next \in Nat
    BY <1>1, Bounds DEF Attempts
<1>3. \A n \in 1..cut : Durable(n) \in RowsTo(cut) /\ Durable(n).event = n /\ Durable(n).id = 0
    BY Plainly
<1>4. \A i \in 1..s.active.next :
          /\ Chunk(c0, s.active, i) \in RowsTo(cut)
          /\ Chunk(c0, s.active, i).event = cut /\ Chunk(c0, s.active, i).id = s.active.id
          /\ Chunk(c0, s.active, i).index = i
    BY <1>2, Bounds DEF Chunk, RowsTo
<1>a. page \in [1..cut -> RowsTo(cut)]
    BY <1>3
<1>b. own \in [1..s.active.next -> RowsTo(cut)]
    BY <1>4
<1>6. \A n \in 1..cut : page[n] = Durable(n)
    OBVIOUS
<1>7. \A i \in 1..s.active.next : own[i] = Chunk(c0, s.active, i)
    OBVIOUS
<1>8. c = [c0 EXCEPT !.rows = page \o own]
    BY DEF Replaced
<1> HIDE DEF page, own
<1>5. page \in Seq(RowsTo(cut)) /\ Len(page) = cut /\ own \in Seq(RowsTo(cut)) /\ Len(own) = s.active.next
    BY <1>2, <1>a, <1>b, FunctionIsSeq
<1>9. /\ page \o own \in Seq(RowsTo(cut)) /\ DOMAIN (page \o own) = 1..(cut + s.active.next)
      /\ \A i \in 1..cut : (page \o own)[i] = page[i]
      /\ \A i \in 1..s.active.next : (page \o own)[cut + i] = own[i]
    <2>1. /\ page \o own \in Seq(RowsTo(cut)) /\ DOMAIN (page \o own) = 1..(Len(page) + Len(own))
          /\ \A i \in 1..Len(page) : (page \o own)[i] = page[i]
          /\ \A i \in 1..Len(own) : (page \o own)[Len(page) + i] = own[i]
        <3>1. page \in Seq(RowsTo(cut)) /\ own \in Seq(RowsTo(cut))
            BY <1>5
        <3> DEFINE R == RowsTo(cut)
        <3> HIDE DEF R
        <3>2. page \in Seq(R) /\ own \in Seq(R)
            BY <3>1 DEF R
        <3>3. /\ page \o own \in Seq(R) /\ DOMAIN (page \o own) = 1..(Len(page) + Len(own))
              /\ \A i \in 1..Len(page) : (page \o own)[i] = page[i]
              /\ \A i \in 1..Len(own) : (page \o own)[Len(page) + i] = own[i]
            BY ONLY <3>2, ConcatIs
        <3> QED BY <3>3 DEF R
    <2> QED BY <1>5, <2>1
<1> DEFINE rows == page \o own
<1>10. /\ c.rev = s.rev /\ c.active = s.active /\ c.pending = {} /\ c.cursor = cut /\ c.rows = rows
       /\ c.published = 1..cut /\ c.restart = FALSE /\ c.retained = NoAttempt
       /\ c = [rev |-> s.rev, active |-> s.active, retained |-> NoAttempt, pending |-> {},
               published |-> 1 .. cut, cursor |-> cut, restart |-> FALSE, rows |-> rows]
    BY <1>8
<1> HIDE DEF rows, c, c0
<1>11. c \in ClientsTo(cut)
    BY <1>1, <1>9, <1>10 DEF ClientsTo, rows
<1>12. \A i \in DOMAIN rows :
           \/ i \in 1..cut /\ rows[i].event = i /\ rows[i].id = 0 /\ rows[i] = Durable(i)
           \/ i > cut /\ rows[i].event = cut /\ rows[i].index # 0 /\ (rows[i].id = s.active.id)
    <2> SUFFICES ASSUME NEW i \in 1..(cut + s.active.next)
                 PROVE  \/ i \in 1..cut /\ rows[i].event = i /\ rows[i].id = 0 /\ rows[i] = Durable(i)
                        \/ i > cut /\ rows[i].event = cut /\ rows[i].index # 0 /\ (rows[i].id = s.active.id)
        BY <1>9 DEF rows
    <2>1. CASE i \in 1..cut
        BY <1>3, <1>6, <1>9, <2>1 DEF rows
    <2>2. CASE i \notin 1..cut
        <3>1. i - cut \in 1..s.active.next /\ cut + (i - cut) = i /\ i > cut
            BY <1>2, <2>2
        <3>2. rows[cut + (i - cut)] = Chunk(c0, s.active, i - cut)
            BY <1>7, <1>9, <3>1 DEF rows
        <3>3. rows[i] = Chunk(c0, s.active, i - cut) /\ i - cut # 0
            BY <1>2, <3>1, <3>2
        <3> QED BY <1>4, <3>1, <3>3
    <2> QED BY <2>1, <2>2
<1>13. Whole(c)
    <2> SUFFICES ASSUME NEW n \in 1..cut PROVE ShownIn(rows, n)
        BY <1>10 DEF Whole
    <2>1. n \in DOMAIN rows
        BY <1>2, <1>9 DEF rows
    <2> QED BY <1>12, <2>1, <1>6, <1>9 DEF ShownIn, rows
<1>14. Sorted(rows)
    <2> SUFFICES ASSUME NEW i \in DOMAIN rows, NEW j \in DOMAIN rows, i < j
                 PROVE  rows[i].event <= rows[j].event /\ (rows[j].id = 0 => rows[i].event < rows[j].event)
        BY DEF Sorted
    <2>1. i \in Nat /\ j \in Nat /\ j <= cut + s.active.next
        BY <1>2, <1>9 DEF rows
    <2> QED BY <1>2, <1>12, <2>1
<1> QED BY <1>10, <1>11, <1>13, <1>14 DEF c

(* Nothing is asked of a connection that is closed. *)
LEMMA ConnectionClosed ==
    ASSUME FollowInv, UNCHANGED <<log, agent, overtaken>>, stream' \in {stream, NoStream},
           conn'.state \notin {"observed", "open"}, queue' = <<>>,
           conn' \in [state : {"closed", "registered"}, cut : {0}, next : {0},
                      ordinal : {0}, ordinalCut : {0}],
           client' \in ClientsTo(client.cursor), client'.rows = client.rows,
           client'.pending = client.pending,
           twists' \in 0..MaxTwists
    PROVE  FollowInv'
<1>t. /\ Len(log) \in Nat
      /\ Attempts' = Attempts /\ \A k : ClientsTo(k)' = ClientsTo(k)
    BY DEF FollowInv, HostTypes, Attempts, ClientsTo
<1>c. client'.cursor = client.cursor
    BY DEF ClientsTo
<1>1. HostTypes'
    <2>1. NoAttempt \in Attempts
        BY <1>t, Plainly
    <2>2. NoStream \in [rev : Nat, active : Attempts]
        BY <2>1 DEF NoStream
    <2> QED BY <1>t, <2>2 DEF FollowInv, HostTypes
<1>2. ConnTypes'
    <2>1. /\ conn' \in [state : {"closed", "registered", "observed", "open"}, cut : 0 .. Len(log),
                        next : 0 .. Len(log) + 1, ordinal : Nat, ordinalCut : Nat]
          /\ conn'.ordinalCut <= conn'.ordinal
        BY <1>t
    <2>2. queue' \in Seq(Items')
        OBVIOUS
    <2> QED BY <2>1, <2>2 DEF ConnTypes
<1>3. ClientTypes'
    BY <1>t, <1>c DEF FollowInv, ClientTypes
<1>4. StreamTrue'
    <2>1. StreamTrue /\ Settled' = Settled
        BY DEF FollowInv, Settled
    <2>2. CASE stream' = stream
        BY <2>1, <2>2 DEF StreamTrue
    <2>3. CASE stream' = NoStream
        <3>1. NoStream.active.id = 0 /\ NoStream.active.next = 0
            BY DEF NoStream, NoAttempt
        <3> QED BY <2>3, <3>1 DEF StreamTrue
    <2> QED BY <2>2, <2>3
<1>5. QueueCovers' /\ FramesLinked' /\ SettlementsPaired'
    BY DEF QueueCovers, FramesLinked, SettlementsPaired
<1>6. Window'
    <2>1. Whole(client)' <=> Whole(client)
        BY <1>c DEF Whole
    <2> QED BY <2>1 DEF FollowInv, Window
<1> QED BY <1>1, <1>2, <1>3, <1>4, <1>5, <1>6 DEF FollowInv

(* Listening, and a connection that is lost or given up. *)
LEMMA ClosedKeeps ==
    ASSUME FollowInv, Connect \/ Restart \/ LoseCarrier \/ Reload
    PROVE  FollowInv'
<1> DEFINE C == [state : {"closed", "registered"}, cut : {0}, next : {0}, ordinal : {0}, ordinalCut : {0}]
<1>1. Closed \in C /\ Closed.state = "closed"
    BY DEF Closed
<1>2. /\ twists \in 0..MaxTwists /\ client \in ClientsTo(client.cursor) /\ client.restart \in BOOLEAN
      /\ Twist => twists' \in 0..MaxTwists
    BY Bounds DEF FollowInv, HostTypes, ClientTypes, ClientsTo, Twist
<1>3. CASE Connect
    <2>1. conn' \in C /\ conn'.state = "registered"
        BY <1>3 DEF Connect, Closed
    <2>2. queue' = <<>>
        BY <1>3 DEF Connect, FollowInv, ConnTypes, Listening
    <2> QED BY <1>2, <1>3, <2>1, <2>2, ConnectionClosed DEF Connect, hostVars
<1>4. CASE Restart
    <2>1. client' = [client EXCEPT !.restart = FALSE]
        BY <1>4 DEF Restart
    <2>2. /\ client' \in ClientsTo(client.cursor)
          /\ client'.rows = client.rows /\ client'.pending = client.pending
        BY <1>2, <2>1 DEF ClientsTo
    <2> QED BY <1>1, <1>2, <1>4, <2>2, ConnectionClosed DEF Restart, Disconnected, hostVars
<1>5. CASE LoseCarrier
    BY <1>1, <1>2, <1>5, ConnectionClosed DEF LoseCarrier, Disconnected, hostVars
<1>6. CASE Reload
    BY <1>1, <1>2, <1>6, ConnectionClosed DEF Reload, Disconnected, hostVars
<1> QED BY <1>3, <1>4, <1>5, <1>6

(* The observation of the log. *)
LEMMA ObserveKeeps ==
    ASSUME FollowInv, Observe
    PROVE  FollowInv'
<1>1. /\ conn' = [conn EXCEPT !.state = "observed", !.cut = Len(log)]
      /\ UNCHANGED <<log, agent, stream, queue, client, overtaken, twists>>
      /\ conn.state = "registered"
    BY DEF Observe, hostVars
<1>2. /\ Len(log) \in Nat
      /\ conn \in [state : {"closed", "registered", "observed", "open"}, cut : 0 .. Len(log),
                   next : 0 .. Len(log) + 1, ordinal : Nat, ordinalCut : Nat]
      /\ conn.ordinalCut <= conn.ordinal
    BY QueueItems DEF FollowInv, ConnTypes
<1>3. /\ conn' \in [state : {"closed", "registered", "observed", "open"}, cut : 0 .. Len(log),
                    next : 0 .. Len(log) + 1, ordinal : Nat, ordinalCut : Nat]
      /\ conn'.ordinal = conn.ordinal /\ conn'.ordinalCut = conn.ordinalCut
      /\ conn'.state = "observed" /\ conn'.cut = Len(log)
    <2>1. Len(log) \in 0..Len(log)
        BY <1>2
    <2> QED BY <1>1, <1>2, <2>1
<1>4. Attempts' = Attempts /\ Frames' = Frames /\ (\A k : ClientsTo(k)' = ClientsTo(k)) /\ Items' = Items
    <2>1. Attempts' = Attempts /\ Frames' = Frames
        BY <1>1 DEF Attempts, Frames
    <2> QED BY <1>1, <1>3, <2>1 DEF ClientsTo, Items
<1>5. HostTypes' /\ StreamTrue'
    BY <1>1, <1>4 DEF FollowInv, HostTypes, StreamTrue, Settled
<1>6. ConnTypes'
    BY <1>1, <1>2, <1>3, <1>4 DEF FollowInv, ConnTypes, Listening
<1>7. ClientTypes'
    BY <1>1, <1>3, <1>4 DEF FollowInv, ClientTypes
<1>8. QueueCovers'
    <2>1. Base' = Len(log) + 1
        BY <1>3 DEF Base
    <2>2. \A i \in DOMAIN queue : queue[i].type = "event" => queue[i].n \in 1..Len(log)
        BY QueueItems DEF FollowInv
    <2>3. (Len(log) + 1) .. Len(log) = {} /\ \A n \in 1..Len(log) : (Len(log) + 1) .. (n - 1) = {}
        BY <1>2
    <2>4. Covered(queue, Len(log) + 1, Len(log))
        BY <2>2, <2>3 DEF Covered
    <2> QED BY <1>1, <2>1, <2>4 DEF QueueCovers
<1>9. FramesLinked' /\ SettlementsPaired'
    BY <1>3 DEF FramesLinked, SettlementsPaired
<1>10. Window'
    BY <1>1 DEF FollowInv, Window
<1> QED BY <1>5, <1>6, <1>7, <1>8, <1>9, <1>10 DEF FollowInv

(* The opening. *)
LEMMA OpenKeeps ==
    ASSUME FollowInv, Open
    PROVE  FollowInv'
<1>1. /\ conn' = [conn EXCEPT !.state = "open", !.next = conn.cut + 1, !.ordinalCut = conn.ordinal]
      /\ client' = Replaced(conn.cut, stream) /\ overtaken' = FALSE
      /\ UNCHANGED <<log, agent, stream, queue, twists>>
      /\ conn.state = "observed"
    BY DEF Open, hostVars
<1>2. /\ Len(log) \in Nat /\ Settled \subseteq 1..Len(log) /\ Settled' = Settled
      /\ conn \in [state : {"closed", "registered", "observed", "open"}, cut : 0 .. Len(log),
                   next : 0 .. Len(log) + 1, ordinal : Nat, ordinalCut : Nat]
      /\ conn.cut \in 0..Len(log) /\ conn.cut \in Nat /\ conn.ordinal \in Nat
      /\ stream \in [rev : Nat, active : Attempts]
      /\ stream.active.id = 0 => stream.active.next = 0
    BY <1>1, QueueItems DEF FollowInv, ConnTypes, HostTypes, StreamTrue, Settled
<1>3. /\ conn' \in [state : {"closed", "registered", "observed", "open"}, cut : 0 .. Len(log),
                    next : 0 .. Len(log) + 1, ordinal : Nat, ordinalCut : Nat]
      /\ conn'.ordinal = conn.ordinal /\ conn'.ordinalCut = conn.ordinal
      /\ conn'.state = "open" /\ conn'.cut = conn.cut /\ conn'.next = conn.cut + 1
    <2>1. conn.cut + 1 \in 0..Len(log) + 1
        BY <1>2
    <2> QED BY <1>1, <1>2, <2>1
<1>4. Attempts' = Attempts /\ Frames' = Frames /\ (\A k : ClientsTo(k)' = ClientsTo(k)) /\ Items' = Items
    <2>1. Attempts' = Attempts /\ Frames' = Frames
        BY <1>1 DEF Attempts, Frames
    <2> QED BY <1>1, <1>3, <2>1 DEF ClientsTo, Items
<1>5. /\ client' \in ClientsTo(conn.cut) /\ client'.cursor = conn.cut /\ client'.rev = stream.rev
      /\ client'.active = stream.active /\ client'.pending = {} /\ Whole(client') /\ Sorted(client'.rows)
    BY <1>1, <1>2, ReplacedIs
<1>6. \A i \in DOMAIN queue : ~Live(queue[i], conn.ordinal)
    <2> SUFFICES ASSUME NEW i \in DOMAIN queue, Live(queue[i], conn.ordinal) PROVE FALSE
        OBVIOUS
    <2>1. queue[i].ordinal \in 1..conn.ordinal
        BY QueueItems DEF FollowInv, Live
    <2> QED BY <1>2, <2>1 DEF Live
<1>7. HostTypes' /\ StreamTrue'
    BY <1>1, <1>4 DEF FollowInv, HostTypes, StreamTrue, Settled
<1>8. ConnTypes'
    <2>1. conn'.ordinalCut <= conn'.ordinal
        BY <1>2, <1>3
    <2> QED BY <1>1, <1>3, <1>4, <2>1 DEF FollowInv, ConnTypes, Listening
<1>9. ClientTypes'
    BY <1>1, <1>2, <1>3, <1>4, <1>5 DEF ClientTypes
<1>10. QueueCovers'
    <2>1. Base' = Base
        BY <1>1, <1>3 DEF Base
    <2> QED BY <1>1, <2>1 DEF FollowInv, QueueCovers
<1>11. FramesLinked'
    <2>1. LastLink(stream.rev, stream.active.id, agent)
        BY DEF FollowInv, StreamTrue, LastLink
    <2>2. Linked(queue, conn.ordinal, stream.rev, stream.active.id, agent)
        BY <1>6, <2>1, LinkedNone
    <2>3. stream.rev = 0 => stream.active.id = 0
        BY DEF FollowInv, StreamTrue
    <2> QED BY <1>1, <1>3, <1>5, <2>2, <2>3 DEF FramesLinked
<1>12. SettlementsPaired'
    <2>1. \A n \in Settled : Dead(n, stream.active, queue, conn.ordinal)
        BY <1>6 DEF FollowInv, StreamTrue, Dead
    <2>2. Paired(queue, conn.ordinal, conn.cut + 1, stream.active, Settled)
        BY <2>1 DEF Paired
    <2>3. OnlyLast(client')
        BY <1>5 DEF OnlyLast
    <2> QED BY <1>1, <1>2, <1>3, <1>5, <2>2, <2>3 DEF SettlementsPaired
<1>13. Window'
    BY <1>1, <1>5 DEF Window
<1> QED BY <1>7, <1>8, <1>9, <1>10, <1>11, <1>12, <1>13 DEF FollowInv

(* The head of the queue is taken out, and the client comes to the place before next. *)
LEMMA Delivered ==
    ASSUME FollowInv, conn.state = "open", queue # <<>>, queue' = Tail(queue),
           UNCHANGED <<log, agent, stream, overtaken, twists>>,
           NEW next \in Nat, conn.next <= next, next <= Len(log) + 1,
           conn' = [conn EXCEPT !.next = next],
           client' \in ClientsTo(next - 1), Whole(client'),
           \A m \in Nat : m >= next => ~Covers(Head(queue), m),
           IF Live(Head(queue), conn.ordinalCut)
           THEN client'.rev = Head(queue).frame.rev
                /\ client'.active.id \in {0, IdAfter(Head(queue).frame)}
           ELSE client'.rev = client.rev /\ client'.active.id = client.active.id,
           ~overtaken =>
               /\ Sorted(client'.rows)
               /\ \/ client'.active.id = 0
                  \/ client'.active.id = client.active.id /\ client'.active.after = client.active.after
                  \/ Live(Head(queue), conn.ordinalCut) /\ Head(queue).frame.type = "start"
                     /\ client'.active.after = Head(queue).frame.after
               /\ client'.active.id # 0 =>
                      /\ OnlyLast(client')
                      /\ client'.pending # {} => EndsAt(2, client'.cursor, queue, conn.ordinalCut)
    PROVE  FollowInv'
<1>1. /\ Len(log) \in Nat /\ Settled \subseteq 1..Len(log) /\ Settled' = Settled
      /\ conn \in [state : {"closed", "registered", "observed", "open"}, cut : 0 .. Len(log),
                   next : 0 .. Len(log) + 1, ordinal : Nat, ordinalCut : Nat]
      /\ conn.next \in Nat /\ conn.ordinalCut <= conn.ordinal /\ queue \in Seq(Items)
      /\ \A i \in DOMAIN queue : queue[i].type = "frame" => queue[i].frame.rev \in Nat \ {0}
    BY QueueItems DEF FollowInv, ConnTypes, Settled
<1>2. /\ conn' \in [state : {"closed", "registered", "observed", "open"}, cut : 0 .. Len(log),
                    next : 0 .. Len(log) + 1, ordinal : Nat, ordinalCut : Nat]
      /\ conn'.ordinal = conn.ordinal /\ conn'.ordinalCut = conn.ordinalCut
      /\ conn'.state = "open" /\ conn'.next = next
    <2>1. next \in 0..Len(log) + 1
        BY <1>1
    <2> QED BY <1>1, <2>1
<1>3. Attempts' = Attempts /\ Frames' = Frames /\ (\A k : ClientsTo(k)' = ClientsTo(k)) /\ Items' = Items
    <2>1. Attempts' = Attempts /\ Frames' = Frames
        BY DEF Attempts, Frames
    <2> QED BY <1>2, <2>1 DEF ClientsTo, Items
<1>4. /\ Tail(queue) \in Seq(Items) /\ Len(queue) \in Nat /\ Len(queue) >= 1
      /\ DOMAIN queue = 1..Len(queue) /\ DOMAIN Tail(queue) = 1..(Len(queue) - 1)
      /\ Head(queue) = queue[1] /\ 1 \in DOMAIN queue
      /\ \A i \in 1..(Len(queue) - 1) : Tail(queue)[i] = queue[i + 1]
    <2>1. /\ Tail(queue) \in Seq(Items) /\ Len(queue) \in Nat /\ Len(queue) >= 1
          /\ DOMAIN queue = 1..Len(queue) /\ DOMAIN Tail(queue) = 1..(Len(queue) - 1)
          /\ Head(queue) = queue[1]
          /\ \A i \in 1..(Len(queue) - 1) : Tail(queue)[i] = queue[i + 1]
        BY <1>1, TailIs
    <2> QED BY <2>1
<1>5. client'.cursor = next - 1 /\ client'.cursor \in 0..Len(log)
    <2>1. client'.cursor = next - 1
        BY DEF ClientsTo
    <2>2. conn.next = client.cursor + 1 /\ client.cursor \in 0..Len(log)
        BY DEF FollowInv, ClientTypes
    <2> QED BY <1>1, <2>1, <2>2
<1>6. HostTypes' /\ StreamTrue'
    BY <1>3 DEF FollowInv, HostTypes, StreamTrue, Settled
<1>7. ConnTypes'
    BY <1>1, <1>2, <1>3, <1>4 DEF FollowInv, ConnTypes, Listening
<1>8. ClientTypes'
    BY <1>1, <1>2, <1>3, <1>5, SMTT(30) DEF ClientTypes
<1>9. QueueCovers'
    <2>1. Covered(queue, conn.next, Len(log))
        BY DEF FollowInv, QueueCovers, Base
    <2>2. Covered(Tail(queue), next, Len(log))
        BY <1>1, <2>1, CoveredTail
    <2>3. Base' = next
        BY <1>2 DEF Base
    <2> QED BY <2>2, <2>3 DEF QueueCovers
<1>10. FramesLinked'
    <2>1. Linked(queue, conn.ordinalCut, client.rev, client.active.id, agent)
          /\ (client.rev = 0 => client.active.id = 0)
        BY DEF FollowInv, FramesLinked
    <2>2. Linked(Tail(queue), conn.ordinalCut, client'.rev, client'.active.id, agent)
        BY <1>1, <2>1, LinkedTail
    <2>3. client'.rev = 0 => client'.active.id = 0
        BY <1>1, <1>4, <2>1 DEF Live
    <2> QED BY <1>2, <2>2, <2>3 DEF FramesLinked
<1>11. SettlementsPaired'
    <2> SUFFICES ASSUME ~overtaken
                 PROVE  /\ Paired(Tail(queue), conn.ordinalCut, next, client'.active, Settled)
                        /\ client'.active.id # 0 =>
                               /\ OnlyLast(client')
                               /\ client'.pending # {} =>
                                      EndsAt(1, client'.cursor, Tail(queue), conn.ordinalCut)
        BY <1>1, <1>2 DEF SettlementsPaired
    <2>1. Paired(queue, conn.ordinalCut, conn.next, client.active, Settled)
        BY DEF FollowInv, SettlementsPaired
    <2>2. Settled \subseteq Nat
        BY <1>1
    <2>3. Paired(Tail(queue), conn.ordinalCut, next, client'.active, Settled)
        BY <1>1, <2>1, <2>2, PairedTail
    <2>4. ASSUME EndsAt(2, client'.cursor, queue, conn.ordinalCut)
          PROVE  EndsAt(1, client'.cursor, Tail(queue), conn.ordinalCut)
        <3>1. 1 \in DOMAIN Tail(queue) /\ Tail(queue)[1] = queue[2]
            BY <1>4, <2>4 DEF EndsAt
        <3> QED BY <2>4, <3>1 DEF EndsAt
    <2> QED BY <2>3, <2>4
<1>12. Window'
    BY DEF Window
<1> QED BY <1>6, <1>7, <1>8, <1>9, <1>10, <1>11, <1>12 DEF FollowInv

(* What holds where the client reads. *)
LEMMA OpenFacts ==
    ASSUME FollowInv, conn.state = "open", queue # <<>>
    PROVE  /\ Len(log) \in Nat /\ Settled \subseteq 1..Len(log)
           /\ conn.next \in Nat /\ conn.next <= Len(log) + 1 /\ conn.next = client.cursor + 1
           /\ conn = [conn EXCEPT !.next = conn.next]
           /\ client.cursor \in Nat /\ client \in ClientsTo(client.cursor) /\ Whole(client)
           /\ queue \in Seq(Items) /\ Covered(queue, conn.next, Len(log))
           /\ Head(queue) = queue[1] /\ 1 \in DOMAIN queue /\ Head(queue) \in Items
           /\ Head(queue).type \in {"event", "created", "frame"}
           /\ Head(queue).type = "event" => Head(queue).n \in 1..Len(log)
           /\ Head(queue).type = "created" => Head(queue).end \in 0..Len(log)
           /\ Head(queue).type = "frame" => Head(queue).frame \in Frames
           /\ ~overtaken =>
                  /\ Sorted(client.rows)
                  /\ Paired(queue, conn.ordinalCut, conn.next, client.active, Settled)
                  /\ client.active.id # 0 =>
                         /\ OnlyLast(client)
                         /\ client.pending # {} => EndsAt(1, client.cursor, queue, conn.ordinalCut)
<1>1. /\ Len(log) \in Nat /\ Settled \subseteq 1..Len(log) /\ queue \in Seq(Items)
      /\ conn \in [state : {"closed", "registered", "observed", "open"}, cut : 0 .. Len(log),
                   next : 0 .. Len(log) + 1, ordinal : Nat, ordinalCut : Nat]
      /\ conn.next \in 0..Len(log) + 1
    BY QueueItems DEF FollowInv, ConnTypes
<1>2. conn.next \in Nat /\ conn.next <= Len(log) + 1 /\ conn = [conn EXCEPT !.next = conn.next]
    BY <1>1
<1>3. /\ conn.next = client.cursor + 1 /\ client.cursor \in 0..Len(log) /\ client \in ClientsTo(client.cursor)
      /\ Whole(client) /\ (~overtaken => Sorted(client.rows))
    BY DEF FollowInv, ClientTypes, Window
<1>4. Covered(queue, conn.next, Len(log))
    BY DEF FollowInv, QueueCovers, Base
<1>5. Head(queue) = queue[1] /\ 1 \in DOMAIN queue
    <2>1. Len(queue) \in Nat /\ Len(queue) >= 1 /\ DOMAIN queue = 1..Len(queue) /\ Head(queue) = queue[1]
        BY <1>1, TailIs
    <2> QED BY <2>1
<1>6. /\ queue[1] \in Items /\ queue[1].type \in {"event", "created", "frame"}
      /\ queue[1].type = "event" => queue[1].n \in 1..Len(log)
      /\ queue[1].type = "created" => queue[1].end \in 0..Len(log)
      /\ queue[1].type = "frame" => queue[1].frame \in Frames
    BY <1>5, QueueItems DEF FollowInv
<1>7. ~overtaken =>
          /\ Paired(queue, conn.ordinalCut, conn.next, client.active, Settled)
          /\ client.active.id # 0 =>
                 /\ OnlyLast(client)
                 /\ client.pending # {} => EndsAt(1, client.cursor, queue, conn.ordinalCut)
    BY DEF FollowInv, SettlementsPaired
<1>8. client.cursor \in Nat
    BY <1>1, <1>3
<1> QED BY <1>1, <1>2, <1>3, <1>4, <1>5, <1>6, <1>7, <1>8

(* An event or a notice is taken out. *)
LEMMA DeliverEventsKeeps ==
    ASSUME FollowInv, DeliverEvents
    PROVE  FollowInv'
<1> DEFINE item == Head(queue)
           end == Until(item)
           cut == conn.ordinalCut
           k == client.cursor
<1>1. /\ conn.state = "open" /\ queue # <<>> /\ item.type # "frame"
      /\ UNCHANGED <<log, agent, stream, overtaken, twists>>
      /\ \/ end < conn.next /\ queue' = Tail(queue) /\ UNCHANGED <<conn, client>>
         \/ ~(end < conn.next) /\ item.type = "event" /\ end # conn.next
         \/ /\ ~(end < conn.next) /\ ~(item.type = "event" /\ end # conn.next)
            /\ conn' = [conn EXCEPT !.next = end + 1] /\ queue' = Tail(queue)
            /\ client' = AcceptAll(client, conn.next, end)
    BY DEF DeliverEvents, hostVars
<1>2. /\ Len(log) \in Nat /\ Settled \subseteq 1..Len(log)
      /\ conn.next \in Nat /\ conn.next <= Len(log) + 1 /\ conn.next = k + 1
      /\ conn = [conn EXCEPT !.next = conn.next]
      /\ k \in Nat /\ client \in ClientsTo(k) /\ Whole(client)
      /\ queue \in Seq(Items) /\ Covered(queue, conn.next, Len(log))
      /\ item = queue[1] /\ 1 \in DOMAIN queue
      /\ item.type \in {"event", "created"}
      /\ item.type = "event" => item.n \in 1..Len(log)
      /\ item.type = "created" => item.end \in 0..Len(log)
    BY <1>1, OpenFacts
<1>3. ~overtaken =>
          /\ Sorted(client.rows)
          /\ Paired(queue, cut, conn.next, client.active, Settled)
          /\ client.active.id # 0 =>
                 /\ OnlyLast(client)
                 /\ client.pending # {} => EndsAt(1, k, queue, cut)
    BY <1>1, OpenFacts
<1>4. /\ end \in 0..Len(log) /\ end \in Nat
      /\ item.type = "event" => end = item.n
      /\ item.type = "created" => end = item.end
      /\ ~Live(item, cut)
    BY <1>1, <1>2 DEF Until, Live
<1>5. ~overtaken /\ client.active.id # 0 => client.pending = {}
    BY <1>2, <1>3, <1>4 DEF EndsAt
<1>6. \A m \in Nat : m > end => ~Covers(item, m)
    BY <1>2, <1>4 DEF Covers
<1> HIDE DEF item, end, cut, k
<1>i. item = Head(queue) /\ cut = conn.ordinalCut /\ k = client.cursor
    BY DEF item, cut, k
<1>7. CASE end < conn.next /\ queue' = Tail(queue) /\ UNCHANGED <<conn, client>>
    <2>1. \A m \in Nat : m >= conn.next => ~Covers(item, m)
        BY <1>2, <1>4, <1>6, <1>7
    <2>2. k = conn.next - 1
        BY <1>2
    <2>3. client' \in ClientsTo(conn.next - 1) /\ Whole(client') /\ conn' = [conn EXCEPT !.next = conn.next]
        BY <1>2, <1>7, <2>2
    <2>4. /\ client'.rev = client.rev /\ client'.active = client.active
          /\ client'.pending = client.pending /\ client'.rows = client.rows
          /\ ~overtaken /\ client.active.id # 0 => OnlyLast(client')
        BY <1>3, <1>7
    <2>5. conn.next \in Nat /\ conn.next <= conn.next /\ conn.next <= Len(log) + 1
        BY <1>2
    <2>6. \A m \in Nat : m >= conn.next => ~Covers(Head(queue), m)
        BY <1>i, <2>1
    <2>7. ~Live(Head(queue), conn.ordinalCut)
        BY <1>4, <1>i
    <2>8. client'.pending # {} /\ client'.active.id # 0 => overtaken
        BY <1>5, <2>4
    <2>9. ~overtaken =>
              /\ Sorted(client'.rows)
              /\ client'.active.id = client.active.id /\ client'.active.after = client.active.after
              /\ client'.active.id # 0 =>
                     /\ OnlyLast(client')
                     /\ client'.pending # {} => EndsAt(2, client'.cursor, queue, conn.ordinalCut)
        BY <1>3, <2>4, <2>8
    <2>10. client'.active.id = client.active.id
        BY <2>4
    <2>11. /\ conn.state = "open" /\ queue # <<>> /\ queue' = Tail(queue)
           /\ UNCHANGED <<log, agent, stream, overtaken, twists>>
        BY <1>1, <1>7
    <2> QED BY <2>3, <2>4, <2>5, <2>6, <2>7, <2>9, <2>10, <2>11, Delivered
<1>8. CASE ~(end < conn.next) /\ item.type = "event" /\ end # conn.next
    <2>1. item.n \in Nat
        BY <1>2, <1>8
    <2>2. item.n <= conn.next
        BY <1>1, <1>2, <1>8, <1>i, <2>1, HeadCovers
    <2> QED BY <1>2, <1>4, <1>8, <2>2
<1>9. CASE /\ ~(end < conn.next) /\ ~(item.type = "event" /\ end # conn.next)
           /\ conn' = [conn EXCEPT !.next = end + 1] /\ queue' = Tail(queue)
           /\ client' = AcceptAll(client, conn.next, end)
    <2>1. k <= end /\ conn.next <= end + 1 /\ end + 1 <= Len(log) + 1 /\ end + 1 \in Nat /\ (end + 1) - 1 = end
        BY <1>2, <1>4, <1>9
    <2>0. client' = AcceptAll(client, k + 1, end)
        BY <1>2, <1>9
    <2>2. /\ client' \in ClientsTo(end) /\ Whole(client') /\ client'.rev = client.rev
          /\ client'.active = client.active
          /\ (\A n \in k + 1 .. end : ~Settles(n, client.active)) =>
                 client'.pending = client.pending /\ (Sorted(client.rows) => Sorted(client'.rows))
        <3>1. /\ AcceptAll(client, k + 1, end) \in ClientsTo(end) /\ Whole(AcceptAll(client, k + 1, end))
              /\ AcceptAll(client, k + 1, end).rev = client.rev
              /\ AcceptAll(client, k + 1, end).active = client.active
              /\ (\A n \in k + 1 .. end : ~Settles(n, client.active)) =>
                     /\ AcceptAll(client, k + 1, end).pending = client.pending
                     /\ Sorted(client.rows) => Sorted(AcceptAll(client, k + 1, end).rows)
            BY <1>2, <1>4, <2>1, AllKept
        <3> QED BY <2>0, <3>1
    <2>3. \A m \in Nat : m >= end + 1 => ~Covers(item, m)
        BY <1>4, <1>6
    <2>4. client'.cursor = end /\ k + 1 .. end \subseteq 1..Len(log)
        BY <1>2, <1>4, <2>2 DEF ClientsTo
    <2>5. ASSUME NEW n \in 1..Len(log), n \in Settled => Dead(n, client.active, queue, cut)
          PROVE  ~Settles(n, client.active)
        <3> SUFFICES ASSUME Settles(n, client.active) PROVE FALSE
            OBVIOUS
        <3>1. client.active.after \in Nat
            BY <1>2 DEF ClientsTo, Attempts
        <3>2. client.active.id # 0 /\ log[n].type \in Settlements /\ n > client.active.after
            BY DEF Settles
        <3>3. n \in Settled
            BY <1>2, <3>2, QueueItems DEF Settled, FollowInv
        <3>4. n <= client.active.after
            BY <2>5, <3>2, <3>3 DEF Dead
        <3> QED BY <3>1, <3>2, <3>4
    <2> DEFINE Fine == /\ Sorted(client'.rows)
                       /\ client'.active.id # 0 =>
                              /\ OnlyLast(client')
                              /\ client'.pending # {} => EndsAt(2, client'.cursor, queue, cut)
    <2>6. ASSUME ~overtaken, \A n \in k + 1 .. end : ~Settles(n, client.active) PROVE Fine
        <3>1. client'.active.id # 0 => client'.pending = {}
            BY <1>5, <2>2, <2>6
        <3>2. Sorted(client'.rows)
            BY <1>3, <2>2, <2>6
        <3> QED BY <3>1, <3>2 DEF OnlyLast
    <2>7. ASSUME ~overtaken, item.type = "created" PROVE Fine
        <3>1. ASSUME NEW n \in k + 1 .. end PROVE ~Settles(n, client.active)
            <4>1. n \in Settled => conn.next <= n /\ n <= queue[1].end /\ queue[1].type = "created"
                BY <1>2, <1>4, <2>7
            <4>2. n \in Settled => Dead(n, client.active, queue, cut)
                BY <1>2, <1>3, <2>7, <4>1 DEF Paired
            <4> QED BY <2>4, <2>5, <4>2
        <3> QED BY <2>6, <2>7, <3>1
    <2>8. ASSUME ~overtaken, item.type = "event" PROVE Fine
        <3>1. end = k + 1 /\ end = item.n /\ k + 1 .. end = {k + 1}
            BY <1>2, <1>4, <1>9, <2>8
        <3>2. CASE ~Settles(k + 1, client.active)
            BY <2>6, <2>8, <3>1, <3>2
        <3>3. CASE Settles(k + 1, client.active)
            <4>1. k + 1 \in Settled /\ ~Dead(k + 1, client.active, queue, cut)
                BY <1>2, <2>4, <2>5, <3>1, <3>3
            <4>2. queue[1].type = "event" /\ queue[1].n = k + 1 /\ queue[1].n >= conn.next
                BY <1>2, <2>8, <3>1
            <4>3. EndsAt(1 + 1, k + 1, queue, cut)
                BY <1>2, <1>3, <2>8, <4>1, <4>2 DEF Paired
            <4>4. client' = AcceptDurable(client, k + 1)
                <5>1. AcceptAll(client, k + 1, k + 1) = AcceptDurable(client, k + 1)
                    BY <1>2, OneKept
                <5> QED BY <2>0, <3>1, <5>1
            <4>5. client'.pending = client.pending \cup {k + 1} /\ client'.rows = client.rows
                <5>1. LET d == AcceptDurable(client, k + 1)
                      IN  d.pending = client.pending \cup {k + 1} /\ d.rows = client.rows
                    BY <1>2, <3>3, DurableKeeps
                <5> QED BY <4>4, <5>1
            <4>6. client.active.id # 0
                BY <3>3 DEF Settles
            <4>7. client'.pending = {client'.cursor} /\ client'.cursor = k + 1
                BY <1>5, <2>4, <2>8, <3>1, <4>5, <4>6
            <4>8. \A i \in DOMAIN client'.rows : client'.rows[i].event < client'.cursor
                <5>1. \A i \in DOMAIN client.rows : client.rows[i] \in RowsTo(k)
                    BY <1>2, ClientFields
                <5>2. \A i \in DOMAIN client.rows : client.rows[i].event \in 0..k
                    BY <5>1 DEF RowsTo
                <5>3. \A x \in 0..k : x < k + 1
                    BY <1>2
                <5> QED BY <4>5, <4>7, <5>2, <5>3
            <4>9. Sorted(client'.rows)
                BY <1>3, <2>8, <4>5
            <4> QED BY <4>3, <4>7, <4>8, <4>9 DEF OnlyLast
        <3> QED BY <3>2, <3>3
    <2>9. ~overtaken => Fine
        BY <1>2, <2>7, <2>8
    <2> HIDE DEF Fine
    <2>10. client' \in ClientsTo((end + 1) - 1)
        BY <2>1, <2>2
    <2>11. ~overtaken => /\ Sorted(client'.rows)
                         /\ client'.active.id # 0 =>
                                /\ OnlyLast(client')
                                /\ client'.pending # {} => EndsAt(2, client'.cursor, queue, conn.ordinalCut)
        BY <1>i, <2>9 DEF Fine
    <2> QED BY <1>1, <1>2, <1>4, <1>9, <1>i, <2>1, <2>2, <2>3, <2>10, <2>11, Delivered, ZenonT(60)
<1> QED BY <1>1, <1>7, <1>8, <1>9

(* A frame is taken out. *)
LEMMA DeliverFrameKeeps ==
    ASSUME FollowInv, DeliverFrame
    PROVE  FollowInv'
<1> DEFINE item == Head(queue)
           f == item.frame
           cut == conn.ordinalCut
           k == client.cursor
<1>1. /\ conn.state = "open" /\ queue # <<>> /\ item.type = "frame"
      /\ UNCHANGED <<log, agent, stream, overtaken, twists>>
      /\ \/ item.ordinal <= cut /\ queue' = Tail(queue) /\ UNCHANGED <<conn, client>>
         \/ Disconnected /\ UNCHANGED client
         \/ /\ ~(item.ordinal <= cut) /\ f.rev = client.rev + 1
            /\ queue' = Tail(queue) /\ UNCHANGED conn /\ client' = AcceptFrame(client, f)
    BY DEF DeliverFrame, hostVars
<1>2. /\ Len(log) \in Nat
      /\ conn.next \in Nat /\ conn.next <= Len(log) + 1 /\ conn.next = k + 1
      /\ conn = [conn EXCEPT !.next = conn.next]
      /\ k \in Nat /\ client \in ClientsTo(k) /\ Whole(client)
      /\ queue \in Seq(Items) /\ item = queue[1] /\ 1 \in DOMAIN queue /\ f \in Frames
    BY <1>1, OpenFacts
<1>3. ~overtaken =>
          /\ Sorted(client.rows)
          /\ client.active.id # 0 =>
                 /\ OnlyLast(client)
                 /\ client.pending # {} => EndsAt(1, k, queue, cut)
    BY <1>1, OpenFacts
<1>4. \A m \in Nat : m >= conn.next => ~Covers(item, m)
    BY <1>1 DEF Covers
<1>5. item.ordinal \in Nat /\ cut \in Nat
    <2>1. queue[1].ordinal \in 1..conn.ordinal /\ conn.ordinal \in Nat /\ cut \in Nat
        BY <1>1, <1>2, QueueItems DEF FollowInv
    <2> QED BY <1>2, <2>1
<1>6. k = conn.next - 1 /\ conn.next <= conn.next
    BY <1>2
<1>7. Linked(queue, cut, client.rev, client.active.id, agent)
    BY <1>1 DEF FollowInv, FramesLinked
<1>8. f.type \in {"start", "chunk", "end"} /\ f.id # 0
    BY <1>2 DEF Frames
<1> HIDE DEF item, f, cut, k
<1>i. item = Head(queue) /\ f = item.frame /\ cut = conn.ordinalCut /\ k = client.cursor
    BY DEF item, f, cut, k
<1>9. CASE item.ordinal <= cut /\ queue' = Tail(queue) /\ UNCHANGED <<conn, client>>
    <2>1. ~Live(item, cut)
        BY <1>5, <1>9 DEF Live
    <2>2. ~overtaken /\ client.active.id # 0 => client.pending = {}
        BY <1>2, <1>3, <2>1 DEF EndsAt
    <2>3. client' \in ClientsTo(conn.next - 1) /\ Whole(client') /\ conn' = [conn EXCEPT !.next = conn.next]
        BY <1>2, <1>6, <1>9
    <2>4. /\ client'.rev = client.rev /\ client'.active = client.active
          /\ client'.pending = client.pending /\ client'.rows = client.rows
          /\ ~overtaken /\ client.active.id # 0 => OnlyLast(client')
        BY <1>3, <1>9
    <2> QED BY <1>1, <1>2, <1>3, <1>4, <1>6, <1>9, <1>i, <2>1, <2>2, <2>3, <2>4, Delivered
<1>10. CASE Disconnected /\ UNCHANGED client
    <2>1. conn' = Closed /\ queue' = <<>>
        BY <1>10 DEF Disconnected
    <2>2. /\ Closed \in [state : {"closed", "registered"}, cut : {0}, next : {0}, ordinal : {0}, ordinalCut : {0}]
          /\ Closed.state \notin {"observed", "open"}
        BY DEF Closed
    <2>3. twists' \in 0..MaxTwists /\ client' \in ClientsTo(client.cursor)
        BY <1>1, <1>2, <1>10, <1>i DEF FollowInv, HostTypes
    <2> QED BY <1>1, <1>10, <2>1, <2>2, <2>3, ConnectionClosed
<1>11. CASE /\ ~(item.ordinal <= cut) /\ f.rev = client.rev + 1
            /\ queue' = Tail(queue) /\ UNCHANGED conn /\ client' = AcceptFrame(client, f)
    <2>1. Live(item, cut)
        BY <1>1, <1>5, <1>11 DEF Live
    <2>2. IF f.type = "start" THEN client.active.id = 0 ELSE client.active.id \in {0, f.id}
        <3>1. \A j \in 1 .. 1 - 1 : ~Live(queue[j], cut)
            OBVIOUS
        <3>2. Link(client.rev, client.active.id, queue[1].frame)
            BY <1>2, <1>7, <2>1, <3>1 DEF Linked
        <3> QED BY <1>2, <1>11, <1>i, <3>2 DEF Link
    <2>3. LET d == AcceptFrame(client, f)
          IN  /\ d \in ClientsTo(k) /\ Whole(d) /\ d.rev = f.rev
              /\ f.type = "start" =>
                     /\ d.rows = client.rows /\ d.pending = client.pending
                     /\ \/ d.active = client.active
                        \/ /\ client.active.id = 0 /\ client.pending = {}
                           /\ d.active.id = f.id /\ d.active.after = f.after
              /\ f.type = "chunk" =>
                     /\ d.pending = client.pending /\ d.active.id = client.active.id
                     /\ d.active.after = client.active.after /\ (Sorted(client.rows) => Sorted(d.rows))
              /\ f.type = "end" /\ client.active.id # f.id =>
                     d.active = client.active /\ d.pending = client.pending /\ d.rows = client.rows
              /\ f.type = "end" /\ client.active.id = f.id =>
                     d.active = NoAttempt /\ (Sorted(client.rows) /\ OnlyLast(client) => Sorted(d.rows))
        BY <1>2, FrameKeeps
    <2>4. NoAttempt.id = 0
        BY DEF NoAttempt
    <2>5. client'.active.id \in {0, IdAfter(f)}
        <3>1. CASE f.type = "start"
            BY <1>11, <2>2, <2>3, <3>1 DEF IdAfter
        <3>2. CASE f.type = "chunk"
            BY <1>11, <2>2, <2>3, <3>2 DEF IdAfter
        <3>3. CASE f.type = "end"
            BY <1>11, <2>2, <2>3, <2>4, <3>3 DEF IdAfter
        <3> QED BY <1>8, <3>1, <3>2, <3>3
    <2>6. ASSUME ~overtaken
          PROVE  /\ Sorted(client'.rows)
                 /\ \/ client'.active.id = 0
                    \/ client'.active.id = client.active.id /\ client'.active.after = client.active.after
                    \/ f.type = "start" /\ client'.active.after = f.after
                 /\ client'.active.id # 0 => client'.pending = {}
        <3>1. CASE f.type = "start"
            BY <1>3, <1>11, <2>2, <2>3, <2>6, <3>1
        <3>2. CASE f.type = "chunk"
            <4>1. client.active.id # 0 => client.pending = {}
                BY <1>2, <1>3, <1>i, <2>6, <3>2 DEF EndsAt
            <4> QED BY <1>3, <1>11, <2>3, <2>6, <3>2, <4>1
        <3>3. CASE f.type = "end"
            BY <1>3, <1>8, <1>11, <2>2, <2>3, <2>4, <2>6, <3>3
        <3> QED BY <1>8, <3>1, <3>2, <3>3
    <2>7. client'.pending = {} => OnlyLast(client')
        BY DEF OnlyLast
    <2>8. client' \in ClientsTo(conn.next - 1) /\ Whole(client') /\ client'.rev = f.rev
          /\ conn' = [conn EXCEPT !.next = conn.next]
        BY <1>2, <1>6, <1>11, <2>3
    <2> QED BY <1>1, <1>2, <1>4, <1>6, <1>11, <1>i, <2>1, <2>5, <2>6, <2>7, <2>8, Delivered, ZenonT(60)
<1> QED BY <1>1, <1>9, <1>10, <1>11

(* The steps of the host, and the theorems. *)

(* There are as many steps as there are events that start one. *)
LEMMA StepsCount ==
    ASSUME Len(log) \in Nat, DOMAIN log = 1..Len(log)
    PROVE  Steps \in Nat
<1>1. IsFiniteSet(1..Len(log))
    BY FS_Interval
<1>2. IsFiniteSet({n \in DOMAIN log : log[n].type = "step"})
    BY <1>1, FS_Subset
<1> QED BY <1>2, FS_CardinalityType DEF Steps

LEMMA HostKeeps ==
    ASSUME FollowInv, HostStep
    PROVE  FollowInv'
<1>1. /\ agent \in Agents /\ twists \in 0..MaxTwists /\ twists \in Nat
      /\ Twist => twists' \in 0..MaxTwists
      /\ Len(log) \in Nat /\ DOMAIN log = 1..Len(log)
    BY Bounds, QueueItems DEF FollowInv, HostTypes, Twist
<1>2. /\ agent.on \in BOOLEAN /\ agent.lives \in Nat /\ agent.rev \in Nat /\ agent.count \in 0..MaxAttempts
      /\ agent.step \in 0..MaxSteps /\ agent.ask \in BOOLEAN /\ agent.attempt \in 0..MaxAttempts
      /\ agent.index \in 0..MaxChunks
    BY <1>1 DEF Agents
<1>3. 0 \in 0..MaxSteps /\ 0 \in 0..MaxChunks /\ 0 \in 0..MaxAttempts
    BY Bounds
<1>4. agent.rev + 1 \in Nat /\ agent.rev + 1 \in Nat \ {0}
    BY <1>2
<1>5. CASE Load
    BY <1>5, LoadKeeps
<1>6. CASE Unload
    <2>1. agent' = [agent EXCEPT !.on = FALSE] /\ stream' = NoStream
          /\ UNCHANGED <<log, conn, queue, client, overtaken, twists>>
        BY <1>6 DEF Unload
    <2>2. agent' \in Agents /\ agent'.rev = agent.rev /\ agent'.attempt = agent.attempt
        BY <1>1, <2>1 DEF Agents
    <2> QED BY <1>1, <2>1, <2>2, HostAlone
<1>7. CASE StartStep
    <2>1. /\ agent' = [agent EXCEPT !.step = Steps + 1, !.ask = TRUE] /\ Steps < MaxSteps
          /\ Append1("step", Steps + 1) /\ UNCHANGED <<client, overtaken, twists>>
        BY <1>7 DEF StartStep
    <2>2. Steps + 1 \in 0..MaxSteps
        BY <1>1, <2>1, StepsCount, Bounds
    <2>3. agent' \in Agents /\ agent'.rev = agent.rev /\ agent'.attempt = agent.attempt
        BY <1>1, <2>1, <2>2 DEF Agents
    <2> QED BY <1>1, <2>1, <2>2, <2>3, EventAppended
<1>8. CASE Aside
    <2>1. Append1("other", 0) /\ UNCHANGED <<agent, client, overtaken>> /\ twists' \in 0..MaxTwists
        BY <1>1, <1>8 DEF Aside
    <2> QED BY <1>1, <1>3, <2>1, EventAppended
<1>9. CASE EndStep
    <2>1. /\ agent' = [agent EXCEPT !.step = 0, !.ask = FALSE]
          /\ Append1("end", agent.step) /\ UNCHANGED <<client, overtaken, twists>>
        BY <1>9 DEF EndStep, StepOver
    <2>2. agent' \in Agents /\ agent'.rev = agent.rev /\ agent'.attempt = agent.attempt
        BY <1>1, <1>3, <2>1 DEF Agents
    <2> QED BY <1>1, <1>2, <2>1, <2>2, EventAppended
<1>10. CASE EndRejected
    <2>1. /\ agent' = [agent EXCEPT !.step = 0, !.ask = FALSE] /\ twists' \in 0..MaxTwists
          /\ UNCHANGED <<log, stream, conn, queue, client, overtaken>>
        BY <1>1, <1>10 DEF EndRejected, StepOver
    <2>2. agent' \in Agents /\ agent'.rev = agent.rev /\ agent'.attempt = agent.attempt
        BY <1>1, <1>3, <2>1 DEF Agents
    <2> QED BY <2>1, <2>2, HostAlone
<1>11. CASE StartAttempt
    <2> DEFINE f == [type |-> "start", rev |-> agent.rev + 1, id |-> agent.count + 1,
                     step |-> agent.step, after |-> Len(log)]
    <2>1. /\ agent.attempt = 0 /\ agent.count < MaxAttempts
          /\ agent' = [agent EXCEPT !.rev = agent.rev + 1, !.count = agent.count + 1,
                                    !.attempt = agent.count + 1, !.index = 0]
          /\ Notify(<<>>, f) /\ UNCHANGED <<log, client, overtaken, twists>>
        BY <1>11 DEF StartAttempt
    <2>0. agent.count < MaxAttempts
        BY <2>1
    <2>2. agent.count + 1 \in 1..MaxAttempts /\ agent.count + 1 \in 0..MaxAttempts /\ Len(log) \in 0..Len(log)
        BY <1>1, <1>2, <2>0, Bounds, SMTT(30)
    <2>3. f \in Frames
        BY <1>2, <1>4, <2>2 DEF Frames
    <2>4. f.type = "start" /\ f.rev = agent.rev + 1 /\ f.after = Len(log) /\ IdAfter(f) = agent.count + 1
        BY DEF IdAfter
    <2> HIDE DEF f
    <2>5. agent' \in Agents /\ agent'.rev = agent.rev + 1 /\ agent'.attempt = agent.count + 1
        BY <1>1, <1>3, <1>4, <2>1, <2>2 DEF Agents
    <2> QED BY <1>1, <2>1, <2>3, <2>4, <2>5, FrameEmitted
<1>12. CASE Push
    <2> DEFINE f == [type |-> "chunk", rev |-> agent.rev + 1, id |-> agent.attempt, index |-> agent.index + 1]
    <2>1. /\ agent.attempt # 0 /\ agent.index < MaxChunks
          /\ agent' = [agent EXCEPT !.rev = agent.rev + 1, !.index = agent.index + 1]
          /\ Notify(<<>>, f) /\ UNCHANGED <<log, client, overtaken, twists>>
        BY <1>12 DEF Push
    <2>2. /\ agent.index + 1 \in 1..MaxChunks /\ agent.index + 1 \in 0..MaxChunks
          /\ agent.attempt \in 1..MaxAttempts
        <3>1. agent.attempt # 0 /\ agent.index < MaxChunks
            BY <2>1
        <3> QED BY <1>2, <3>1, Bounds
    <2>3. f \in Frames
        BY <1>4, <2>2 DEF Frames
    <2>4. f.type = "chunk" /\ f.rev = agent.rev + 1 /\ f.id = agent.attempt /\ IdAfter(f) = agent.attempt
        BY DEF IdAfter
    <2> HIDE DEF f
    <2>5. agent' \in Agents /\ agent'.rev = agent.rev + 1 /\ agent'.attempt = agent.attempt
        BY <1>1, <1>4, <2>1, <2>2 DEF Agents
    <2> QED BY <1>1, <2>1, <2>3, <2>4, <2>5, FrameEmitted
<1>13. CASE Abandon
    <2> DEFINE f == EndFrame("abandoned", 0)
    <2>1. /\ agent.attempt # 0 /\ twists' \in 0..MaxTwists
          /\ agent' = [agent EXCEPT !.rev = agent.rev + 1, !.attempt = 0, !.ask = FALSE]
          /\ Notify(<<>>, f) /\ UNCHANGED <<log, client, overtaken>>
        BY <1>1, <1>13 DEF Abandon
    <2>2. agent.attempt \in 1..MaxAttempts /\ 0 \in 0..Len(log)
        BY <1>1, <1>2, <2>1, Bounds
    <2>3. f \in Frames
        BY <1>2, <1>4, <2>2 DEF Frames, EndFrame
    <2>4. f.type = "end" /\ f.rev = agent.rev + 1 /\ f.id = agent.attempt /\ IdAfter(f) = 0
        BY DEF IdAfter, EndFrame
    <2> HIDE DEF f
    <2>5. agent' \in Agents /\ agent'.rev = agent.rev + 1 /\ agent'.attempt = 0
        BY <1>1, <1>3, <1>4, <2>1 DEF Agents
    <2> QED BY <2>1, <2>3, <2>4, <2>5, FrameEmitted
<1>14. ASSUME NEW type \in Settlements, Settle(type) PROVE FollowInv'
    <2> DEFINE f == EndFrame(Outcome(type), Len(log'))
    <2>1. /\ agent.attempt # 0 /\ twists' \in 0..MaxTwists
          /\ log' = Append(log, Event(type, agent.step))
          /\ agent' = [agent EXCEPT !.rev = agent.rev + 1, !.attempt = 0, !.ask = type = "attempt"]
          /\ Notify(<<Heard(Len(log'))>>, f) /\ UNCHANGED <<client, overtaken>>
        BY <1>1, <1>14 DEF Settle
    <2>2. agent.attempt \in 1..MaxAttempts
        BY <1>2, <2>1, Bounds
    <2>3. Len(log') \in 0..Len(log')
        <3>1. Event(type, agent.step) \in Events
            BY <1>2 DEF Event, Events
        <3>2. Len(log') = Len(log) + 1
            BY <2>1, <3>1, LogGrows DEF FollowInv, HostTypes
        <3> QED BY <1>1, <3>2
    <2>4. Outcome(type) \in {"message", "attempt", "abandoned"}
        BY DEF Outcome, Settlements
    <2>5. f \in Frames'
        BY <1>2, <1>4, <2>2, <2>3, <2>4 DEF Frames, EndFrame
    <2>6. f.type = "end" /\ f.rev = agent.rev + 1 /\ f.id = agent.attempt /\ f.seq = Len(log')
        BY DEF EndFrame
    <2> HIDE DEF f
    <2>7. agent' \in Agents /\ agent'.rev = agent.rev + 1 /\ agent'.attempt = 0
        BY <1>1, <1>3, <1>4, <2>1 DEF Agents
    <2> QED BY <1>2, <2>1, <2>5, <2>6, <2>7, SettlementEmitted
<1> QED BY <1>5, <1>6, <1>7, <1>8, <1>9, <1>10, <1>11, <1>12, <1>13, <1>14 DEF HostStep

(* The invariant holds at the start. *)
LEMMA FollowStarts ==
    ASSUME Init
    PROVE  FollowInv
<1>1. /\ log = <<>> /\ Len(log) = 0 /\ Len(log) \in Nat /\ DOMAIN log = {}
      /\ stream = NoStream /\ conn = Closed /\ queue = <<>> /\ client = Replaced(0, NoStream)
      /\ overtaken = FALSE /\ twists = 0
      /\ agent = [on |-> FALSE, lives |-> 0, rev |-> 0, count |-> 0, step |-> 0,
                  ask |-> FALSE, attempt |-> 0, index |-> 0]
    BY DEF Init
<1>2. /\ 0 \in 0..MaxSteps /\ 0 \in 0..MaxChunks /\ 0 \in 0..MaxAttempts /\ 0 \in 0..MaxTwists
      /\ 0 \in 0..Len(log) /\ 0 \in 0..Len(log) + 1
    BY <1>1, Bounds
<1>3. NoAttempt \in Attempts /\ NoAttempt.id = 0 /\ NoAttempt.next = 0
    BY <1>1, Plainly DEF NoAttempt
<1>4. /\ NoStream \in [rev : Nat, active : Attempts] /\ NoStream.active.id = 0
      /\ NoStream.active.next = 0
    BY <1>3 DEF NoStream
<1>5. /\ client \in ClientsTo(0) /\ client.cursor = 0 /\ client.rev = NoStream.rev
      /\ client.active = NoStream.active /\ client.pending = {} /\ Whole(client) /\ Sorted(client.rows)
    BY <1>1, <1>4, ReplacedIs
<1>6. HostTypes
    <2>1. agent \in Agents
        BY <1>1, <1>2 DEF Agents
    <2>2. log \in Seq(Events)
        BY <1>1
    <2> QED BY <1>1, <1>2, <1>4, <2>1, <2>2 DEF HostTypes
<1>7. ConnTypes
    <2>1. /\ conn \in [state : {"closed", "registered", "observed", "open"}, cut : 0 .. Len(log),
                       next : 0 .. Len(log) + 1, ordinal : Nat, ordinalCut : Nat]
          /\ conn.ordinalCut <= conn.ordinal
        BY <1>1, <1>2 DEF Closed
    <2> QED BY <1>1, <2>1 DEF ConnTypes
<1>8. conn.state = "closed"
    BY <1>1 DEF Closed
<1>9. ClientTypes
    BY <1>2, <1>5, <1>8 DEF ClientTypes
<1>10. StreamTrue
    BY <1>1, <1>4 DEF StreamTrue
<1>11. QueueCovers /\ FramesLinked /\ SettlementsPaired
    BY <1>8 DEF QueueCovers, FramesLinked, SettlementsPaired
<1>12. Window
    BY <1>5 DEF Window
<1> QED BY <1>6, <1>7, <1>9, <1>10, <1>11, <1>12 DEF FollowInv

(* Every step keeps the invariant. *)
LEMMA FollowKeeps ==
    ASSUME FollowInv, [Next]_vars
    PROVE  FollowInv'
<1>1. CASE Host
    BY <1>1, HostKeeps DEF Host
<1>2. CASE Follow
    BY <1>2, ClosedKeeps, ObserveKeeps, OpenKeeps, DeliverEventsKeeps, DeliverFrameKeeps DEF Follow
<1>3. CASE LoseCarrier \/ Reload
    BY <1>3, ClosedKeeps
<1>4. CASE UNCHANGED vars
    <2>1. UNCHANGED <<log, agent, stream, conn, queue, client, overtaken, twists>>
        BY <1>4 DEF vars, hostVars
    <2>2. agent' \in Agents /\ twists' \in 0..MaxTwists
        BY <2>1 DEF FollowInv, HostTypes
    <2> QED BY <2>1, <2>2, HostAlone
<1> QED BY <1>1, <1>2, <1>3, <1>4 DEF Next

(* What a follow connection, the accumulator behind it and the client that reads
   it know of one another, in every state. *)
THEOREM FollowInvariant == Spec => []FollowInv
<1>1. Init => FollowInv
    BY FollowStarts
<1>2. FollowInv /\ [Next]_vars => FollowInv'
    BY FollowKeeps
<1> QED BY <1>1, <1>2, PTL DEF Spec

(* The types follow. *)
LEMMA InvTypes ==
    ASSUME FollowInv
    PROVE  TypeOK
<1>1. /\ Len(log) \in Nat /\ DOMAIN log = 1..Len(log)
      /\ conn.cut \in 0..Len(log) /\ conn.next \in 0..Len(log) + 1
      /\ conn.ordinal \in Nat /\ conn.ordinalCut \in Nat
    BY QueueItems DEF FollowInv
<1>2. \A n \in DOMAIN log : log[n].type \in Settlements \cup {"step", "end", "other"}
    <2>1. \A n \in DOMAIN log : log[n] \in Events
        BY <1>1 DEF FollowInv, HostTypes
    <2> QED BY <2>1 DEF Events
<1>3. /\ conn.state \in {"closed", "registered", "observed", "open"}
      /\ conn.ordinalCut <= conn.ordinal
    BY DEF FollowInv, ConnTypes
<1>4. conn.ordinalCut \in 0..conn.ordinal
    BY <1>1, <1>3
<1>5. /\ client.cursor \in 0..Len(log) /\ client.active \in Attempts /\ client.retained \in Attempts
      /\ client.pending \in SUBSET (1..client.cursor) /\ client.published \in SUBSET (1..client.cursor)
    <2>1. client.cursor \in 0..Len(log) /\ client \in ClientsTo(client.cursor)
        BY DEF FollowInv, ClientTypes
    <2> QED BY <2>1 DEF ClientsTo
<1>6. stream.active \in Attempts /\ twists \in 0..MaxTwists
    BY DEF FollowInv, HostTypes
<1>7. \A a \in Attempts : /\ a.id \in 0 .. MaxAttempts /\ a.step \in 0 .. MaxSteps
                          /\ a.after \in 0 .. Len(log) /\ a.next \in 0 .. MaxChunks
    BY DEF Attempts
<1>8. client.pending \cup client.published \subseteq 1..client.cursor
    BY <1>5
<1> QED BY <1>1, <1>2, <1>3, <1>4, <1>5, <1>6, <1>7, <1>8 DEF TypeOK

(* And that the window is contiguous. *)
LEMMA InvContiguous ==
    ASSUME FollowInv
    PROVE  WindowContiguous
<1>1. conn.state # "failed"
    BY DEF FollowInv, ConnTypes
<1>2. client.cursor \in Nat /\ client \in ClientsTo(client.cursor)
    BY QueueItems DEF FollowInv, ClientTypes
<1>3. \A n \in 1..client.cursor : (n \in client.pending) # Shown(n)
    <2>1. \A n \in 1..client.cursor : n \in client.pending <=> ~Shown(n)
        BY DEF FollowInv, Window, Whole, Shown
    <2>2. \A n : (n \in client.pending) \in BOOLEAN /\ Shown(n) \in BOOLEAN
        BY DEF Shown, ShownIn
    <2> QED BY <2>1, <2>2
<1>4. \A i \in DOMAIN client.rows : client.rows[i].event <= client.cursor
    BY <1>2, ClientFields
<1>5. Sorted(client.rows) => Ordered
    BY DEF Sorted, Ordered
<1>6. overtaken \/ Ordered
    BY <1>5 DEF FollowInv, Window
<1> QED BY <1>1, <1>3, <1>4, <1>6 DEF WindowContiguous

(* The state is well typed: TypeOK. *)
THEOREM FollowTypes == Spec => []TypeOK
<1>1. FollowInv => TypeOK
    BY InvTypes
<1> QED BY <1>1, FollowInvariant, PTL

(* A client that joins at any moment, loses its connection or its service at any
   moment and reads as late as it likes shows the log up to its cursor, each event
   once and in order, and the host never skips a place: WindowContiguous. *)
THEOREM WindowIsContiguous == Spec => []WindowContiguous
<1>1. FollowInv => WindowContiguous
    BY InvContiguous
<1> QED BY <1>1, FollowInvariant, PTL

-----------------------------------------------------------------------------
(* Who owns the transient rows: a second invariant, relative to the first. *)

\* The event at n of the log l settles the attempt a.
SettledBy(l, n, a) ==
    a.id # 0 /\ l[n].type \in Settlements /\ n > a.after /\ l[n].step = a.step

\* Every transient row is of the streaming or of the retained attempt, of which
\* there is one at most, and what is held back settles the one that streams.
Owns(l, c) ==
    /\ \A i \in DOMAIN c.rows : c.rows[i].id \in {0, c.active.id, c.retained.id}
    /\ c.active.id # 0 => c.retained.id = 0 /\ Counted(c.rows, c.active)
    /\ c.pending # {} => c.active.id # 0
    /\ \A n \in c.pending : SettledBy(l, n, c.active) /\ n \notin c.published

(* A row more. *)
LEMMA CountedNext ==
    ASSUME NEW S, NEW rows \in Seq(S), NEW r \in S, NEW a, a.next \in Nat, Counted(rows, a),
           NEW b, b.id = a.id,
           IF r.id = a.id THEN r.index = a.next + 1 /\ b.next = a.next + 1 ELSE b.next = a.next
    PROVE  Counted(Append(rows, r), b)
<1> DEFINE A == Append(rows, r)
           m == Len(rows)
           own == {i \in DOMAIN rows : rows[i].id = a.id}
           more == {i \in DOMAIN A : A[i].id = a.id}
<1>1. /\ m \in Nat /\ DOMAIN rows = 1..m /\ DOMAIN A = 1..(m + 1)
      /\ A[m + 1] = r /\ \A i \in 1..m : A[i] = rows[i]
    BY AppendIs
<1>2. /\ {rows[i].index : i \in own} = 1 .. a.next
      /\ \A i, j \in own : i < j => rows[i].index < rows[j].index
    BY DEF Counted
<1>3. \A i \in own : rows[i].index \in 1..a.next /\ i \in 1..m
    BY <1>1, <1>2
<1>4. \A n \in 1..a.next : \E i \in own : rows[i].index = n
    BY <1>2
<1> HIDE DEF A
<1>5. \A i \in more : i \in own \/ (i = m + 1 /\ r.id = a.id)
    BY <1>1
<1>6. \A i \in own : i \in more /\ A[i] = rows[i]
    BY <1>1
<1> HIDE DEF m
<1>7. CASE r.id # a.id
    <2>1. more = own
        BY <1>5, <1>6, <1>7
    <2>2. {A[i].index : i \in more} = 1 .. a.next
        BY <1>3, <1>4, <1>6, <2>1
    <2>3. \A i, j \in more : i < j => A[i].index < A[j].index
        BY <1>2, <1>6, <2>1
    <2>4. b.next = a.next
        BY <1>7
    <2> QED BY <2>2, <2>3, <2>4 DEF Counted, A
<1>8. CASE r.id = a.id
    <2>0. m \in Nat /\ m + 1 \in more /\ A[m + 1].index = a.next + 1 /\ b.next = a.next + 1
        BY <1>1, <1>8
    <2>1. \A i \in more : A[i].index \in 1 .. a.next + 1
        BY <1>3, <1>5, <1>6, <2>0
    <2>2. \A n \in 1 .. a.next + 1 : \E i \in more : A[i].index = n
        <3>1. \A n \in 1 .. a.next + 1 : n \in 1..a.next \/ n = a.next + 1
            OBVIOUS
        <3> QED BY <1>4, <1>6, <2>0, <3>1
    <2>3. {A[i].index : i \in more} = 1 .. a.next + 1
        BY <2>1, <2>2
    <2>4. ASSUME NEW i \in more, NEW j \in more, i < j
          PROVE  A[i].index < A[j].index
        <3>1. CASE j \in own
            <4>1. i \in own
                BY <1>3, <1>5, <2>0, <2>4, <3>1
            <4> QED BY <1>2, <1>6, <2>4, <3>1, <4>1
        <3>2. CASE j \notin own
            <4>1. j = m + 1 /\ i # m + 1
                BY <1>5, <2>0, <2>4, <3>2
            <4>2. i \in own
                BY <1>5, <4>1
            <4> QED BY <1>3, <1>6, <2>0, <4>1, <4>2
        <3> QED BY <3>1, <3>2
    <2> QED BY <2>0, <2>3, <2>4 DEF Counted, A
<1> QED BY <1>7, <1>8

(* An attempt without chunks has no rows. *)
LEMMA CountedNone ==
    ASSUME NEW rows, NEW a, a.next = 0, \A i \in DOMAIN rows : rows[i].id # a.id
    PROVE  Counted(rows, a)
<1>1. {i \in DOMAIN rows : rows[i].id = a.id} = {}
    OBVIOUS
<1>2. 1..a.next = {}
    OBVIOUS
<1> QED BY <1>1, <1>2 DEF Counted

(* A published event takes no row of the attempt that streams, and with the end
   of its step the retained rows go. *)
LEMMA PublishOwns ==
    ASSUME Len(log) \in Nat, NEW k \in Nat, NEW c \in ClientsTo(k), NEW n \in 1..k, n \notin c.pending,
           Owns(log, c)
    PROVE  LET d == Publish(c, n)
           IN  /\ Owns(log, d) /\ d.restart = c.restart
               /\ d.published = c.published \cup {n}
               /\ \/ d.retained = c.retained /\ (c.retained.id # 0 => log[n] # Event("end", c.retained.step))
                  \/ d.retained = NoAttempt
<1> DEFINE A == Append(c.rows, Durable(n))
           p == [c EXCEPT !.published = @ \cup {n}, !.rows = Append(@, Durable(n))]
           d == Publish(c, n)
<1>1. /\ c.rows \in Seq(RowsTo(k)) /\ Durable(n) \in RowsTo(k) /\ Durable(n).id = 0
      /\ c.active \in Attempts /\ NoAttempt.id = 0
    BY ClientFields, Plainly
<1>2. /\ A \in Seq(RowsTo(k)) /\ Len(c.rows) \in Nat
      /\ DOMAIN c.rows = 1..Len(c.rows) /\ DOMAIN A = 1..(Len(c.rows) + 1)
      /\ \A i \in 1..Len(c.rows) : A[i] = c.rows[i]
      /\ A[Len(c.rows) + 1] = Durable(n)
    BY <1>1, AppendIs
<1>3. \A i \in DOMAIN A : A[i].id \in {0, c.active.id, c.retained.id}
    <2>1. \A i \in DOMAIN A : i \in DOMAIN c.rows \/ i = Len(c.rows) + 1
        BY <1>2
    <2> HIDE DEF A
    <2> QED BY <1>1, <1>2, <2>1 DEF Owns
<1>4. c.active.id # 0 => Counted(A, c.active)
    <2>1. c.active.next \in Nat
        BY <1>1 DEF Attempts
    <2> QED BY <1>1, <2>1, CountedNext DEF Owns
<1> HIDE DEF A
<1>5. /\ p.rows = A /\ p.active = c.active /\ p.retained = c.retained /\ p.pending = c.pending
      /\ p.published = c.published \cup {n} /\ p.restart = c.restart
    BY DEF ClientsTo, A
<1>6. CASE c.retained.id # 0 /\ log[n].type = "end" /\ log[n].step = c.retained.step
    <2> DEFINE W == Without(A, c.retained.id)
    <2>1. d = [p EXCEPT !.rows = Without(@, c.retained.id), !.retained = NoAttempt]
        BY <1>6 DEF Publish
    <2>2. /\ d.rows = W /\ d.active = c.active /\ d.retained = NoAttempt /\ d.pending = c.pending
          /\ d.published = c.published \cup {n} /\ d.restart = c.restart
        <3> HIDE DEF W
        <3>1. p \in ClientsTo(k)
            <4>1. c.published \cup {n} \in SUBSET (1..k)
                BY ClientFields
            <4>2. p = [c EXCEPT !.published = c.published \cup {n}, !.rows = A]
                BY DEF A
            <4> QED BY <1>2, <4>1, <4>2 DEF ClientsTo
        <3> HIDE DEF p, d
        <3> QED BY <1>5, <2>1, <3>1 DEF ClientsTo, W
    <2>3. c.active.id = 0 /\ c.pending = {}
        BY <1>6 DEF Owns
    <2>4. \A i \in DOMAIN W : W[i].id = 0
        <3>1. PickedTo(A, c.retained.id, Len(A), W) /\ DOMAIN A = 1..Len(A)
            BY <1>2, WithoutPicks
        <3>2. \A i \in DOMAIN W : \E j \in DOMAIN A : W[i] = A[j] /\ A[j].id # c.retained.id
            BY <3>1 DEF PickedTo
        <3> QED BY <1>3, <2>3, <3>2
    <2> HIDE DEF W, d
    <2>5. Owns(log, d)
        BY <2>2, <2>3, <2>4 DEF Owns
    <2> QED BY <2>2, <2>5 DEF d
<1>7. CASE ~(c.retained.id # 0 /\ log[n].type = "end" /\ log[n].step = c.retained.step)
    <2>1. d = p
        BY <1>7 DEF Publish
    <2> HIDE DEF p
    <2>2. Owns(log, p)
        <3>1. \A m \in c.pending : SettledBy(log, m, c.active) /\ m \notin c.published \cup {n}
            BY DEF Owns
        <3> QED BY <1>3, <1>4, <1>5, <3>1 DEF Owns
    <2>3. c.retained.id # 0 => log[n] # Event("end", c.retained.step)
        BY <1>7 DEF Event
    <2> HIDE DEF d
    <2> QED BY <1>5, <2>1, <2>2, <2>3 DEF d
<1> QED BY <1>6, <1>7

(* The next event. *)
LEMMA DurableOwns ==
    ASSUME Len(log) \in Nat, NEW k \in Nat, NEW c \in ClientsTo(k), Owns(log, c)
    PROVE  LET d == AcceptDurable(c, k + 1)
           IN  /\ Owns(log, d) /\ d.restart = c.restart
               /\ SettledBy(log, k + 1, c.active) => k + 1 \in d.pending
               /\ \/ d.retained = c.retained
                     /\ (c.retained.id # 0 => log[k + 1] # Event("end", c.retained.step))
                  \/ d.retained = NoAttempt
<1> DEFINE e == [c EXCEPT !.cursor = k + 1]
           d == AcceptDurable(c, k + 1)
<1>0. k + 1 \in Nat /\ k + 1 \in 1..(k + 1)
    OBVIOUS
<1>1. e \in ClientsTo(k + 1) /\ k + 1 \in Nat /\ k + 1 \in 1..(k + 1)
    BY <1>0, MoveOn, Zenon
<1>2. /\ e.rows = c.rows /\ e.active = c.active /\ e.retained = c.retained
      /\ e.pending = c.pending /\ e.published = c.published /\ e.restart = c.restart
    BY DEF ClientsTo
<1>3. k + 1 \notin c.pending /\ k + 1 \notin c.published
    BY ClientFields
<1>4. Settles(k + 1, c.active) <=> SettledBy(log, k + 1, c.active)
    BY DEF Settles, SettledBy
<1>5. Owns(log, e)
    BY <1>2 DEF Owns
<1>6. CASE Settles(k + 1, c.active)
    <2>1. d = [e EXCEPT !.pending = @ \cup {k + 1}]
        BY <1>2, <1>3, <1>6 DEF AcceptDurable
    <2> HIDE DEF e, d
    <2>2. /\ d.rows = e.rows /\ d.active = e.active /\ d.retained = e.retained
          /\ d.pending = e.pending \cup {k + 1} /\ d.published = e.published /\ d.restart = e.restart
        BY <1>1, <2>1 DEF ClientsTo
    <2>3. c.active.id # 0 /\ c.retained.id = 0
        BY <1>2, <1>5, <1>6 DEF Owns, Settles
    <2>4. Owns(log, d)
        BY <1>2, <1>3, <1>4, <1>5, <1>6, <2>2, <2>3 DEF Owns
    <2> QED BY <1>2, <2>2, <2>3, <2>4 DEF d
<1>7. CASE ~Settles(k + 1, c.active)
    <2>1. d = Publish(e, k + 1)
        BY <1>7 DEF AcceptDurable
    <2> HIDE DEF e, d
    <2>2. /\ Owns(log, d) /\ d.restart = e.restart
          /\ \/ d.retained = e.retained /\ (e.retained.id # 0 => log[k + 1] # Event("end", e.retained.step))
             \/ d.retained = NoAttempt
        BY <1>1, <1>2, <1>3, <1>5, <2>1, PublishOwns
    <2> QED BY <1>2, <1>4, <1>7, <2>2 DEF d
<1> QED BY <1>6, <1>7

\* What settles the attempt that streams is held back.
Held(l, c) == \A n \in 1 .. c.cursor : SettledBy(l, n, c.active) => n \in c.pending

LEMMA DurableHeld ==
    ASSUME Len(log) \in Nat, NEW k \in Nat, NEW c \in ClientsTo(k), Whole(c), Held(log, c)
    PROVE  Held(log, AcceptDurable(c, k + 1))
<1> DEFINE d == AcceptDurable(c, k + 1)
<1>1. c.cursor = k /\ k + 1 \in Nat
    BY ClientFields
<1>2. /\ d \in ClientsTo(k + 1) /\ d.active = c.active
      /\ Settles(k + 1, c.active) => d.pending = c.pending \cup {k + 1}
      /\ ~Settles(k + 1, c.active) => d.pending = c.pending
    BY DurableKeeps
<1> HIDE DEF d
<1>3. d.cursor = k + 1
    BY <1>1, <1>2, ClientFields
<1>4. \A n \in 1..k + 1 : n \in 1..k \/ n = k + 1
    OBVIOUS
<1>5. Settles(k + 1, c.active) <=> SettledBy(log, k + 1, c.active)
    BY DEF Settles, SettledBy
<1>6. Held(log, d)
    BY <1>1, <1>2, <1>3, <1>4, <1>5 DEF Held
<1> QED BY <1>6 DEF d

(* The events of an item. *)
LEMMA AllOwned ==
    ASSUME Len(log) \in Nat, NEW k \in Nat, NEW c \in ClientsTo(k), Whole(c), Owns(log, c),
           Held(log, c), NEW last \in Nat, k <= last
    PROVE  LET d == AcceptAll(c, k + 1, last)
           IN  /\ Owns(log, d) /\ Held(log, d) /\ d.restart = c.restart
               /\ \/ /\ d.retained = c.retained
                     /\ c.retained.id # 0 =>
                            \A n \in k + 1 .. last : log[n] # Event("end", c.retained.step)
                  \/ d.retained = NoAttempt
<1> DEFINE Good(d, n) ==
               /\ d \in ClientsTo(n) /\ Whole(d) /\ Owns(log, d) /\ Held(log, d) /\ d.restart = c.restart
               /\ \/ /\ d.retained = c.retained
                     /\ c.retained.id # 0 =>
                            \A m \in k + 1 .. n : log[m] # Event("end", c.retained.step)
                  \/ d.retained = NoAttempt
<1>1. PICK f : AcceptedTo(c, k + 1, last, f) /\ AcceptAll(c, k + 1, last) = f[last]
    <2>1. k + 1 \in Int /\ last \in Int /\ (k + 1) - 1 <= last
        OBVIOUS
    <2> QED BY <2>1, AcceptAllIs
<1> DEFINE T == {n \in k..last : Good(f[n], n)}
<1>2. k \in T
    <2>1. f[k] = c /\ k \in k..last /\ k + 1 .. k = {}
        <3>1. (k + 1) - 1 = k
            OBVIOUS
        <3> QED BY <1>1, <3>1 DEF AcceptedTo
    <2> QED BY <2>1
<1>3. ASSUME NEW n \in k..(last - 1), n \in T PROVE n + 1 \in T
    <2>1. n \in Nat /\ n + 1 \in k..last /\ n + 1 \in k + 1 .. last /\ (n + 1) - 1 = n
          /\ \A m \in k + 1 .. n + 1 : m \in k + 1 .. n \/ m = n + 1
        OBVIOUS
    <2>2. Good(f[n], n)
        BY <1>3
    <2>3. f[n + 1] = AcceptDurable(f[n], n + 1)
        BY <1>1, <2>1 DEF AcceptedTo
    <2> HIDE DEF T
    <2>4. f[n + 1] \in ClientsTo(n + 1) /\ Whole(f[n + 1]) /\ Held(log, f[n + 1])
        <3>1. f[n] \in ClientsTo(n) /\ Whole(f[n]) /\ Held(log, f[n])
            BY <2>2
        <3> HIDE DEF Good
        <3>2. f[n + 1] \in ClientsTo(n + 1) /\ Whole(f[n + 1])
            BY <2>1, <2>3, <3>1, DurableKeeps
        <3> QED BY <2>1, <2>3, <3>1, <3>2, DurableHeld
    <2>5. /\ Owns(log, f[n + 1]) /\ f[n + 1].restart = f[n].restart
          /\ \/ /\ f[n + 1].retained = f[n].retained
                /\ f[n].retained.id # 0 => log[n + 1] # Event("end", f[n].retained.step)
             \/ f[n + 1].retained = NoAttempt
        <3>1. f[n] \in ClientsTo(n) /\ Owns(log, f[n])
            BY <2>2
        <3> HIDE DEF Good
        <3> QED BY <2>1, <2>3, <3>1, DurableOwns
    <2>6. Good(f[n + 1], n + 1)
        <3>1. f[n + 1].restart = c.restart
            BY <2>2, <2>5
        <3>2. NoAttempt.id = 0
            BY DEF NoAttempt
        <3>3. \/ /\ f[n + 1].retained = c.retained
                 /\ c.retained.id # 0 =>
                        \A m \in k + 1 .. n + 1 : log[m] # Event("end", c.retained.step)
              \/ f[n + 1].retained = NoAttempt
            BY <2>1, <2>2, <2>5
        <3> QED BY <2>4, <2>5, <3>1, <3>3
    <2> HIDE DEF Good
    <2> QED BY <2>1, <2>6 DEF T
<1>4. T = k..last
    <2>1. T \in SUBSET (k..last)
        OBVIOUS
    <2> HIDE DEF T
    <2> QED BY <1>2, <1>3, <2>1, UpTo
<1>5. last \in T
    <2> HIDE DEF T
    <2> QED BY <1>4
<1>6. Good(f[last], last)
    BY <1>5
<1> QED BY <1>1, <1>6

\* What the item at the head makes of the attempt a that runs, by the log l.
Goes(l, a, item, b, cut) ==
    IF ~Live(item, cut) THEN b = a
    ELSE LET f == item.frame
         IN  \/ /\ f.type = "start"
                /\ a.id = 0 /\ b = [id |-> f.id, step |-> f.step, after |-> f.after, next |-> 0]
             \/ /\ f.type = "chunk"
                /\ a.id = f.id /\ f.index = a.next + 1 /\ b = [a EXCEPT !.next = f.index]
             \/ /\ f.type = "end"
                /\ a.id = f.id /\ f.index = a.next /\ b = NoAttempt
                /\ IF f.seq = 0 THEN f.outcome = "abandoned"
                   ELSE f.outcome = Outcome(l[f.seq].type) /\ SettledBy(l, f.seq, a)

(* The start of an attempt finds none, or a retained one, whose step has not ended. *)
LEMMA StartOwns ==
    ASSUME Len(log) \in Nat, NEW k \in Nat, NEW c \in ClientsTo(k), Owns(log, c), c.active.id = 0,
           NEW f \in Frames, f.type = "start"
    PROVE  LET d == AcceptStart(c, f)
           IN  /\ Owns(log, d) /\ d.retained = c.retained
               /\ d.active.id # 0 => d.active = [id |-> f.id, step |-> f.step, after |-> f.after, next |-> 0]
               /\ d.restart # c.restart => c.retained.id # 0
<1> DEFINE a == [id |-> f.id, step |-> f.step, after |-> f.after, next |-> 0]
           d == AcceptStart(c, f)
<1>1. c.pending = {}
    BY DEF Owns
<1>2. CASE c.retained.id # 0
    <2>1. d = [c EXCEPT !.restart = TRUE]
        BY <1>2 DEF AcceptStart, Rebaseline
    <2> HIDE DEF d
    <2>2. /\ d.rows = c.rows /\ d.active = c.active /\ d.retained = c.retained /\ d.pending = c.pending
          /\ d.published = c.published
        BY <2>1 DEF ClientsTo
    <2> QED BY <1>2, <2>2 DEF Owns, d
<1>3. CASE c.retained.id = 0
    <2>0. a.id # 0 /\ a.next = 0
        BY DEF Frames
    <2> HIDE DEF a
    <2>1. d = [c EXCEPT !.active = a]
        BY <1>1, <1>3 DEF AcceptStart, a
    <2> HIDE DEF d
    <2>2. /\ d.rows = c.rows /\ d.active = a /\ d.retained = c.retained /\ d.pending = c.pending
          /\ d.published = c.published /\ d.restart = c.restart
        BY <2>1 DEF ClientsTo
    <2>3. \A i \in DOMAIN c.rows : c.rows[i].id = 0
        BY <1>3 DEF Owns
    <2>4. Counted(c.rows, a)
        BY <2>0, <2>3, CountedNone
    <2>5. Owns(log, d)
        BY <1>1, <1>3, <2>2, <2>3, <2>4 DEF Owns
    <2> QED BY <2>2, <2>5 DEF d, a
<1> QED BY <1>2, <1>3

(* A chunk of the attempt that streams. *)
LEMMA ChunkOwns ==
    ASSUME Len(log) \in Nat, NEW k \in Nat, NEW c \in ClientsTo(k), Owns(log, c),
           NEW f \in Frames, f.type = "chunk",
           c.active.id # 0 => c.active.id = f.id /\ f.index = c.active.next + 1
    PROVE  LET d == AcceptChunk(c, f)
           IN  /\ Owns(log, d) /\ d.retained = c.retained /\ d.restart = c.restart
               /\ d.active.id # 0 => c.active.id # 0 /\ d.active = [c.active EXCEPT !.next = f.index]
<1> DEFINE r == Chunk(c, c.active, f.index)
           A == Append(c.rows, r)
           b == [c.active EXCEPT !.next = f.index]
           d == AcceptChunk(c, f)
<1>1. f.id # 0
    BY DEF Frames
<1>2. CASE c.active.id # f.id
    BY <1>1, <1>2 DEF AcceptChunk
<1>3. CASE c.active.id = f.id
    <2>0. /\ c.active \in Attempts /\ c.cursor = k /\ c.rows \in Seq(RowsTo(k))
        BY ClientFields
    <2>1. c.active.next \in Nat /\ f.index = c.active.next + 1 /\ c.active.id # 0 /\ c.retained.id = 0
        BY <1>1, <1>3, <2>0 DEF Attempts, Owns
    <2>2. r \in RowsTo(k) /\ r.id = f.id /\ r.index = f.index
        <3>1. f.id \in 1..MaxAttempts /\ f.index \in 1..MaxChunks
            BY DEF Frames
        <3>2. c.active.step \in 0..MaxSteps
            BY <2>0 DEF Attempts
        <3>3. f.id \in 0..MaxAttempts /\ f.index \in 0..MaxChunks /\ k \in 0..k
            BY <3>1, Bounds
        <3>4. r = [event |-> k, id |-> f.id, step |-> c.active.step, index |-> f.index]
            BY <1>3, <2>0 DEF Chunk
        <3> QED BY <3>2, <3>3, <3>4 DEF RowsTo
    <2>3. b.id = c.active.id /\ b.next = f.index /\ b.after = c.active.after /\ b.step = c.active.step
        BY <2>0 DEF Attempts
    <2>4. d = [c EXCEPT !.active = b, !.rows = A]
        BY <1>3, <2>1 DEF AcceptChunk, ClientsTo
    <2> HIDE DEF r, b, d
    <2>5. Counted(A, b)
        BY <1>3, <2>0, <2>1, <2>2, <2>3, CountedNext DEF Owns
    <2>6. \A i \in DOMAIN A : A[i].id \in {0, b.id}
        <3>1. /\ Len(c.rows) \in Nat /\ DOMAIN c.rows = 1..Len(c.rows) /\ DOMAIN A = 1..(Len(c.rows) + 1)
              /\ A[Len(c.rows) + 1] = r /\ \A i \in 1..Len(c.rows) : A[i] = c.rows[i]
            BY <2>0, <2>2, AppendIs
        <3>2. \A i \in 1..(Len(c.rows) + 1) : i \in 1..Len(c.rows) \/ i = Len(c.rows) + 1
            BY <3>1
        <3> HIDE DEF A
        <3> QED BY <1>3, <2>1, <2>2, <2>3, <3>1, <3>2 DEF Owns
    <2> HIDE DEF A
    <2>7. /\ d.rows = A /\ d.active = b /\ d.retained = c.retained /\ d.pending = c.pending
          /\ d.published = c.published /\ d.restart = c.restart
        BY <2>4 DEF ClientsTo
    <2>8. \A n \in c.pending : SettledBy(log, n, b) /\ n \notin c.published
        BY <2>3 DEF Owns, SettledBy
    <2>9. Owns(log, d)
        BY <2>1, <2>3, <2>5, <2>6, <2>7, <2>8 DEF Owns
    <2> QED BY <2>1, <2>7, <2>9 DEF d, b
<1> QED BY <1>2, <1>3

(* The end of an attempt: its rows go, or stay as those of the retained one. *)
LEMMA EndOwns ==
    ASSUME Len(log) \in Nat, NEW k \in Nat, NEW c \in ClientsTo(k), Owns(log, c),
           NEW f \in Frames, f.type = "end",
           c.active.id # 0 =>
               /\ c.active.id = f.id /\ f.index = c.active.next /\ OnlyLast(c)
               /\ IF f.seq = 0 THEN f.outcome = "abandoned" /\ c.pending = {}
                  ELSE /\ f.outcome = Outcome(log[f.seq].type) /\ SettledBy(log, f.seq, c.active)
                       /\ f.seq \in c.pending
    PROVE  LET d == AcceptEnd(c, f)
           IN  /\ Owns(log, d) /\ d.active.id = 0 /\ d.restart = c.restart
               /\ \/ d.retained = c.retained
                  \/ /\ c.active.id # 0 /\ f.seq # 0 /\ f.seq = k /\ d.retained = c.active
                     /\ log[f.seq].type = "message"
<1> DEFINE a == c.active
           e == [c EXCEPT !.active = NoAttempt]
           d == AcceptEnd(c, f)
           W == Without(c.rows, a.id)
<1>1. /\ c.active \in Attempts /\ c.cursor = k /\ c.rows \in Seq(RowsTo(k))
      /\ c.pending \in SUBSET (1..k) /\ c.published \in SUBSET (1..k) /\ f.id # 0
    BY ClientFields DEF Frames
<1>2. CASE a.id = 0
    <2>1. d = c
        BY <1>1, <1>2 DEF AcceptEnd
    <2> QED BY <1>2, <2>1
<1>3. CASE a.id # 0
    <2>1. /\ a.id = f.id /\ f.index = a.next /\ OnlyLast(c) /\ c.retained.id = 0
          /\ f.seq = 0 => f.outcome = "abandoned" /\ c.pending = {}
          /\ f.seq # 0 => /\ f.outcome = Outcome(log[f.seq].type) /\ SettledBy(log, f.seq, a)
                          /\ f.seq \in c.pending
        BY <1>3 DEF Owns
    <2>2. /\ e \in ClientsTo(k) /\ e.active = NoAttempt /\ e.pending = c.pending /\ e.rows = c.rows
          /\ e.published = c.published /\ e.retained = c.retained /\ e.restart = c.restart
          /\ e.cursor = c.cursor /\ NoAttempt.id = 0
        BY Plainly DEF ClientsTo
    <2>3. W \in Seq(RowsTo(k)) /\ \A i \in DOMAIN W : W[i].id = 0
        <3>1. W \in Seq(RowsTo(k)) /\ PickedTo(c.rows, a.id, Len(c.rows), W) /\ DOMAIN c.rows = 1..Len(c.rows)
            BY <1>1, WithoutPicks
        <3>2. \A i \in DOMAIN W : \E j \in DOMAIN c.rows : W[i] = c.rows[j] /\ c.rows[j].id # a.id
            BY <3>1 DEF PickedTo
        <3> QED BY <2>1, <3>1, <3>2 DEF Owns
    <2>4. CASE f.seq = 0
        <3>1. d = [e EXCEPT !.rows = W]
            BY <2>1, <2>2, <2>4 DEF AcceptEnd
        <3> HIDE DEF d, e, W
        <3>2. /\ d.rows = W /\ d.active = NoAttempt /\ d.retained = c.retained /\ d.pending = {}
              /\ d.restart = c.restart
            BY <2>1, <2>2, <2>4, <3>1 DEF ClientsTo
        <3>3. Owns(log, d)
            BY <2>1, <2>2, <2>3, <3>2 DEF Owns
        <3> QED BY <2>2, <3>2, <3>3 DEF d
    <2>5. CASE f.seq # 0
        <3> DEFINE g == [e EXCEPT !.pending = @ \ {f.seq}]
        <3>1. /\ f.seq \in c.pending /\ f.seq \notin c.published /\ f.seq = k /\ c.pending = {f.seq}
              /\ f.seq \in 1..k /\ \A i \in DOMAIN c.rows : c.rows[i].event < f.seq
            BY <1>1, <2>1, <2>5 DEF Owns, OnlyLast
        <3>2. f.outcome # "abandoned"
            BY <2>1, <2>5 DEF SettledBy, Outcome, Settlements
        <3>3. /\ g \in ClientsTo(k) /\ g.active = NoAttempt /\ g.pending = {} /\ g.rows = c.rows
              /\ g.published = c.published /\ g.retained = c.retained /\ g.restart = c.restart
            <4>1. g = [e EXCEPT !.pending = {}]
                BY <2>2, <3>1
            <4> HIDE DEF e, g
            <4> QED BY <2>2, <4>1 DEF ClientsTo
        <3>4. CASE log[f.seq].type = "message"
            <4> DEFINE h == [g EXCEPT !.retained = a]
            <4>1. d = Publish(h, f.seq)
                BY <2>1, <2>2, <2>5, <3>1, <3>2, <3>4 DEF AcceptEnd
            <4>2. /\ h \in ClientsTo(k) /\ h.active = NoAttempt /\ h.pending = {} /\ h.rows = c.rows
                  /\ h.published = c.published /\ h.retained = a /\ h.restart = c.restart
                <5> HIDE DEF e, g
                <5> QED BY <1>1, <3>3 DEF ClientsTo
            <4> HIDE DEF d, e, g, h
            <4>3. Owns(log, h)
                BY <2>1, <2>2, <4>2 DEF Owns
            <4>4. /\ Owns(log, d) /\ d.restart = h.restart
                  /\ d.retained = h.retained \/ d.retained = NoAttempt
                BY <3>1, <4>1, <4>2, <4>3, PublishOwns
            <4>5. d.retained = h.retained /\ d.active = h.active
                <5>1. d = [h EXCEPT !.published = @ \cup {f.seq}, !.rows = Append(@, Durable(f.seq))]
                    BY <3>4, <4>1 DEF Publish
                <5> QED BY <4>2, <5>1 DEF ClientsTo
            <4> QED BY <1>3, <2>2, <2>5, <3>1, <3>4, <4>2, <4>4, <4>5 DEF d
        <3>5. CASE log[f.seq].type # "message"
            <4> DEFINE I == Insert(W, f.seq)
            <4>1. d = [g EXCEPT !.published = @ \cup {f.seq}, !.rows = Insert(Without(@, a.id), f.seq)]
                BY <2>1, <2>2, <2>5, <3>1, <3>2, <3>5 DEF AcceptEnd
            <4>2. d = [g EXCEPT !.published = c.published \cup {f.seq}, !.rows = I]
                BY <3>3, <4>1
            <4> HIDE DEF d, e, g, W, I
            <4>3. /\ d.rows = I /\ d.active = NoAttempt /\ d.retained = c.retained /\ d.pending = {}
                  /\ d.restart = c.restart
                BY <3>3, <4>2 DEF ClientsTo
            <4>4. I = Append(W, Durable(f.seq))
                <5>1. \A i \in DOMAIN W : W[i].event < f.seq
                    <6>1. f.seq \in Nat
                        BY <3>1
                    <6>2. \A m \in Nat : (\A i \in DOMAIN c.rows : c.rows[i].event < m) =>
                              \A i \in DOMAIN Without(c.rows, a.id) : Without(c.rows, a.id)[i].event < m
                        BY <1>1, <1>3, WithoutRows
                    <6> QED BY <3>1, <6>1, <6>2 DEF W
                <5>2. (\A i \in DOMAIN W : W[i].event < f.seq) => I = Append(W, Durable(f.seq))
                    BY <2>3, <3>1, InsertedRow, SMTT(60) DEF I
                <5> QED BY <5>1, <5>2
            <4>5. \A i \in DOMAIN I : I[i].id = 0
                <5>1. Durable(f.seq) \in RowsTo(k) /\ Durable(f.seq).id = 0
                    BY <3>1, Plainly
                <5>2. /\ Len(W) \in Nat /\ DOMAIN W = 1..Len(W) /\ DOMAIN I = 1..(Len(W) + 1)
                      /\ I[Len(W) + 1] = Durable(f.seq) /\ \A i \in 1..Len(W) : I[i] = W[i]
                    BY <2>3, <4>4, <5>1, AppendIs
                <5>3. \A i \in 1..(Len(W) + 1) : i \in 1..Len(W) \/ i = Len(W) + 1
                    BY <5>2
                <5> QED BY <2>3, <5>1, <5>2, <5>3
            <4>6. Owns(log, d)
                BY <2>1, <2>2, <4>3, <4>5 DEF Owns
            <4> QED BY <2>2, <4>3, <4>6 DEF d
        <3> QED BY <3>4, <3>5
    <2> QED BY <2>4, <2>5
<1> QED BY <1>2, <1>3

(* What becomes of the client by a frame that goes on from the attempt it has. *)
LEMMA FrameOwns ==
    ASSUME Len(log) \in Nat, NEW k \in Nat, NEW c \in ClientsTo(k), Owns(log, c),
           NEW item, NEW cut, Live(item, cut), NEW f \in Frames, item.frame = f, NEW x, NEW y,
           c.active.id # 0 => c.active = x, Goes(log, x, item, y, cut),
           c.active.id # 0 => OnlyLast(c),
           f.type = "end" /\ c.active.id # 0 =>
               IF f.seq = 0 THEN c.pending = {} ELSE f.seq \in c.pending
    PROVE  LET d == AcceptFrame(c, f)
           IN  /\ Owns(log, d)
               /\ d.active.id # 0 => d.active = y
               /\ d.restart # c.restart => f.type = "start" /\ c.retained.id # 0
               /\ \/ d.retained = c.retained
                  \/ /\ f.type = "end" /\ c.active.id # 0 /\ f.seq # 0 /\ f.seq = k
                     /\ d.retained = c.active
                     /\ log[f.seq].type = "message" /\ log[f.seq].step = c.active.step
<1> DEFINE e == [c EXCEPT !.rev = f.rev]
           d == AcceptFrame(c, f)
<1>1. f.type \in {"start", "chunk", "end"} /\ f.rev \in Nat /\ f.id # 0
    BY DEF Frames
<1>2. /\ e \in ClientsTo(k) /\ e.active = c.active /\ e.pending = c.pending /\ e.retained = c.retained
      /\ e.rows = c.rows /\ e.cursor = c.cursor /\ e.published = c.published /\ e.restart = c.restart
    BY <1>1 DEF ClientsTo
<1> HIDE DEF e
<1>3. Owns(log, e) /\ (OnlyLast(c) => OnlyLast(e))
    BY <1>2 DEF Owns, OnlyLast
<1>4. CASE f.type = "start"
    <2>1. d = AcceptStart(e, f)
        BY <1>4 DEF AcceptFrame, e
    <2> HIDE DEF d
    <2>2. x.id = 0 /\ y = [id |-> f.id, step |-> f.step, after |-> f.after, next |-> 0]
        BY <1>4 DEF Goes
    <2>3. e.active.id = 0
        BY <1>2, <2>2
    <2>4. /\ Owns(log, d) /\ d.retained = e.retained
          /\ d.active.id # 0 => d.active = [id |-> f.id, step |-> f.step, after |-> f.after, next |-> 0]
          /\ d.restart # e.restart => e.retained.id # 0
        BY <1>2, <1>3, <1>4, <2>1, <2>3, StartOwns
    <2> QED BY <1>2, <1>4, <2>2, <2>4 DEF d
<1>5. CASE f.type = "chunk"
    <2>1. d = AcceptChunk(e, f)
        BY <1>5 DEF AcceptFrame, e
    <2> HIDE DEF d
    <2>2. x.id = f.id /\ f.index = x.next + 1 /\ y = [x EXCEPT !.next = f.index]
        BY <1>5 DEF Goes
    <2>3. /\ Owns(log, d) /\ d.retained = e.retained /\ d.restart = e.restart
          /\ d.active.id # 0 => e.active.id # 0 /\ d.active = [e.active EXCEPT !.next = f.index]
        BY <1>2, <1>3, <1>5, <2>1, <2>2, ChunkOwns
    <2> QED BY <1>2, <2>2, <2>3 DEF d
<1>6. CASE f.type = "end"
    <2>1. d = AcceptEnd(e, f)
        BY <1>6 DEF AcceptFrame, e
    <2> HIDE DEF d
    <2>2. /\ x.id = f.id /\ f.index = x.next
          /\ IF f.seq = 0 THEN f.outcome = "abandoned"
             ELSE f.outcome = Outcome(log[f.seq].type) /\ SettledBy(log, f.seq, x)
        BY <1>6 DEF Goes
    <2>3. e.active.id # 0 =>
              /\ e.active.id = f.id /\ f.index = e.active.next /\ OnlyLast(e)
              /\ IF f.seq = 0 THEN f.outcome = "abandoned" /\ e.pending = {}
                 ELSE /\ f.outcome = Outcome(log[f.seq].type) /\ SettledBy(log, f.seq, e.active)
                      /\ f.seq \in e.pending
        BY <1>2, <1>3, <1>6, <2>2
    <2>4. /\ Owns(log, d) /\ d.active.id = 0 /\ d.restart = e.restart
          /\ \/ d.retained = e.retained
             \/ /\ e.active.id # 0 /\ f.seq # 0 /\ f.seq = k /\ d.retained = e.active
                /\ log[f.seq].type = "message"
        BY <1>2, <1>3, <1>6, <2>1, <2>3, EndOwns
    <2>5. e.active.id # 0 /\ f.seq # 0 => log[f.seq].step = e.active.step
        BY <2>3 DEF SettledBy
    <2> QED BY <1>2, <1>6, <2>4, <2>5 DEF d
<1> QED BY <1>1, <1>4, <1>5, <1>6

\* What is kept of an attempt by a log l, and that a is the one that the agent runs.
Att(l) == [id : Nat, step : Nat, after : 0 .. Len(l), next : Nat]
Runs(a, ag) ==
    IF ag.attempt = 0 THEN a = NoAttempt
    ELSE a.id = ag.attempt /\ a.step = ag.step /\ a.next = ag.index

\* The items of the queue lead from the attempt a, if it is known, to the agent's.
Tracked(q, cut, a, ag, l) ==
    \E g \in [0 .. Len(q) -> Att(l)] :
        /\ a.id # 0 => g[0] = a
        /\ \A j \in 1 .. Len(q) : Goes(l, g[j - 1], q[j], g[j], cut)
        /\ Runs(g[Len(q)], ag)

(* An item at the end, with the step of the agent that it is about. *)
LEMMA TrackedNext ==
    ASSUME NEW S, NEW q \in Seq(S), NEW cut, NEW a, NEW ag, NEW l, Tracked(q, cut, a, ag, l),
           NEW e \in S, NEW ag2,
           \A x \in Att(l) : Runs(x, ag) => \E y \in Att(l) : Goes(l, x, e, y, cut) /\ Runs(y, ag2)
    PROVE  Tracked(Append(q, e), cut, a, ag2, l)
<1> DEFINE A == Append(q, e)
           m == Len(q)
<1>1. /\ m \in Nat /\ Len(A) = m + 1 /\ DOMAIN A = 1..(m + 1)
      /\ A[m + 1] = e /\ \A i \in 1..m : A[i] = q[i]
    BY AppendIs
<1>2. PICK g \in [0 .. m -> Att(l)] :
          /\ a.id # 0 => g[0] = a
          /\ \A j \in 1 .. m : Goes(l, g[j - 1], q[j], g[j], cut)
          /\ Runs(g[m], ag)
    BY DEF Tracked
<1> HIDE DEF A, m
<1>3. m \in 0..m /\ 0 \in 0..m + 1 /\ m + 1 # 0
    BY <1>1
<1>4. PICK y \in Att(l) : Goes(l, g[m], e, y, cut) /\ Runs(y, ag2)
    BY <1>2, <1>3
<1> DEFINE h == [j \in 0 .. m + 1 |-> IF j = m + 1 THEN y ELSE g[j]]
<1>5. \A j \in 0 .. m + 1 : j = m + 1 \/ j \in 0..m
    BY <1>1
<1>6. h \in [0 .. m + 1 -> Att(l)]
    BY <1>2, <1>5
<1>7. h[m + 1] = y /\ \A j \in 0..m : h[j] = g[j]
    BY <1>1
<1> HIDE DEF h
<1>8. h[0] = g[0]
    BY <1>1, <1>7
<1>9. ASSUME NEW j \in 1 .. m + 1
      PROVE  Goes(l, h[j - 1], A[j], h[j], cut)
    <2>1. CASE j = m + 1
        <3>1. j - 1 = m /\ h[m] = g[m] /\ h[j] = y /\ A[j] = e
            BY <1>1, <1>3, <1>7, <2>1
        <3> QED BY <1>4, <3>1
    <2>2. CASE j # m + 1
        <3>1. j \in 1..m /\ j \in 0..m /\ j - 1 \in 0..m
            BY <1>1, <2>2
        <3>2. h[j - 1] = g[j - 1] /\ h[j] = g[j] /\ A[j] = q[j]
            BY <1>1, <1>7, <3>1
        <3> QED BY <1>2, <3>1, <3>2
    <2> QED BY <2>1, <2>2
<1>10. Tracked(A, cut, a, ag2, l)
    BY <1>1, <1>2, <1>4, <1>6, <1>7, <1>8, <1>9 DEF Tracked
<1> QED BY <1>10 DEF A

(* An item in front that is no frame. *)
LEMMA TrackedFront ==
    ASSUME NEW S, NEW q \in Seq(S), NEW cut, NEW a, NEW ag, NEW l, Tracked(q, cut, a, ag, l),
           NEW e \in S, ~Live(e, cut)
    PROVE  Tracked(<<e>> \o q, cut, a, ag, l)
<1> DEFINE A == <<e>> \o q
           m == Len(q)
<1>1. /\ m \in Nat /\ Len(A) = m + 1 /\ DOMAIN A = 1..(m + 1)
      /\ A[1] = e /\ \A i \in 1..m : A[i + 1] = q[i]
    BY ConsIs
<1>2. PICK g \in [0 .. m -> Att(l)] :
          /\ a.id # 0 => g[0] = a
          /\ \A j \in 1 .. m : Goes(l, g[j - 1], q[j], g[j], cut)
          /\ Runs(g[m], ag)
    BY DEF Tracked
<1> HIDE DEF A, m
<1> DEFINE h == [j \in 0 .. m + 1 |-> IF j = 0 THEN g[0] ELSE g[j - 1]]
<1>5. \A j \in 0 .. m + 1 : j = 0 \/ j - 1 \in 0..m
    BY <1>1
<1>6. h \in [0 .. m + 1 -> Att(l)]
    BY <1>1, <1>2, <1>5
<1>7. h[0] = g[0] /\ h[m + 1] = g[m] /\ \A j \in 1..m + 1 : h[j] = g[j - 1]
    BY <1>1
<1> HIDE DEF h
<1>9. ASSUME NEW j \in 1 .. m + 1
      PROVE  Goes(l, h[j - 1], A[j], h[j], cut)
    <2>1. CASE j = 1
        <3>1. j - 1 = 0 /\ h[j] = g[0] /\ A[j] = e
            BY <1>1, <1>7, <2>1
        <3> QED BY <1>7, <3>1 DEF Goes
    <2>2. CASE j # 1
        <3>1. j - 1 \in 1..m /\ j - 1 \in 1..m + 1 /\ (j - 1) + 1 = j
            BY <1>1, <2>2
        <3>2. h[j - 1] = g[(j - 1) - 1] /\ h[j] = g[j - 1] /\ A[j] = q[j - 1]
            BY <1>1, <1>7, <3>1
        <3> QED BY <1>2, <3>1, <3>2
    <2> QED BY <2>1, <2>2
<1>10. Tracked(A, cut, a, ag, l)
    BY <1>1, <1>2, <1>6, <1>7, <1>9 DEF Tracked
<1> QED BY <1>10 DEF A

(* Without the head, for what the client has made of it. *)
LEMMA TrackedTail ==
    ASSUME NEW S, NEW q \in Seq(S), q # <<>>, NEW cut, NEW a, NEW ag, NEW l, Tracked(q, cut, a, ag, l)
    PROVE  \E x, y \in Att(l) :
               /\ a.id # 0 => a = x
               /\ Goes(l, x, Head(q), y, cut)
               /\ \A b : (b.id # 0 => b = y) => Tracked(Tail(q), cut, b, ag, l)
<1> DEFINE A == Tail(q)
           m == Len(q)
<1>1. /\ m \in Nat /\ m >= 1 /\ Len(A) = m - 1 /\ Head(q) = q[1]
      /\ \A i \in 1..m - 1 : A[i] = q[i + 1]
    BY TailIs
<1>2. PICK g \in [0 .. m -> Att(l)] :
          /\ a.id # 0 => g[0] = a
          /\ \A j \in 1 .. m : Goes(l, g[j - 1], q[j], g[j], cut)
          /\ Runs(g[m], ag)
    BY DEF Tracked
<1> HIDE DEF A, m
<1>3. 0 \in 0..m /\ 1 \in 0..m /\ 1 \in 1..m /\ 1 - 1 = 0
    BY <1>1
<1>4. g[0] \in Att(l) /\ g[1] \in Att(l) /\ Goes(l, g[0], Head(q), g[1], cut)
    BY <1>1, <1>2, <1>3
<1> DEFINE h == [j \in 0 .. m - 1 |-> g[j + 1]]
<1>6. h \in [0 .. m - 1 -> Att(l)]
    <2>1. \A j \in 0 .. m - 1 : j + 1 \in 0..m
        BY <1>1
    <2> QED BY <1>2, <2>1
<1>7. h[0] = g[1] /\ h[m - 1] = g[m] /\ \A j \in 0..m - 1 : h[j] = g[j + 1]
    BY <1>1
<1> HIDE DEF h
<1>9. ASSUME NEW j \in 1 .. m - 1
      PROVE  Goes(l, h[j - 1], A[j], h[j], cut)
    <2>1. j \in 0..m - 1 /\ j - 1 \in 0..m - 1 /\ j + 1 \in 1..m /\ (j - 1) + 1 = j /\ (j + 1) - 1 = j
        BY <1>1
    <2>2. h[j - 1] = g[(j + 1) - 1] /\ h[j] = g[j + 1] /\ A[j] = q[j + 1]
        BY <1>1, <1>7, <2>1
    <2>3. Goes(l, g[(j + 1) - 1], q[j + 1], g[j + 1], cut)
        BY <1>2, <2>1
    <2> QED BY <2>2, <2>3
<1>10. ASSUME NEW b, b.id # 0 => b = g[1]
       PROVE  Tracked(A, cut, b, ag, l)
    BY <1>1, <1>2, <1>6, <1>7, <1>9, <1>10 DEF Tracked
<1> QED BY <1>2, <1>4, <1>10 DEF A

(* A log that agrees where frames name it. *)
LEMMA TrackedLog ==
    ASSUME NEW S, NEW q \in Seq(S), NEW cut, NEW a, NEW ag, NEW l, Tracked(q, cut, a, ag, l),
           NEW k, Len(l) \in Nat, Len(k) \in Nat, Len(l) <= Len(k),
           \A i \in DOMAIN q : Live(q[i], cut) /\ q[i].frame.type = "end" /\ q[i].frame.seq # 0 =>
               k[q[i].frame.seq] = l[q[i].frame.seq]
    PROVE  Tracked(q, cut, a, ag, k)
<1>1. PICK g \in [0 .. Len(q) -> Att(l)] :
          /\ a.id # 0 => g[0] = a
          /\ \A j \in 1 .. Len(q) : Goes(l, g[j - 1], q[j], g[j], cut)
          /\ Runs(g[Len(q)], ag)
    BY DEF Tracked
<1>2. DOMAIN q = 1..Len(q)
    OBVIOUS
<1>3. ASSUME NEW j \in 1 .. Len(q)
      PROVE  Goes(k, g[j - 1], q[j], g[j], cut)
    <2>1. Goes(l, g[j - 1], q[j], g[j], cut)
        BY <1>1
    <2>2. Live(q[j], cut) /\ q[j].frame.type = "end" /\ q[j].frame.seq # 0 =>
              k[q[j].frame.seq] = l[q[j].frame.seq]
        BY <1>2
    <2> QED BY <2>1, <2>2 DEF Goes, SettledBy
<1>4. g \in [0 .. Len(q) -> Att(k)]
    <2>1. Att(l) \subseteq Att(k)
        BY DEF Att
    <2> QED BY <1>1, <2>1
<1> QED BY <1>1, <1>3, <1>4 DEF Tracked

(* The agent does the same. *)
LEMMA TrackedAlike ==
    ASSUME NEW q, NEW cut, NEW a, NEW ag, NEW l, Tracked(q, cut, a, ag, l),
           NEW ag2, \A x : Runs(x, ag) => Runs(x, ag2)
    PROVE  Tracked(q, cut, a, ag2, l)
  BY DEF Tracked

(* A queue without frames behind the baseline. *)
LEMMA TrackedNone ==
    ASSUME NEW S, NEW q \in Seq(S), NEW cut, NEW a, NEW ag, NEW l,
           \A i \in DOMAIN q : ~Live(q[i], cut),
           a.id # 0 => a \in Att(l) /\ Runs(a, ag),
           ag.attempt \in Nat, ag.step \in Nat, ag.index \in Nat, Len(l) \in Nat
    PROVE  Tracked(q, cut, a, ag, l)
<1>1. PICK x \in Att(l) : Runs(x, ag) /\ (a.id # 0 => a = x)
    <2>1. CASE a.id # 0
        BY <2>1
    <2>2. CASE a.id = 0 /\ ag.attempt = 0
        <3>1. NoAttempt \in Att(l)
            BY DEF NoAttempt, Att
        <3> QED BY <2>2, <3>1 DEF Runs
    <2>3. CASE a.id = 0 /\ ag.attempt # 0
        <3> DEFINE y == [id |-> ag.attempt, step |-> ag.step, after |-> 0, next |-> ag.index]
        <3>1. y \in Att(l) /\ Runs(y, ag)
            BY <2>3 DEF Att, Runs
        <3> QED BY <2>3, <3>1
    <2> QED BY <2>1, <2>2, <2>3
<1> DEFINE g == [j \in 0 .. Len(q) |-> x]
<1>2. /\ Len(q) \in Nat /\ DOMAIN q = 1..Len(q)
      /\ g \in [0 .. Len(q) -> Att(l)] /\ \A j \in 0..Len(q) : g[j] = x
    OBVIOUS
<1> HIDE DEF g
<1>3. ASSUME NEW j \in 1..Len(q) PROVE Goes(l, g[j - 1], q[j], g[j], cut)
    <2>1. j \in 0..Len(q) /\ j - 1 \in 0..Len(q) /\ j \in DOMAIN q
        BY <1>2
    <2>2. g[j - 1] = x /\ g[j] = x /\ ~Live(q[j], cut)
        BY <1>2, <2>1
    <2> QED BY <2>2 DEF Goes
<1>4. 0 \in 0..Len(q) /\ Len(q) \in 0..Len(q)
    BY <1>2
<1>5. g[0] = x /\ g[Len(q)] = x
    BY <1>2, <1>4
<1> QED BY <1>1, <1>2, <1>3, <1>5 DEF Tracked

\* Some step has a beginning, no end, and the agent is not in it: Unclosed, of a log l.
Loose(l, ag) ==
    \E n \in DOMAIN l :
        /\ l[n].type = "step" /\ ag.step # l[n].step
        /\ \A m \in DOMAIN l : l[m] # Event("end", l[n].step)

\* The step of every message up to m has ended by m, unless some step is left open.
Rested(l, ag, m) ==
    \A n \in 1 .. m : l[n].type = "message" =>
        Loose(l, ag) \/ \E e \in 1 .. m : l[e] = Event("end", l[n].step)

\* A retained attempt has its message in the window, and its step no end there.
Kept(l, c) ==
    c.retained.id # 0 =>
        /\ \E n \in 1 .. c.cursor : l[n] = Event("message", c.retained.step)
        /\ \A n \in 1 .. c.cursor : l[n] # Event("end", c.retained.step)

\* What the client knows of its attempts.
Joined(l, ag, c) ==
    /\ Owns(l, c) /\ Held(l, c) /\ Kept(l, c)
    /\ c.restart => Loose(l, ag)

\* A frame f behind j - 1 items of the queue, of a client with the cursor k: an
\* attempt starts behind all events of its log and before all later ones, and its
\* end comes behind its settlement.
PlacedAt(f, q, j, k) ==
    /\ f.type = "start" =>
           /\ k <= f.after
           /\ \A i \in 1 .. j - 1 : q[i].type # "frame" => Until(q[i]) <= f.after
           /\ \A m \in k + 1 .. f.after : \E i \in 1 .. j - 1 : Covers(q[i], m)
    /\ f.type = "end" /\ f.seq # 0 => f.seq <= k \/ \E i \in 1 .. j - 1 : Covers(q[i], f.seq)
Placed(q, cut, k) == \A j \in DOMAIN q : Live(q[j], cut) => PlacedAt(q[j].frame, q, j, k)

LEMMA PlacedNext ==
    ASSUME NEW S, NEW q \in Seq(S), NEW cut, NEW k, Placed(q, cut, k), NEW e \in S,
           Live(e, cut) => PlacedAt(e.frame, q, Len(q) + 1, k)
    PROVE  Placed(Append(q, e), cut, k)
<1> DEFINE A == Append(q, e)
           m == Len(q)
<1>1. /\ m \in Nat /\ DOMAIN q = 1..m /\ DOMAIN A = 1..(m + 1)
      /\ A[m + 1] = e /\ \A i \in 1..m : A[i] = q[i]
    BY AppendIs
<1> HIDE DEF A
<1>2. ASSUME NEW j \in DOMAIN A, Live(A[j], cut) PROVE PlacedAt(A[j].frame, A, j, k)
    <2> HIDE DEF m
    <2>1. \A i \in 1 .. j - 1 : A[i] = q[i]
        BY <1>1
    <2>2. PlacedAt(A[j].frame, q, j, k)
        <3>1. CASE j = m + 1
            BY <1>1, <1>2, <3>1 DEF m
        <3>2. CASE j # m + 1
            <4>1. j \in DOMAIN q /\ A[j] = q[j]
                BY <1>1, <3>2
            <4> QED BY <1>2, <4>1 DEF Placed
        <3> QED BY <3>1, <3>2
    <2> QED BY <2>1, <2>2 DEF PlacedAt
<1>3. Placed(A, cut, k)
    BY <1>2 DEF Placed
<1> QED BY <1>3 DEF A

(* Without the head, for a client that has gone on to the end of what it stands for. *)
LEMMA PlacedTail ==
    ASSUME NEW S, NEW q \in Seq(S), q # <<>>, NEW cut, NEW k \in Nat, Placed(q, cut, k),
           NEW k2 \in Nat, k <= k2,
           k2 = k \/ (Head(q).type # "frame" /\ k2 = Until(Head(q))),
           \A m \in Nat : m > k2 => ~Covers(Head(q), m),
           \A j \in DOMAIN q : Live(q[j], cut) =>
               /\ q[j].frame.type = "start" => q[j].frame.after \in Nat
               /\ q[j].frame.type = "end" => q[j].frame.seq \in Nat
    PROVE  Placed(Tail(q), cut, k2)
<1> DEFINE A == Tail(q)
           m == Len(q)
<1>1. /\ m \in Nat /\ m >= 1 /\ DOMAIN q = 1..m /\ DOMAIN A = 1..(m - 1) /\ Head(q) = q[1]
      /\ \A i \in 1..m - 1 : A[i] = q[i + 1]
    BY TailIs
<1> HIDE DEF A, m
<1>2. ASSUME NEW j \in DOMAIN A, Live(A[j], cut) PROVE PlacedAt(A[j].frame, A, j, k2)
    <2> DEFINE f == A[j].frame
    <2>1. /\ j \in 1..m - 1 /\ j + 1 \in DOMAIN q /\ A[j] = q[j + 1] /\ (j + 1) - 1 = j
          /\ 1 \in 1..j /\ \A i \in 1..j : i = 1 \/ (i - 1 \in 1..j - 1 /\ A[i - 1] = q[i])
          /\ \A i \in 1..j - 1 : i + 1 \in 1..j /\ A[i] = q[i + 1]
        <3>1. j \in 1..m - 1 /\ j + 1 \in DOMAIN q /\ (j + 1) - 1 = j /\ 1 \in 1..j
            BY <1>1
        <3>2. ASSUME NEW i \in 1..j, i # 1 PROVE i - 1 \in 1..j - 1 /\ A[i - 1] = q[i]
            <4>1. i - 1 \in 1..m - 1 /\ i - 1 \in 1..j - 1 /\ (i - 1) + 1 = i
                BY <1>1, <3>1, <3>2
            <4> QED BY <1>1, <4>1
        <3>3. \A i \in 1..j - 1 : i + 1 \in 1..j /\ i \in 1..m - 1
            BY <1>1, <3>1
        <3> QED BY <1>1, <3>1, <3>2, <3>3
    <2>2. PlacedAt(f, q, j + 1, k)
        BY <1>2, <2>1 DEF Placed
    <2>3. /\ f.type = "start" => f.after \in Nat
          /\ f.type = "end" => f.seq \in Nat
        BY <1>2, <2>1
    <2> HIDE DEF f
    <2>4. ASSUME f.type = "start"
          PROVE  /\ k2 <= f.after
                 /\ \A i \in 1 .. j - 1 : A[i].type # "frame" => Until(A[i]) <= f.after
                 /\ \A n \in k2 + 1 .. f.after : \E i \in 1 .. j - 1 : Covers(A[i], n)
        <3>1. /\ k <= f.after
              /\ \A i \in 1 .. j : q[i].type # "frame" => Until(q[i]) <= f.after
              /\ \A n \in k + 1 .. f.after : \E i \in 1 .. j : Covers(q[i], n)
            BY <2>1, <2>2, <2>4 DEF PlacedAt
        <3>2. k2 <= f.after
            BY <1>1, <2>1, <3>1
        <3>3. \A i \in 1 .. j - 1 : A[i].type # "frame" => Until(A[i]) <= f.after
            BY <2>1, <3>1, ZenonT(60)
        <3>4. ASSUME NEW n \in k2 + 1 .. f.after PROVE \E i \in 1 .. j - 1 : Covers(A[i], n)
            <4>1. n \in k + 1 .. f.after /\ n \in Nat /\ n > k2
                BY <2>3, <2>4
            <4>2. PICK i \in 1..j : Covers(q[i], n)
                BY <3>1, <4>1
            <4>3. i # 1
                BY <1>1, <4>1, <4>2
            <4> QED BY <2>1, <4>2, <4>3
        <3> QED BY <3>2, <3>3, <3>4
    <2>5. ASSUME f.type = "end", f.seq # 0
          PROVE  f.seq <= k2 \/ \E i \in 1 .. j - 1 : Covers(A[i], f.seq)
        <3>1. f.seq <= k \/ \E i \in 1 .. j : Covers(q[i], f.seq)
            BY <2>1, <2>2, <2>5 DEF PlacedAt
        <3>2. CASE f.seq <= k
            BY <2>3, <2>5, <3>2
        <3>3. ASSUME NEW i \in 1..j, Covers(q[i], f.seq), ~(f.seq <= k2)
              PROVE  \E h \in 1 .. j - 1 : Covers(A[h], f.seq)
            <4>1. f.seq \in Nat /\ f.seq > k2
                BY <2>3, <2>5, <3>3
            <4>2. i # 1
                BY <1>1, <3>3, <4>1
            <4> QED BY <2>1, <3>3, <4>2
        <3> QED BY <3>1, <3>2, <3>3
    <2> QED BY <2>4, <2>5 DEF PlacedAt, f
<1>3. Placed(A, cut, k2)
    BY <1>2 DEF Placed
<1> QED BY <1>3 DEF A

(* A longer log in which no open step was lost. *)
LEMMA JoinedLonger ==
    ASSUME NEW l, NEW ag, NEW c, Joined(l, ag, c), c.cursor \in Nat, c.pending \subseteq 1..c.cursor,
           NEW k, NEW ag2, \A n \in 1..c.cursor : k[n] = l[n], Loose(l, ag) => Loose(k, ag2)
    PROVE  Joined(k, ag2, c)
<1>1. Owns(k, c)
    <2>1. \A n \in c.pending : k[n] = l[n]
        OBVIOUS
    <2> QED BY <2>1 DEF Joined, Owns, SettledBy
<1>2. Held(k, c)
    BY DEF Joined, Held, SettledBy
<1>3. Kept(k, c)
    BY DEF Joined, Kept
<1> QED BY <1>1, <1>2, <1>3 DEF Joined

-----------------------------------------------------------------------------
(* What the log tells of steps. *)

StepsOf(l) == Cardinality({n \in DOMAIN l : l[n].type = "step"})
Begun(l, s) == \E n \in DOMAIN l : l[n] = Event("step", s)

\* A step has its beginning in the log before it has a settlement, and its end
\* behind all of them; the agent's step has no end yet, and no message as long
\* as the agent may ask.
Told(l, ag) ==
    /\ ag.attempt # 0 => ag.ask
    /\ ag.ask => ag.step # 0 /\ \A n \in DOMAIN l : l[n] # Event("message", ag.step)
    /\ ag.step # 0 => Begun(l, ag.step) /\ \A n \in DOMAIN l : l[n] # Event("end", ag.step)
    /\ \A n \in DOMAIN l : /\ l[n].step <= StepsOf(l)
                           /\ l[n].type = "step" => l[n].step # 0
                           /\ l[n].type \in Settlements => Begun(l, l[n].step)
    /\ \A e, n \in DOMAIN l : l[n].type \in Settlements /\ l[e] = Event("end", l[n].step) => n < e

\* The log k is l with events e behind it, if any.
Extends(l, k, e) ==
    /\ l \in Seq(Events) /\ k \in Seq(Events)
    /\ \A n \in DOMAIN l : n \in DOMAIN k /\ k[n] = l[n]
    /\ \A n \in DOMAIN k : n \in DOMAIN l \/ (n > Len(l) /\ k[n] = e)

LEMMA ExtendedOne ==
    ASSUME NEW l \in Seq(Events), NEW e \in Events
    PROVE  /\ Extends(l, Append(l, e), e) /\ Len(Append(l, e)) \in DOMAIN Append(l, e)
           /\ Len(Append(l, e)) > Len(l) /\ Append(l, e)[Len(Append(l, e))] = e
<1>1. /\ Append(l, e) \in Seq(Events) /\ Len(l) \in Nat /\ Len(Append(l, e)) = Len(l) + 1
      /\ DOMAIN l = 1..Len(l) /\ DOMAIN Append(l, e) = 1..(Len(l) + 1)
      /\ \A i \in 1..Len(l) : Append(l, e)[i] = l[i]
      /\ Append(l, e)[Len(l) + 1] = e
    BY AppendIs
<1> DEFINE A == Append(l, e)
<1> HIDE DEF A
<1>2. \A n \in 1..Len(l) + 1 : n \in 1..Len(l) \/ (n > Len(l) /\ n = Len(l) + 1)
    BY <1>1
<1>3. Extends(l, A, e)
    BY <1>1, <1>2 DEF Extends, A
<1> QED BY <1>1, <1>3 DEF A

LEMMA ExtendedNone ==
    ASSUME NEW l \in Seq(Events), NEW e
    PROVE  Extends(l, l, e)
  BY DEF Extends

(* How many steps there are. *)
LEMMA StepsFinite ==
    ASSUME NEW l \in Seq(Events)
    PROVE  IsFiniteSet({n \in DOMAIN l : l[n].type = "step"}) /\ StepsOf(l) \in Nat
<1>1. Len(l) \in Nat /\ DOMAIN l = 1..Len(l) /\ IsFiniteSet(1..Len(l))
    BY FS_Interval
<1>2. IsFiniteSet({n \in DOMAIN l : l[n].type = "step"})
    BY <1>1, FS_Subset
<1> QED BY <1>2, FS_CardinalityType DEF StepsOf

LEMMA StepsSame ==
    ASSUME NEW l, NEW k, NEW e, Extends(l, k, e), e.type # "step"
    PROVE  StepsOf(k) = StepsOf(l)
<1>1. {n \in DOMAIN k : k[n].type = "step"} = {n \in DOMAIN l : l[n].type = "step"}
    BY DEF Extends
<1> QED BY <1>1 DEF StepsOf

LEMMA StepsMore ==
    ASSUME NEW l \in Seq(Events), NEW e \in Events, e.type = "step"
    PROVE  StepsOf(Append(l, e)) = StepsOf(l) + 1
<1> DEFINE k == Append(l, e)
           T == {n \in DOMAIN l : l[n].type = "step"}
<1>1. Extends(l, k, e) /\ Len(k) \in DOMAIN k /\ Len(k) > Len(l) /\ k[Len(k)] = e
    BY ExtendedOne
<1>2. \A n \in DOMAIN k : n \in DOMAIN l \/ n = Len(k)
    BY AppendIs
<1>3. Len(k) \notin T
    BY <1>1
<1> HIDE DEF k
<1>4. {n \in DOMAIN k : k[n].type = "step"} = T \cup {Len(k)}
    BY <1>1, <1>2 DEF Extends
<1>5. Cardinality(T \cup {Len(k)}) = Cardinality(T) + 1
    <2>1. IsFiniteSet(T)
        BY StepsFinite
    <2> HIDE DEF T
    <2> QED BY <1>3, <2>1, FS_AddElement
<1> QED BY <1>4, <1>5 DEF StepsOf, k

LEMMA EventsAre ==
    ASSUME NEW l \in Seq(Events)
    PROVE  /\ Len(l) \in Nat /\ DOMAIN l = 1..Len(l)
           /\ \A n \in DOMAIN l : l[n].step \in Nat /\ l[n] = Event(l[n].type, l[n].step)
           /\ \A s, t, x, y : Event(s, x) = Event(t, y) <=> s = t /\ x = y
           /\ \A s, x : Event(s, x).type = s /\ Event(s, x).step = x
<1>1. \A n \in DOMAIN l : l[n] \in Events
    OBVIOUS
<1>2. \A v \in Events : v.step \in Nat /\ v = Event(v.type, v.step)
    BY DEF Events, Event
<1>3. /\ \A s, x : Event(s, x).type = s /\ Event(s, x).step = x
    BY DEF Event
<1>4. \A s, t, x, y : Event(s, x) = Event(t, y) <=> s = t /\ x = y
    BY <1>3
<1> QED BY <1>1, <1>2, <1>3, <1>4

(* What was begun stays begun. *)
LEMMA BegunStays ==
    ASSUME NEW l, NEW k, NEW e, Extends(l, k, e), NEW s, Begun(l, s)
    PROVE  Begun(k, s)
  BY DEF Extends, Begun

(* An open step stays open, if the agent does not enter it and it is not ended. *)
LEMMA LooseStays ==
    ASSUME NEW l, NEW k, NEW e, Extends(l, k, e), NEW ag, NEW ag2, Loose(l, ag),
           \A n \in DOMAIN l : l[n].type = "step" /\ ag.step # l[n].step =>
               ag2.step # l[n].step /\ e # Event("end", l[n].step)
    PROVE  Loose(k, ag2)
<1>1. PICK n \in DOMAIN l :
          /\ l[n].type = "step" /\ ag.step # l[n].step
          /\ \A m \in DOMAIN l : l[m] # Event("end", l[n].step)
    BY DEF Loose
<1>2. n \in DOMAIN k /\ k[n] = l[n]
    BY DEF Extends
<1>3. ag2.step # k[n].step /\ e # Event("end", k[n].step)
    BY <1>1, <1>2
<1>4. \A m \in DOMAIN k : k[m] # Event("end", k[n].step)
    BY <1>1, <1>2, <1>3 DEF Extends
<1> QED BY <1>1, <1>2, <1>3, <1>4 DEF Loose

(* Nothing happens to the agent's step but that it may be left. *)
LEMMA ToldOther ==
    ASSUME NEW l, NEW k, Extends(l, k, Event("other", 0)), NEW ag, NEW ag2, Told(l, ag),
           ag2.attempt # 0 => ag2.ask, ag2.ask => ag2.step # 0 /\ ag.ask,
           ag2.step # 0 => ag2.step = ag.step
    PROVE  Told(k, ag2) /\ (Loose(l, ag) => Loose(k, ag2))
<1> DEFINE e == Event("other", 0)
<1>1. /\ l \in Seq(Events) /\ k \in Seq(Events)
      /\ \A n \in DOMAIN l : n \in DOMAIN k /\ k[n] = l[n]
      /\ \A n \in DOMAIN k : n \in DOMAIN l \/ (n > Len(l) /\ k[n] = e)
    BY DEF Extends
<1>2. /\ e.type = "other" /\ e.step = 0 /\ e.type \notin Settlements
      /\ \A s : e # Event("end", s) /\ e # Event("message", s)
    BY <1>1, EventsAre DEF Settlements
<1>3. StepsOf(k) = StepsOf(l) /\ StepsOf(l) \in Nat
    BY <1>1, <1>2, StepsSame, StepsFinite
<1>4. \A s : Begun(l, s) => Begun(k, s)
    BY BegunStays
<1> HIDE DEF e
<1>5. ag2.ask => ag2.step # 0 /\ \A n \in DOMAIN k : k[n] # Event("message", ag2.step)
    BY <1>1, <1>2 DEF Told
<1>6. ag2.step # 0 => Begun(k, ag2.step) /\ \A n \in DOMAIN k : k[n] # Event("end", ag2.step)
    BY <1>1, <1>2, <1>4 DEF Told
<1>7. \A n \in DOMAIN k : /\ k[n].step <= StepsOf(k)
                          /\ k[n].type = "step" => k[n].step # 0
                          /\ k[n].type \in Settlements => Begun(k, k[n].step)
    BY <1>1, <1>2, <1>3, <1>4 DEF Told
<1>8. \A v, n \in DOMAIN k : k[n].type \in Settlements /\ k[v] = Event("end", k[n].step) => n < v
    BY <1>1, <1>2 DEF Told
<1>9. Loose(l, ag) => Loose(k, ag2)
    BY <1>2, LooseStays DEF Told, e
<1> QED BY <1>5, <1>6, <1>7, <1>8, <1>9 DEF Told

(* A step begins. *)
LEMMA ToldBegun ==
    ASSUME NEW l \in Seq(Events), NEW ag, NEW ag2, Told(l, ag), ag.step = 0,
           NEW s, s = StepsOf(l) + 1, Event("step", s) \in Events, ag2.step = s, ag2.ask
    PROVE  LET k == Append(l, Event("step", s))
           IN  Told(k, ag2) /\ (Loose(l, ag) => Loose(k, ag2))
<1> DEFINE e == Event("step", s)
           k == Append(l, e)
<1>1. /\ k \in Seq(Events) /\ Extends(l, k, e)
      /\ \A n \in DOMAIN l : n \in DOMAIN k /\ k[n] = l[n]
      /\ \A n \in DOMAIN k : n \in DOMAIN l \/ (n > Len(l) /\ k[n] = e)
      /\ Len(k) \in DOMAIN k /\ k[Len(k)] = e
    <2>1. Extends(l, k, e) /\ Len(k) \in DOMAIN k /\ k[Len(k)] = e
        BY ExtendedOne
    <2> HIDE DEF k, e
    <2> QED BY <2>1 DEF Extends
<1>2. /\ e.type = "step" /\ e.step = s /\ e.type \notin Settlements
      /\ \A x : e # Event("end", x) /\ e # Event("message", x)
    BY EventsAre DEF Settlements
<1>3. StepsOf(k) = s /\ StepsOf(l) \in Nat /\ s \in Nat /\ s # 0
    <2>1. StepsOf(l) \in Nat
        BY StepsFinite
    <2>2. StepsOf(k) = StepsOf(l) + 1
        BY <1>2, StepsMore
    <2> QED BY <2>1, <2>2
<1>4. \A x : Begun(l, x) => Begun(k, x)
    BY <1>1, BegunStays
<1>5. \A n \in DOMAIN l : l[n].step \in Nat /\ l[n].step <= StepsOf(l)
    BY EventsAre DEF Told
<1>6. \A n \in DOMAIN l : l[n].step # s /\ l[n].step <= s
    BY <1>3, <1>5
<1>7. \A n \in DOMAIN l : l[n] # Event("message", s) /\ l[n] # Event("end", s)
    BY <1>6, EventsAre
<1> HIDE DEF e, k
<1>8. Begun(k, s)
    BY <1>1 DEF Begun, e
<1>9. \A n \in DOMAIN k : k[n] # Event("message", s) /\ k[n] # Event("end", s)
    BY <1>1, <1>2, <1>7
<1>10. \A n \in DOMAIN k : /\ k[n].step <= StepsOf(k)
                           /\ k[n].type = "step" => k[n].step # 0
                           /\ k[n].type \in Settlements => Begun(k, k[n].step)
    BY <1>1, <1>2, <1>3, <1>4, <1>6 DEF Told
<1>11. \A v, n \in DOMAIN k : k[n].type \in Settlements /\ k[v] = Event("end", k[n].step) => n < v
    BY <1>1, <1>2 DEF Told
<1>12. Loose(l, ag) => Loose(k, ag2)
    BY <1>1, <1>2, <1>6, LooseStays
<1>13. Told(k, ag2)
    BY <1>3, <1>8, <1>9, <1>10, <1>11 DEF Told
<1> QED BY <1>12, <1>13 DEF k, e

(* An attempt is settled. *)
LEMMA ToldSettled ==
    ASSUME NEW l \in Seq(Events), NEW ag, NEW ag2, Told(l, ag), ag.attempt # 0,
           NEW type \in Settlements, Event(type, ag.step) \in Events,
           ag2.attempt = 0, ag2.ask => type = "attempt", ag2.step = ag.step
    PROVE  LET k == Append(l, Event(type, ag.step))
           IN  Told(k, ag2) /\ (Loose(l, ag) => Loose(k, ag2))
<1> DEFINE s == ag.step
           e == Event(type, s)
           k == Append(l, e)
<1>1. /\ k \in Seq(Events) /\ Extends(l, k, e)
      /\ \A n \in DOMAIN l : n \in DOMAIN k /\ k[n] = l[n]
      /\ \A n \in DOMAIN k : n \in DOMAIN l \/ (n > Len(l) /\ k[n] = e)
    <2>1. Extends(l, k, e)
        BY ExtendedOne
    <2> HIDE DEF k, e
    <2> QED BY <2>1 DEF Extends
<1>2. /\ e.type = type /\ e.step = s /\ type # "step"
      /\ \A x : e # Event("end", x)
      /\ ag2.ask => \A x : e # Event("message", x)
    BY EventsAre DEF Settlements
<1>3. StepsOf(k) = StepsOf(l)
    BY <1>1, <1>2, StepsSame
<1>4. \A x : Begun(l, x) => Begun(k, x)
    BY <1>1, BegunStays
<1>5. /\ s # 0 /\ Begun(l, s) /\ \A n \in DOMAIN l : l[n] # Event("end", s)
      /\ \A n \in DOMAIN l : l[n] # Event("message", s)
    BY DEF Told
<1>6. s <= StepsOf(l)
    BY <1>5, EventsAre DEF Told, Begun
<1> HIDE DEF e, k, s
<1>7. ag2.step = s
    BY DEF s
<1>8. ag2.ask => \A n \in DOMAIN k : k[n] # Event("message", s)
    BY <1>1, <1>2, <1>5
<1>9. Begun(k, s) /\ \A n \in DOMAIN k : k[n] # Event("end", s)
    BY <1>1, <1>2, <1>4, <1>5
<1>10. \A n \in DOMAIN k : /\ k[n].step <= StepsOf(k)
                           /\ k[n].type = "step" => k[n].step # 0
                           /\ k[n].type \in Settlements => Begun(k, k[n].step)
    BY <1>1, <1>2, <1>3, <1>4, <1>5, <1>6 DEF Told
<1>11. \A v, n \in DOMAIN k : k[n].type \in Settlements /\ k[v] = Event("end", k[n].step) => n < v
    BY <1>1, <1>2, <1>5 DEF Told
<1>12. Loose(l, ag) => Loose(k, ag2)
    BY <1>1, <1>2, <1>7, LooseStays DEF s
<1>13. Told(k, ag2)
    BY <1>5, <1>7, <1>8, <1>9, <1>10, <1>11 DEF Told
<1> QED BY <1>12, <1>13 DEF k, e, s

(* A step ends. *)
LEMMA ToldEnded ==
    ASSUME NEW l \in Seq(Events), NEW ag, NEW ag2, Told(l, ag), ag.step # 0,
           Event("end", ag.step) \in Events, ag2.attempt = 0, ~ag2.ask, ag2.step = 0
    PROVE  LET k == Append(l, Event("end", ag.step))
           IN  Told(k, ag2) /\ (Loose(l, ag) => Loose(k, ag2))
<1> DEFINE s == ag.step
           e == Event("end", s)
           k == Append(l, e)
<1>1. /\ k \in Seq(Events) /\ Extends(l, k, e)
      /\ \A n \in DOMAIN l : n \in DOMAIN k /\ k[n] = l[n]
      /\ \A n \in DOMAIN k : n \in DOMAIN l \/ (n > Len(l) /\ k[n] = e)
    <2>1. Extends(l, k, e)
        BY ExtendedOne
    <2> HIDE DEF k, e
    <2> QED BY <2>1 DEF Extends
<1>2. /\ e.type = "end" /\ e.step = s /\ e.type \notin Settlements
      /\ \A x : e = Event("end", x) => x = s
    BY EventsAre DEF Settlements
<1>3. StepsOf(k) = StepsOf(l)
    BY <1>1, <1>2, StepsSame
<1>4. \A x : Begun(l, x) => Begun(k, x)
    BY <1>1, BegunStays
<1>5. Begun(l, s)
    BY DEF Told
<1>6. s <= StepsOf(l)
    BY <1>5, EventsAre DEF Told, Begun
<1>7. \A n \in DOMAIN l : n \in Nat /\ n <= Len(l)
    OBVIOUS
<1>8. \A n \in DOMAIN k : n \in Nat
    BY <1>1, EventsAre
<1> HIDE DEF e, k
<1>10. \A n \in DOMAIN k : /\ k[n].step <= StepsOf(k)
                           /\ k[n].type = "step" => k[n].step # 0
                           /\ k[n].type \in Settlements => Begun(k, k[n].step)
    <2> HIDE DEF s
    <2> QED BY <1>1, <1>2, <1>3, <1>4, <1>6 DEF Told
<1>11. ASSUME NEW v \in DOMAIN k, NEW n \in DOMAIN k,
              k[n].type \in Settlements, k[v] = Event("end", k[n].step)
       PROVE  n < v
    <2>1. n \in DOMAIN l /\ k[n] = l[n]
        BY <1>1, <1>2, <1>11
    <2>2. CASE v \in DOMAIN l
        BY <1>1, <1>11, <2>1, <2>2 DEF Told
    <2>3. CASE v > Len(l)
        <3>1. n <= Len(l) /\ n \in Nat /\ v \in Nat /\ Len(l) \in Nat
            BY <1>7, <1>8, <2>1
        <3> QED BY <2>3, <3>1
    <2> QED BY <1>1, <2>2, <2>3
<1>12. Loose(l, ag) => Loose(k, ag2)
    <2>1. \A n \in DOMAIN l : l[n].type = "step" /\ ag.step # l[n].step =>
              ag2.step # l[n].step /\ e # Event("end", l[n].step)
        BY <1>2 DEF Told
    <2> QED BY <1>1, <2>1, LooseStays
<1>13. Told(k, ag2)
    BY <1>10, <1>11 DEF Told
<1> QED BY <1>12, <1>13 DEF k, e

-----------------------------------------------------------------------------
(* The second invariant. *)

StreamTracks == stream.active.id # 0 => Runs(stream.active, agent)

\* The frames that wait in the queue q for a client c lead to where the agent ag is.
Queued(q, cut, c, ag, l) ==
    /\ Tracked(q, cut, c.active, ag, l)
    /\ Placed(q, cut, c.cursor)
    /\ \A j \in DOMAIN q :
           Live(q[j], cut) /\ q[j].frame.type = "start" => Rested(l, ag, q[j].frame.after)

OwnInv ==
    /\ Told(log, agent)
    /\ StreamTracks
    /\ overtaken \/ Joined(log, agent, client)
    /\ conn.state = "open" /\ ~overtaken => Queued(queue, conn.ordinalCut, client, agent, log)

(* An item more. *)
LEMMA QueuedNext ==
    ASSUME NEW S, NEW q \in Seq(S), NEW cut, NEW c, NEW ag, NEW l, Queued(q, cut, c, ag, l),
           NEW e \in S, NEW ag2, Loose(l, ag) => Loose(l, ag2),
           \A x \in Att(l) : Runs(x, ag) => \E y \in Att(l) : Goes(l, x, e, y, cut) /\ Runs(y, ag2),
           Live(e, cut) => /\ PlacedAt(e.frame, q, Len(q) + 1, c.cursor)
                           /\ e.frame.type = "start" => Rested(l, ag2, e.frame.after)
    PROVE  Queued(Append(q, e), cut, c, ag2, l)
<1> DEFINE A == Append(q, e)
<1>1. Tracked(A, cut, c.active, ag2, l)
    BY TrackedNext DEF Queued
<1>2. Placed(A, cut, c.cursor)
    BY PlacedNext DEF Queued
<1>3. /\ Len(q) \in Nat /\ DOMAIN q = 1..Len(q) /\ DOMAIN A = 1..(Len(q) + 1)
      /\ A[Len(q) + 1] = e /\ \A i \in 1..Len(q) : A[i] = q[i]
    BY AppendIs
<1> HIDE DEF A
<1>4. \A m : Rested(l, ag, m) => Rested(l, ag2, m)
    BY DEF Rested
<1>5. ASSUME NEW j \in DOMAIN A, Live(A[j], cut), A[j].frame.type = "start"
      PROVE  Rested(l, ag2, A[j].frame.after)
    <2>1. CASE j = Len(q) + 1
        BY <1>3, <1>5, <2>1
    <2>2. CASE j # Len(q) + 1
        <3>1. j \in DOMAIN q /\ A[j] = q[j]
            BY <1>3, <2>2
        <3> QED BY <1>4, <1>5, <3>1 DEF Queued
    <2> QED BY <2>1, <2>2
<1>6. Queued(A, cut, c, ag2, l)
    BY <1>1, <1>2, <1>5 DEF Queued
<1> QED BY <1>6 DEF A

LEMMA QueuedOther ==
    ASSUME NEW S, NEW q \in Seq(S), NEW cut, NEW c, NEW ag, NEW l, Queued(q, cut, c, ag, l),
           NEW e \in S, ~Live(e, cut)
    PROVE  Queued(Append(q, e), cut, c, ag, l)
<1>1. \A x \in Att(l) : Runs(x, ag) => \E y \in Att(l) : Goes(l, x, e, y, cut) /\ Runs(y, ag)
    BY DEF Goes
<1> QED BY <1>1, QueuedNext

(* An item in front of a queue without frames. *)
LEMMA QueuedFront ==
    ASSUME NEW S, NEW q \in Seq(S), NEW cut, NEW c, NEW ag, NEW l, Queued(q, cut, c, ag, l),
           NEW e \in S, ~Live(e, cut), \A i \in DOMAIN q : ~Live(q[i], cut)
    PROVE  Queued(<<e>> \o q, cut, c, ag, l)
<1> DEFINE A == <<e>> \o q
<1>1. Tracked(A, cut, c.active, ag, l)
    BY TrackedFront DEF Queued
<1>2. /\ Len(q) \in Nat /\ DOMAIN q = 1..Len(q) /\ DOMAIN A = 1..(Len(q) + 1)
      /\ A[1] = e /\ \A i \in 1..Len(q) : A[i + 1] = q[i]
    BY ConsIs
<1> HIDE DEF A
<1>3. ASSUME NEW j \in DOMAIN A PROVE ~Live(A[j], cut)
    <2>1. CASE j = 1
        BY <1>2, <2>1
    <2>2. CASE j # 1
        <3>1. j - 1 \in 1..Len(q) /\ (j - 1) + 1 = j
            BY <1>2, <2>2
        <3>2. A[j] = q[j - 1]
            BY <1>2, <3>1
        <3> QED BY <1>2, <3>1, <3>2
    <2> QED BY <2>1, <2>2
<1>4. Queued(A, cut, c, ag, l)
    BY <1>1, <1>3 DEF Queued, Placed
<1> QED BY <1>4 DEF A

\* What frames say of the log l.
Within(q, cut, l) ==
    \A j \in DOMAIN q : Live(q[j], cut) =>
        /\ q[j].frame.type = "start" => q[j].frame.after \in 0 .. Len(l)
        /\ q[j].frame.type = "end" => q[j].frame.seq \in 0 .. Len(l)

(* A longer log, and an agent that runs the same attempt. *)
LEMMA QueuedLonger ==
    ASSUME NEW S, NEW q \in Seq(S), NEW cut, NEW c, NEW ag, NEW l, Queued(q, cut, c, ag, l),
           NEW k, NEW e, Extends(l, k, e), NEW ag2, Loose(l, ag) => Loose(k, ag2),
           \A x : Runs(x, ag) => Runs(x, ag2), Within(q, cut, l)
    PROVE  Queued(q, cut, c, ag2, k)
<1>1. /\ Len(l) \in Nat /\ Len(k) \in Nat /\ DOMAIN l = 1..Len(l) /\ DOMAIN k = 1..Len(k)
      /\ \A n \in DOMAIN l : n \in DOMAIN k /\ k[n] = l[n]
    BY DEF Extends
<1>2. Len(l) <= Len(k)
    <2>1. CASE Len(l) = 0
        BY <1>1, <2>1
    <2>2. CASE Len(l) # 0
        <3>1. Len(l) \in DOMAIN l
            BY <1>1, <2>2
        <3>2. Len(l) \in DOMAIN k
            BY <1>1, <3>1
        <3> QED BY <1>1, <3>2
    <2> QED BY <2>1, <2>2
<1>3. \A n \in 0 .. Len(l) : n \in Nat /\ (n # 0 => n \in DOMAIN l) /\ \A i \in 1..n : i \in DOMAIN l
    BY <1>1
<1>4. Tracked(q, cut, c.active, ag2, k)
    <2>1. \A i \in DOMAIN q : Live(q[i], cut) /\ q[i].frame.type = "end" /\ q[i].frame.seq # 0 =>
              k[q[i].frame.seq] = l[q[i].frame.seq]
        BY <1>1, <1>3 DEF Within
    <2>2. Tracked(q, cut, c.active, ag, k)
        BY <1>1, <1>2, <2>1, TrackedLog DEF Queued
    <2> QED BY <2>2, TrackedAlike
<1>5. \A m \in 0 .. Len(l) : Rested(l, ag, m) => Rested(k, ag2, m)
    BY <1>1, <1>3 DEF Rested
<1> QED BY <1>4, <1>5 DEF Queued, Within

(* Without the head, for what the client makes of it. *)
LEMMA QueuedTail ==
    ASSUME NEW S, NEW q \in Seq(S), q # <<>>, NEW cut, NEW c, c.cursor \in Nat, NEW ag, NEW l,
           Queued(q, cut, c, ag, l), NEW d, d.cursor \in Nat, c.cursor <= d.cursor,
           Len(l) \in Nat, Within(q, cut, l),
           d.cursor = c.cursor \/ (Head(q).type # "frame" /\ d.cursor = Until(Head(q))),
           \A m \in Nat : m > d.cursor => ~Covers(Head(q), m),
           \A x, y \in Att(l) : (c.active.id # 0 => c.active = x) /\ Goes(l, x, Head(q), y, cut) =>
               (d.active.id # 0 => d.active = y)
    PROVE  Queued(Tail(q), cut, d, ag, l)
<1> DEFINE A == Tail(q)
<1>1. /\ Len(q) \in Nat /\ DOMAIN q = 1..Len(q) /\ DOMAIN A = 1..(Len(q) - 1)
      /\ \A i \in 1..(Len(q) - 1) : A[i] = q[i + 1]
    BY TailIs
<1>2. Tracked(A, cut, d.active, ag, l)
    <2>1. PICK x, y \in Att(l) :
              /\ c.active.id # 0 => c.active = x
              /\ Goes(l, x, Head(q), y, cut)
              /\ \A b : (b.id # 0 => b = y) => Tracked(A, cut, b, ag, l)
        BY TrackedTail DEF Queued
    <2> HIDE DEF A
    <2> QED BY <2>1
<1>3. Placed(A, cut, d.cursor)
    <2>1. \A j \in DOMAIN q : Live(q[j], cut) =>
              /\ q[j].frame.type = "start" => q[j].frame.after \in Nat
              /\ q[j].frame.type = "end" => q[j].frame.seq \in Nat
        BY DEF Within
    <2>2. Placed(q, cut, c.cursor)
        BY DEF Queued
    <2> QED BY <2>1, <2>2, PlacedTail
<1> HIDE DEF A
<1>4. \A j \in DOMAIN A : j + 1 \in DOMAIN q /\ A[j] = q[j + 1]
    BY <1>1
<1>5. Queued(A, cut, d, ag, l)
    BY <1>2, <1>3, <1>4 DEF Queued
<1> QED BY <1>5 DEF A

(* What each frame of the agent makes of the attempt that it runs. *)
LEMMA StartGoes ==
    ASSUME NEW l, NEW e, NEW cut, Live(e, cut), NEW f, e.frame = f, f.type = "start",
           f.id \in Nat, f.id # 0, f.step \in Nat, f.after \in 0 .. Len(l),
           NEW ag, ag.attempt = 0, NEW ag2, ag2.attempt = f.id, ag2.step = f.step, ag2.index = 0,
           NEW x \in Att(l), Runs(x, ag)
    PROVE  \E y \in Att(l) : Goes(l, x, e, y, cut) /\ Runs(y, ag2)
<1> DEFINE y == [id |-> f.id, step |-> f.step, after |-> f.after, next |-> 0]
<1>1. y \in Att(l) /\ Runs(y, ag2)
    BY DEF Att, Runs
<1>2. x.id = 0
    BY DEF Runs, NoAttempt
<1>3. Goes(l, x, e, y, cut)
    BY <1>2 DEF Goes
<1> QED BY <1>1, <1>3

LEMMA ChunkGoes ==
    ASSUME NEW l, NEW e, NEW cut, Live(e, cut), NEW f, e.frame = f, f.type = "chunk",
           NEW ag, ag.attempt # 0, f.id = ag.attempt, ag.index \in Nat, f.index = ag.index + 1,
           NEW ag2, ag2.attempt = ag.attempt, ag2.step = ag.step, ag2.index = f.index,
           NEW x \in Att(l), Runs(x, ag)
    PROVE  \E y \in Att(l) : Goes(l, x, e, y, cut) /\ Runs(y, ag2)
<1> DEFINE y == [x EXCEPT !.next = f.index]
<1>1. x.id = ag.attempt /\ x.step = ag.step /\ x.next = ag.index
    BY DEF Runs
<1>2. y \in Att(l) /\ y.id = x.id /\ y.step = x.step /\ y.next = f.index
    BY DEF Att
<1>3. Goes(l, x, e, y, cut)
    BY <1>1 DEF Goes
<1> HIDE DEF y
<1>4. Runs(y, ag2)
    BY <1>1, <1>2 DEF Runs
<1> QED BY <1>2, <1>3, <1>4

LEMMA EndGoes ==
    ASSUME NEW l, Len(l) \in Nat, NEW e, NEW cut, Live(e, cut), NEW f, e.frame = f, f.type = "end",
           NEW ag, ag.attempt # 0, f.id = ag.attempt, f.index = ag.index,
           NEW ag2, ag2.attempt = 0,
           NEW x \in Att(l), Runs(x, ag),
           IF f.seq = 0 THEN f.outcome = "abandoned"
           ELSE /\ f.outcome = Outcome(l[f.seq].type) /\ l[f.seq].type \in Settlements
                /\ l[f.seq].step = ag.step /\ x.after < f.seq
    PROVE  \E y \in Att(l) : Goes(l, x, e, y, cut) /\ Runs(y, ag2)
<1>1. x.id = ag.attempt /\ x.step = ag.step /\ x.next = ag.index
    BY DEF Runs
<1>2. NoAttempt \in Att(l) /\ Runs(NoAttempt, ag2)
    BY DEF Att, Runs, NoAttempt
<1>3. f.seq # 0 => SettledBy(l, f.seq, x)
    BY <1>1 DEF SettledBy
<1>4. Goes(l, x, e, NoAttempt, cut)
    BY <1>1, <1>3 DEF Goes
<1> QED BY <1>2, <1>4

(* The settlement of the attempt that the agent runs, and the end frame, as the last item. *)
LEMMA TrackedSettled ==
    ASSUME NEW S, NEW q \in Seq(S), NEW cut, NEW a, NEW ag, NEW l, Tracked(q, cut, a, ag, l),
           NEW k, Len(l) \in Nat, Len(k) \in Nat, Len(l) <= Len(k),
           \A i \in DOMAIN q : Live(q[i], cut) /\ q[i].frame.type = "end" /\ q[i].frame.seq # 0 =>
               k[q[i].frame.seq] = l[q[i].frame.seq],
           NEW e \in S, NEW ag2,
           \A x \in Att(l) : Runs(x, ag) => \E y \in Att(k) : Goes(k, x, e, y, cut) /\ Runs(y, ag2)
    PROVE  Tracked(Append(q, e), cut, a, ag2, k)
<1> DEFINE A == Append(q, e)
           m == Len(q)
<1>1. /\ m \in Nat /\ Len(A) = m + 1 /\ DOMAIN q = 1..m /\ DOMAIN A = 1..(m + 1)
      /\ A[m + 1] = e /\ \A i \in 1..m : A[i] = q[i]
    BY AppendIs
<1>2. PICK g \in [0 .. m -> Att(l)] :
          /\ a.id # 0 => g[0] = a
          /\ \A j \in 1 .. m : Goes(l, g[j - 1], q[j], g[j], cut)
          /\ Runs(g[m], ag)
    BY DEF Tracked
<1> HIDE DEF A, m
<1>3. m \in 0..m /\ 0 \in 0..m + 1 /\ m + 1 # 0 /\ Att(l) \subseteq Att(k)
    BY <1>1, SMTT(30) DEF Att
<1>4. PICK y \in Att(k) : Goes(k, g[m], e, y, cut) /\ Runs(y, ag2)
    BY <1>2, <1>3
<1> DEFINE h == [j \in 0 .. m + 1 |-> IF j = m + 1 THEN y ELSE g[j]]
<1>5. \A j \in 0 .. m + 1 : j = m + 1 \/ j \in 0..m
    BY <1>1
<1>6. h \in [0 .. m + 1 -> Att(k)]
    BY <1>2, <1>3, <1>5
<1>7. h[m + 1] = y /\ \A j \in 0..m : h[j] = g[j]
    BY <1>1
<1> HIDE DEF h
<1>8. h[0] = g[0]
    BY <1>1, <1>7
<1>9. ASSUME NEW j \in 1 .. m + 1
      PROVE  Goes(k, h[j - 1], A[j], h[j], cut)
    <2>1. CASE j = m + 1
        <3>1. j - 1 = m /\ h[m] = g[m] /\ h[j] = y /\ A[j] = e
            BY <1>1, <1>3, <1>7, <2>1
        <3> QED BY <1>4, <3>1
    <2>2. CASE j # m + 1
        <3>1. j \in 1..m /\ j \in 0..m /\ j - 1 \in 0..m
            BY <1>1, <2>2
        <3>2. h[j - 1] = g[j - 1] /\ h[j] = g[j] /\ A[j] = q[j]
            BY <1>1, <1>7, <3>1
        <3>3. Goes(l, g[j - 1], q[j], g[j], cut)
            BY <1>2, <3>1
        <3>4. Live(q[j], cut) /\ q[j].frame.type = "end" /\ q[j].frame.seq # 0 =>
                  k[q[j].frame.seq] = l[q[j].frame.seq]
            BY <1>1, <3>1
        <3>5. Goes(k, g[j - 1], q[j], g[j], cut)
            BY <3>3, <3>4 DEF Goes, SettledBy
        <3> QED BY <3>2, <3>5
    <2> QED BY <2>1, <2>2
<1>10. Tracked(A, cut, a, ag2, k)
    BY <1>1, <1>2, <1>4, <1>6, <1>7, <1>8, <1>9 DEF Tracked
<1> QED BY <1>10 DEF A

LEMMA QueuedSettled ==
    ASSUME NEW S, NEW q \in Seq(S), NEW cut, NEW c, NEW ag, NEW l, Queued(q, cut, c, ag, l),
           NEW k, NEW v, Extends(l, k, v), Len(l) <= Len(k), Within(q, cut, l),
           NEW e \in S, NEW ag2, Loose(l, ag) => Loose(k, ag2),
           \A x \in Att(l) : Runs(x, ag) => \E y \in Att(k) : Goes(k, x, e, y, cut) /\ Runs(y, ag2),
           e.type = "frame", e.frame.type = "end",
           Live(e, cut) => PlacedAt(e.frame, q, Len(q) + 1, c.cursor)
    PROVE  Queued(Append(q, e), cut, c, ag2, k)
<1> DEFINE A == Append(q, e)
<1>1. /\ Len(l) \in Nat /\ Len(k) \in Nat /\ DOMAIN l = 1..Len(l)
      /\ \A n \in DOMAIN l : n \in DOMAIN k /\ k[n] = l[n]
    BY DEF Extends
<1>2. \A n \in 0 .. Len(l) : n \in Nat /\ (n # 0 => n \in DOMAIN l) /\ \A i \in 1..n : i \in DOMAIN l
    BY <1>1
<1>3. Tracked(A, cut, c.active, ag2, k)
    <2>1. \A i \in DOMAIN q : Live(q[i], cut) /\ q[i].frame.type = "end" /\ q[i].frame.seq # 0 =>
              k[q[i].frame.seq] = l[q[i].frame.seq]
        BY <1>1, <1>2 DEF Within
    <2>2. Tracked(q, cut, c.active, ag, l)
        BY DEF Queued
    <2> QED BY <1>1, <2>1, <2>2, TrackedSettled
<1>4. Placed(A, cut, c.cursor)
    BY PlacedNext DEF Queued
<1>5. /\ Len(q) \in Nat /\ DOMAIN q = 1..Len(q) /\ DOMAIN A = 1..(Len(q) + 1)
      /\ A[Len(q) + 1] = e /\ \A i \in 1..Len(q) : A[i] = q[i]
    BY AppendIs
<1> HIDE DEF A
<1>6. \A m \in 0 .. Len(l) : Rested(l, ag, m) => Rested(k, ag2, m)
    BY <1>1, <1>2 DEF Rested
<1>7. ASSUME NEW j \in DOMAIN A, Live(A[j], cut), A[j].frame.type = "start"
      PROVE  Rested(k, ag2, A[j].frame.after)
    <2>1. j # Len(q) + 1
        BY <1>5, <1>7
    <2>2. j \in DOMAIN q /\ A[j] = q[j]
        BY <1>5, <2>1
    <2> QED BY <1>6, <1>7, <2>2 DEF Queued, Within
<1>8. Queued(A, cut, c, ag2, k)
    BY <1>3, <1>4, <1>7 DEF Queued
<1> QED BY <1>8 DEF A

(* What the first invariant says of client, queue and log. *)
LEMMA OwnFacts ==
    ASSUME FollowInv
    PROVE  /\ log \in Seq(Events) /\ Len(log) \in Nat /\ DOMAIN log = 1..Len(log)
           /\ agent.step \in 0..MaxSteps /\ agent.attempt \in Nat /\ agent.index \in Nat
           /\ agent.step \in Nat /\ agent.ask \in BOOLEAN
           /\ client.cursor \in 0..Len(log) /\ client.cursor \in Nat
           /\ client \in ClientsTo(client.cursor) /\ client.pending \subseteq 1..client.cursor
           /\ queue \in Seq(Items) /\ Within(queue, conn.ordinalCut, log)
           /\ conn.ordinal \in Nat /\ conn.ordinalCut \in Nat /\ conn.ordinalCut <= conn.ordinal
<1>1. /\ log \in Seq(Events) /\ Len(log) \in Nat /\ DOMAIN log = 1..Len(log)
      /\ conn.ordinal \in Nat /\ conn.ordinalCut \in Nat /\ conn.ordinalCut <= conn.ordinal
      /\ queue \in Seq(Items)
    BY QueueItems DEF FollowInv, HostTypes, ConnTypes
<1>2. /\ agent.step \in 0..MaxSteps /\ agent.attempt \in Nat /\ agent.index \in Nat
      /\ agent.step \in Nat /\ agent.ask \in BOOLEAN
    BY DEF FollowInv, HostTypes, Agents
<1>3. client.cursor \in 0..Len(log) /\ client \in ClientsTo(client.cursor)
    BY DEF FollowInv, ClientTypes
<1>4. client.cursor \in Nat /\ client.pending \subseteq 1..client.cursor
    BY <1>1, <1>3, ClientFields
<1>5. Within(queue, conn.ordinalCut, log)
    <2>1. \A f \in Frames : /\ f.type = "start" => f.after \in 0..Len(log)
                            /\ f.type = "end" => f.seq \in 0..Len(log)
        BY DEF Frames
    <2>2. \A j \in DOMAIN queue : Live(queue[j], conn.ordinalCut) => queue[j].frame \in Frames
        BY QueueItems DEF FollowInv, Live
    <2> QED BY <2>1, <2>2 DEF Within
<1> QED BY <1>1, <1>2, <1>3, <1>4, <1>5

(* The client stays as it is and the log gets no shorter. *)
LEMMA OwnClient ==
    ASSUME FollowInv, overtaken \/ Joined(log, agent, client), NEW e, Extends(log, log', e),
           Loose(log, agent) => Loose(log', agent')
    PROVE  overtaken \/ Joined(log', agent', client)
<1>1. \A n \in 1..client.cursor : log'[n] = log[n]
    <2>1. \A n \in 1..client.cursor : n \in DOMAIN log
        BY OwnFacts
    <2> QED BY <2>1 DEF Extends
<1> QED BY <1>1, OwnFacts, JoinedLonger

(* The agent alone steps. *)
LEMMA OwnAlone ==
    ASSUME FollowInv, OwnInv, UNCHANGED <<log, conn, queue, client, overtaken>>,
           stream' \in {stream, NoStream}, Told(log, agent'),
           Loose(log, agent) => Loose(log, agent'), \A x : Runs(x, agent) => Runs(x, agent')
    PROVE  OwnInv'
<1>1. Extends(log, log, Event("other", 0))
    BY OwnFacts, ExtendedNone
<1>2. Told(log', agent')
    OBVIOUS
<1>3. StreamTracks'
    <2>1. NoStream.active.id = 0
        BY DEF NoStream, NoAttempt
    <2>2. stream'.active.id # 0 => stream' = stream
        BY <2>1
    <2>3. stream'.active.id # 0 => Runs(stream'.active, agent')
        BY <2>2 DEF OwnInv, StreamTracks
    <2> QED BY <2>3 DEF StreamTracks
<1>4. overtaken' \/ Joined(log', agent', client')
    BY <1>1, OwnClient DEF OwnInv
<1>5. conn'.state = "open" /\ ~overtaken' => Queued(queue', conn'.ordinalCut, client', agent', log')
    <2> SUFFICES ASSUME conn.state = "open", ~overtaken
                 PROVE  Queued(queue, conn.ordinalCut, client, agent', log)
        OBVIOUS
    <2>1. Queued(queue, conn.ordinalCut, client, agent, log)
        BY DEF OwnInv
    <2> QED BY <1>1, <2>1, OwnFacts, QueuedLonger
<1> QED BY <1>2, <1>3, <1>4, <1>5 DEF OwnInv

(* An event is appended, and the agent runs the attempt that it ran. *)
LEMMA OwnAppended ==
    ASSUME FollowInv, OwnInv, NEW type, NEW step, Event(type, step) \in Events,
           Append1(type, step), UNCHANGED <<client, overtaken>>, Told(log', agent'),
           Loose(log, agent) => Loose(log', agent'), \A x : Runs(x, agent) => Runs(x, agent')
    PROVE  OwnInv'
<1> DEFINE h == Heard(Len(log'))
<1>1. /\ Extends(log, log', Event(type, step)) /\ stream' = stream /\ conn' = conn
      /\ queue' = IF Listening THEN Append(queue, h) ELSE queue
    BY OwnFacts, ExtendedOne DEF Append1
<1>2. h.type = "event"
    BY DEF Heard
<1> HIDE DEF h
<1>3. StreamTracks'
    <2>1. stream'.active.id # 0 => Runs(stream'.active, agent')
        BY <1>1 DEF OwnInv, StreamTracks
    <2> QED BY <2>1 DEF StreamTracks
<1>4. overtaken' \/ Joined(log', agent', client')
    BY <1>1, OwnClient DEF OwnInv
<1>5. ASSUME conn.state = "open", ~overtaken
      PROVE  Queued(queue', conn.ordinalCut, client, agent', log')
    <2>1. Queued(queue, conn.ordinalCut, client, agent, log)
        BY <1>5 DEF OwnInv
    <2>2. Queued(queue, conn.ordinalCut, client, agent', log')
        BY <1>1, <2>1, OwnFacts, QueuedLonger
    <2>3. queue' = Append(queue, h)
        BY <1>1, <1>5 DEF Listening
    <2>4. queue \in Seq(Items \cup {h}) /\ h \in Items \cup {h}
        BY OwnFacts, SeqGrows
    <2>5. ~Live(h, conn.ordinalCut)
        BY <1>2 DEF Live
    <2> HIDE DEF Queued
    <2>6. Queued(Append(queue, h), conn.ordinalCut, client, agent', log')
        BY <2>2, <2>4, <2>5, QueuedOther
    <2> QED BY <2>3, <2>6
<1> QED BY <1>1, <1>3, <1>4, <1>5 DEF OwnInv

(* A frame is emitted that settles nothing. *)
LEMMA OwnFrame ==
    ASSUME FollowInv, OwnInv, NEW f, Notify(<<>>, f), UNCHANGED <<log, client, overtaken>>,
           Told(log, agent'), Loose(log, agent) => Loose(log, agent'),
           StreamTracks',
           \A e, cut : Live(e, cut) /\ e.frame = f =>
               \A x \in Att(log) :
                   Runs(x, agent) => \E y \in Att(log) : Goes(log, x, e, y, cut) /\ Runs(y, agent'),
           f.type = "start" => f.after = Len(log) /\ Rested(log, agent', Len(log)),
           f.type = "end" => f.seq = 0
    PROVE  OwnInv'
<1> DEFINE e == NoticeOf(f)
           cut == conn.ordinalCut
<1>1. /\ conn'.state = conn.state /\ conn'.ordinalCut = conn.ordinalCut
      /\ Listening => queue' = Append(queue, e)
    <2>1. /\ conn' = conn \/ conn' = [conn EXCEPT !.ordinal = conn.ordinal + 1]
          /\ Listening => queue' = Append(queue \o <<>>, e)
        BY DEF Notify, NoticeOf
    <2>2. queue \o <<>> = queue
        BY OwnFacts
    <2>3. conn \in [state : {"closed", "registered", "observed", "open"}, cut : 0 .. Len(log),
                    next : 0 .. Len(log) + 1, ordinal : Nat, ordinalCut : Nat]
        BY DEF FollowInv, ConnTypes
    <2> QED BY <2>1, <2>2, <2>3
<1>2. e.frame = f /\ e.type = "frame" /\ Live(e, cut)
    <2>1. e.frame = f /\ e.type = "frame" /\ e.ordinal = conn.ordinal + 1
        BY DEF NoticeOf
    <2> HIDE DEF e
    <2> QED BY <2>1, OwnFacts DEF Live
<1> HIDE DEF e
<1>3. Extends(log, log', Event("other", 0)) /\ Told(log', agent')
    BY OwnFacts, ExtendedNone
<1>4. overtaken' \/ Joined(log', agent', client')
    BY <1>3, OwnClient DEF OwnInv
<1>5. ASSUME conn.state = "open", ~overtaken
      PROVE  Queued(queue', cut, client, agent', log)
    <2>1. Queued(queue, cut, client, agent, log)
        BY <1>5 DEF OwnInv
    <2>2. queue' = Append(queue, e)
        BY <1>1, <1>5 DEF Listening
    <2>3. queue \in Seq(Items \cup {e}) /\ e \in Items \cup {e}
        BY OwnFacts, SeqGrows
    <2>4. \A x \in Att(log) :
              Runs(x, agent) => \E y \in Att(log) : Goes(log, x, e, y, cut) /\ Runs(y, agent')
        BY <1>2
    <2>5. PlacedAt(f, queue, Len(queue) + 1, client.cursor)
        <3>1. ASSUME f.type = "start"
              PROVE  /\ client.cursor <= f.after
                     /\ \A i \in 1 .. Len(queue) : queue[i].type # "frame" => Until(queue[i]) <= f.after
                     /\ \A m \in client.cursor + 1 .. f.after : \E i \in 1 .. Len(queue) : Covers(queue[i], m)
            <4>1. f.after = Len(log)
                BY <3>1
            <4>2. client.cursor <= Len(log) /\ DOMAIN queue = 1..Len(queue)
                BY OwnFacts
            <4>3. \A i \in 1..Len(queue) : queue[i].type # "frame" => Until(queue[i]) <= Len(log)
                <5>1. \A i \in DOMAIN queue :
                          /\ queue[i].type \in {"event", "created", "frame"}
                          /\ queue[i].type = "event" => queue[i].n \in 1..Len(log)
                          /\ queue[i].type = "created" => queue[i].end \in 0..Len(log)
                    BY QueueItems DEF FollowInv
                <5>2. \A n \in 0..Len(log) : n <= Len(log)
                    OBVIOUS
                <5>3. \A n \in 1..Len(log) : n <= Len(log)
                    OBVIOUS
                <5> QED BY <4>2, <5>1, <5>2, <5>3 DEF Until
            <4>4. \A m \in client.cursor + 1 .. Len(log) : \E i \in 1 .. Len(queue) : Covers(queue[i], m)
                <5>1. Covered(queue, client.cursor + 1, Len(log))
                    BY <1>5 DEF FollowInv, QueueCovers, Base, ClientTypes
                <5> QED BY <4>2, <5>1 DEF Covered
            <4> QED BY <4>1, <4>2, <4>3, <4>4
        <3>2. (Len(queue) + 1) - 1 = Len(queue)
            BY OwnFacts
        <3> QED BY <3>1, <3>2 DEF PlacedAt
    <2>6. f.type = "start" => Rested(log, agent', f.after)
        OBVIOUS
    <2>7. Queued(Append(queue, e), cut, client, agent', log)
        BY <1>2, <2>1, <2>3, <2>4, <2>5, <2>6, QueuedNext
    <2> QED BY <2>2, <2>7
<1> QED BY <1>1, <1>3, <1>4, <1>5 DEF OwnInv

(* An attempt is settled. *)
LEMMA OwnSettled ==
    ASSUME FollowInv, OwnInv, NEW type \in Settlements, Settle(type)
    PROVE  OwnInv'
<1> DEFINE v == Event(type, agent.step)
           h == Heard(Len(log'))
           f == EndFrame(Outcome(type), Len(log'))
           e == NoticeOf(f)
           mid == Append(queue, h)
           cut == conn.ordinalCut
<1>1. /\ agent.attempt # 0 /\ log' = Append(log, v)
      /\ agent' = [agent EXCEPT !.rev = agent.rev + 1, !.attempt = 0, !.ask = type = "attempt"]
      /\ Notify(<<h>>, f) /\ UNCHANGED <<client, overtaken>>
    BY DEF Settle
<1>2. /\ agent'.attempt = 0 /\ (agent'.ask <=> type = "attempt") /\ agent'.step = agent.step
    BY <1>1 DEF FollowInv, HostTypes, Agents
<1>3. v \in Events
    BY OwnFacts DEF Event, Events
<1>4. Told(log', agent') /\ (Loose(log, agent) => Loose(log', agent'))
    <2>1. Told(log, agent) /\ log \in Seq(Events)
        BY OwnFacts DEF OwnInv
    <2> QED BY <1>1, <1>2, <1>3, <2>1, ToldSettled
<1>5. /\ Extends(log, log', v) /\ Len(log') \in DOMAIN log' /\ Len(log') > Len(log) /\ log'[Len(log')] = v
    <2>1. log \in Seq(Events)
        BY OwnFacts
    <2> QED BY <1>1, <1>3, <2>1, ExtendedOne
<1>6. Len(log) \in Nat /\ Len(log') \in Nat
    BY <1>5 DEF Extends
<1>7. /\ f.type = "end" /\ f.id = agent.attempt /\ f.index = agent.index
      /\ f.outcome = Outcome(type) /\ f.seq = Len(log')
    BY DEF EndFrame
<1>8. v.type = type /\ v.step = agent.step
    BY DEF Event
<1>9. h.type = "event" /\ h.n = Len(log')
    BY DEF Heard
<1>10. /\ stream' = Accept(stream, f)
       /\ conn'.state = conn.state /\ conn'.ordinalCut = conn.ordinalCut
       /\ Listening => queue' = Append(mid, e)
    <2> HIDE DEF f, h
    <2>1. /\ conn' = conn \/ conn' = [conn EXCEPT !.ordinal = conn.ordinal + 1]
          /\ Listening => queue' = Append(queue \o <<h>>, e)
          /\ stream' = Accept(stream, f)
        BY <1>1 DEF Notify, NoticeOf
    <2>2. queue \o <<h>> = mid
        BY OwnFacts
    <2>3. conn \in [state : {"closed", "registered", "observed", "open"}, cut : 0 .. Len(log),
                    next : 0 .. Len(log) + 1, ordinal : Nat, ordinalCut : Nat]
        BY DEF FollowInv, ConnTypes
    <2> HIDE DEF mid, e
    <2> QED BY <2>1, <2>2, <2>3
<1> HIDE DEF f, h, v
<1>11. e.frame = f /\ e.type = "frame" /\ Live(e, cut)
    <2>1. e.frame = f /\ e.type = "frame" /\ e.ordinal = conn.ordinal + 1
        BY DEF NoticeOf
    <2> HIDE DEF e
    <2> QED BY <2>1, OwnFacts DEF Live
<1> HIDE DEF e
<1>12. StreamTracks'
    <2>1. Accept(stream, f).active = NoAttempt
        BY <1>7 DEF Accept
    <2>2. stream'.active.id = 0
        BY <1>10, <2>1 DEF NoAttempt
    <2> QED BY <2>2 DEF StreamTracks
<1>13. overtaken' \/ Joined(log', agent', client')
    BY <1>1, <1>4, <1>5, OwnClient DEF OwnInv
<1>14. ASSUME conn.state = "open", ~overtaken
       PROVE  Queued(queue', cut, client, agent', log')
    <2> DEFINE S == Items \cup {h, e}
    <2>0. queue \in Seq(S) /\ h \in S /\ e \in S
        <3>1. Items \subseteq S
            OBVIOUS
        <3> QED BY <3>1, OwnFacts, SeqGrows
    <2> HIDE DEF S
    <2>1. Queued(queue, cut, client, agent, log)
        BY <1>14 DEF OwnInv
    <2>2. ~Live(h, cut)
        BY <1>9 DEF Live
    <2>3. Queued(mid, cut, client, agent, log)
        BY <2>0, <2>1, <2>2, QueuedOther
    <2>4. /\ mid \in Seq(S) /\ Len(queue) \in Nat /\ Len(mid) = Len(queue) + 1 /\ mid[Len(queue) + 1] = h
          /\ DOMAIN queue = 1..Len(queue) /\ DOMAIN mid = 1..Len(mid)
          /\ \A i \in 1..Len(queue) : mid[i] = queue[i]
        BY <2>0, AppendIs
    <2> HIDE DEF mid
    <2>5. Within(mid, cut, log)
        <3>1. \A j \in DOMAIN mid : (j \in DOMAIN queue /\ mid[j] = queue[j]) \/ mid[j] = h
            BY <2>4
        <3> QED BY <2>2, <3>1, OwnFacts DEF Within
    <2>6. ASSUME NEW x \in Att(log), Runs(x, agent)
          PROVE  \E y \in Att(log') : Goes(log', x, e, y, cut) /\ Runs(y, agent')
        <3>1. x \in Att(log') /\ x.after < f.seq
            BY <1>5, <1>6, <1>7 DEF Att
        <3>2. f.seq # 0 /\ f.outcome = Outcome(log'[f.seq].type) /\ log'[f.seq].type \in Settlements
              /\ log'[f.seq].step = agent.step
            BY <1>5, <1>6, <1>7, <1>8
        <3> QED BY <1>1, <1>2, <1>6, <1>7, <1>11, <2>6, <3>1, <3>2, EndGoes
    <2>7. PlacedAt(f, mid, Len(mid) + 1, client.cursor)
        <3>1. Len(mid) \in 1 .. (Len(mid) + 1) - 1 /\ mid[Len(mid)] = h
            BY <2>4
        <3>2. Covers(h, f.seq)
            BY <1>7, <1>9 DEF Covers
        <3> QED BY <1>7, <3>1, <3>2 DEF PlacedAt
    <2>8. Len(log) <= Len(log')
        BY <1>5, <1>6
    <2>9. Queued(Append(mid, e), cut, client, agent', log')
        BY <1>4, <1>5, <1>7, <1>11, <2>0, <2>3, <2>4, <2>5, <2>6, <2>7, <2>8, QueuedSettled
    <2>10. queue' = Append(mid, e)
        BY <1>10, <1>14 DEF Listening
    <2> QED BY <2>9, <2>10
<1> QED BY <1>1, <1>4, <1>10, <1>12, <1>13, <1>14 DEF OwnInv

LEMMA ExtendedAsides ==
    ASSUME log \in Seq(Events), NEW p \in {<<>>, <<Event("other", 0)>>},
           NEW w \in {<<>>, <<Event("other", 0)>>}, log' = log \o p \o w
    PROVE  Extends(log, log', Event("other", 0))
<1> DEFINE o == Event("other", 0)
           k == log \o p
<1>1. o \in Events
    BY Bounds DEF Event, Events
<1>2. (p = <<>> \/ p = <<o>>) /\ (w = <<>> \/ w = <<o>>) /\ log' = k \o w
    OBVIOUS
<1> HIDE DEF o
<1>3. /\ k \in Seq(Events) /\ Len(log) \in Nat /\ Len(k) = Len(log) + Len(p)
      /\ \A i \in DOMAIN log : i \in DOMAIN k /\ k[i] = log[i]
      /\ \A i \in DOMAIN k : i \in DOMAIN log \/ k[i] = o
    BY <1>1, <1>2, BehindIs
<1> HIDE DEF k
<1>4. /\ log' \in Seq(Events)
      /\ \A i \in DOMAIN k : i \in DOMAIN log' /\ log'[i] = k[i]
      /\ \A i \in DOMAIN log' : i \in DOMAIN k \/ log'[i] = o
    <2>1. /\ k \o w \in Seq(Events)
          /\ \A i \in DOMAIN k : i \in DOMAIN (k \o w) /\ (k \o w)[i] = k[i]
          /\ \A i \in DOMAIN (k \o w) : i \in DOMAIN k \/ (k \o w)[i] = o
        <3>1. k \in Seq(Events) /\ o \in Events /\ (w = <<>> \/ w = <<o>>)
            BY <1>1, <1>2, <1>3
        <3> QED BY <3>1, BehindIs
    <2> QED BY <1>2, <2>1
<1>5. \A n \in DOMAIN log : n \in DOMAIN log' /\ log'[n] = log[n]
    BY <1>3, <1>4
<1>6. ASSUME NEW n \in DOMAIN log', n \notin DOMAIN log PROVE n > Len(log) /\ log'[n] = o
    <2>1. log'[n] = o
        BY <1>3, <1>4, <1>6
    <2>2. n \in Nat /\ n >= 1 /\ DOMAIN log = 1..Len(log)
        BY <1>4
    <2> QED BY <1>3, <1>6, <2>1, <2>2
<1>7. Extends(log, log', o)
    BY <1>4, <1>5, <1>6 DEF Extends
<1> QED BY <1>7 DEF o

(* The session is created or resumed: no frame waits in the queue, or it is overtaken. *)
LEMMA OwnLoad ==
    ASSUME FollowInv, OwnInv, Load
    PROVE  OwnInv'
<1> DEFINE o == Event("other", 0)
           cut == conn.ordinalCut
<1>0. PICK p \in {<<>>, <<Event("other", 0)>>}, w \in {<<>>, <<Event("other", 0)>>} :
          /\ log' = log \o p \o w
          /\ \E c, hs : /\ c.type = "created" /\ (hs = <<>> \/ hs = <<Heard(Len(log'))>>)
                        /\ Listening => queue' = <<c>> \o queue \o hs
    <2>1. PICK observed \in BOOLEAN, early \in BOOLEAN :
              LET prepared == IF agent.lives = 0 THEN <<>> ELSE <<Event("other", 0)>>
                  written == IF observed THEN <<Event("other", 0)>> ELSE <<>>
                  end == Len(log') - IF observed /\ ~early THEN 1 ELSE 0
              IN  /\ log' = log \o prepared \o written
                  /\ queue' = IF ~Listening THEN queue
                              ELSE <<Created(end)>> \o queue
                                   \o IF observed THEN <<Heard(Len(log'))>> ELSE <<>>
        BY DEF Load
    <2> DEFINE p == IF agent.lives = 0 THEN <<>> ELSE <<Event("other", 0)>>
               w == IF observed THEN <<Event("other", 0)>> ELSE <<>>
               end == Len(log') - IF observed /\ ~early THEN 1 ELSE 0
               c == Created(end)
               hs == IF observed THEN <<Heard(Len(log'))>> ELSE <<>>
    <2>2. p \in {<<>>, <<Event("other", 0)>>} /\ w \in {<<>>, <<Event("other", 0)>>}
        OBVIOUS
    <2>3. log' = log \o p \o w
        BY <2>1
    <2>4. c.type = "created"
        BY DEF Created
    <2>5. hs = <<>> \/ hs = <<Heard(Len(log'))>>
        OBVIOUS
    <2>6. Listening => queue' = <<c>> \o queue \o hs
        BY <2>1
    <2> HIDE DEF p, w, c, hs
    <2> QED BY <2>2, <2>3, <2>4, <2>5, <2>6
<1>1. PICK c, hs : /\ c.type = "created" /\ (hs = <<>> \/ hs = <<Heard(Len(log'))>>)
                   /\ Listening => queue' = <<c>> \o queue \o hs
    BY <1>0
<1>2. /\ agent' = [agent EXCEPT !.on = TRUE, !.lives = agent.lives + 1, !.rev = 0, !.count = 0]
      /\ overtaken' = (overtaken \/ (Listening /\ \E i \in DOMAIN queue : queue[i].type = "frame"))
      /\ UNCHANGED <<stream, conn, client>>
    BY DEF Load
<1>3. agent'.step = agent.step /\ agent'.attempt = agent.attempt /\ agent'.ask = agent.ask /\ agent'.index = agent.index
    BY <1>2 DEF FollowInv, HostTypes, Agents
<1>4. Extends(log, log', o)
    BY <1>0, OwnFacts, ExtendedAsides
<1>5. Told(log', agent') /\ (Loose(log, agent) => Loose(log', agent'))
    <2>1. Told(log, agent)
        BY DEF OwnInv
    <2>2. agent.attempt # 0 => agent.ask
        BY <2>1 DEF Told
    <2>3. agent.ask => agent.step # 0
        BY <2>1 DEF Told
    <2> QED BY <1>3, <1>4, <2>1, <2>2, <2>3, ToldOther
<1>6. \A x : Runs(x, agent) => Runs(x, agent')
    BY <1>3 DEF Runs
<1>7. StreamTracks'
    <2>1. stream'.active.id # 0 => Runs(stream'.active, agent')
        BY <1>2, <1>6 DEF OwnInv, StreamTracks
    <2> QED BY <2>1 DEF StreamTracks
<1>8. overtaken' \/ Joined(log', agent', client')
    <2>1. overtaken \/ Joined(log', agent', client)
        BY <1>4, <1>5, OwnClient DEF OwnInv
    <2> QED BY <1>2, <2>1
<1>9. ASSUME conn.state = "open", ~overtaken'
      PROVE  Queued(queue', cut, client, agent', log')
    <2> DEFINE h == Heard(Len(log'))
               S == Items \cup {h, c}
               mid == <<c>> \o queue
    <2>1. Listening /\ ~overtaken /\ \A i \in DOMAIN queue : ~Live(queue[i], cut)
        BY <1>2, <1>9 DEF Listening, Live
    <2>2. queue \in Seq(S) /\ h \in S /\ c \in S
        <3>1. Items \subseteq S
            OBVIOUS
        <3> QED BY <3>1, OwnFacts, SeqGrows
    <2>3. ~Live(h, cut) /\ ~Live(c, cut)
        BY <1>1 DEF Heard, Live
    <2>4. hs = <<>> \/ hs = <<h>>
        BY <1>1
    <2>5. queue' = mid \o hs
        BY <1>1, <2>1
    <2> HIDE DEF S, h
    <2>6. Queued(queue, cut, client, agent, log)
        BY <1>9, <2>1 DEF OwnInv
    <2>7. Queued(queue, cut, client, agent', log')
        BY <1>4, <1>5, <1>6, <2>6, OwnFacts, QueuedLonger
    <2>8. Queued(mid, cut, client, agent', log') /\ mid \in Seq(S)
        BY <2>1, <2>2, <2>3, <2>7, QueuedFront, ConsIs
    <2> HIDE DEF mid
    <2>9. Queued(Append(mid, h), cut, client, agent', log')
        BY <2>2, <2>3, <2>8, QueuedOther
    <2>10. mid \o <<h>> = Append(mid, h) /\ mid \o <<>> = mid
        BY <2>8
    <2> QED BY <2>4, <2>5, <2>8, <2>9, <2>10
<1> QED BY <1>2, <1>5, <1>7, <1>8, <1>9 DEF OwnInv

(* While the agent asks, the step of every message has ended or is left open. *)
LEMMA AskRested ==
    ASSUME NEW l \in Seq(Events), NEW ag, Told(l, ag), ag.ask, NEW ag2, ag2.step = ag.step
    PROVE  Rested(l, ag2, Len(l))
<1>1. /\ DOMAIN l = 1..Len(l)
      /\ \A n \in DOMAIN l : l[n] = Event(l[n].type, l[n].step)
      /\ \A s, x : Event(s, x).type = s /\ Event(s, x).step = x
    BY EventsAre
<1>2. ASSUME NEW n \in 1..Len(l), l[n].type = "message",
             \A e \in 1..Len(l) : l[e] # Event("end", l[n].step)
      PROVE  Loose(l, ag2)
    <2> DEFINE s == l[n].step
    <2>1. Begun(l, s)
        BY <1>1, <1>2 DEF Told, Settlements
    <2>2. s # ag.step
        <3>1. l[n] = Event("message", s)
            BY <1>1, <1>2
        <3> QED BY <1>1, <3>1 DEF Told
    <2>3. PICK m \in DOMAIN l : l[m] = Event("step", s)
        BY <2>1 DEF Begun
    <2> HIDE DEF s
    <2>4. l[m].type = "step" /\ l[m].step = s
        BY <1>1, <2>3
    <2>5. \A e \in DOMAIN l : l[e] # Event("end", s)
        BY <1>1, <1>2 DEF s
    <2> QED BY <2>2, <2>4, <2>5 DEF Loose
<1> QED BY <1>2 DEF Rested

LEMMA OwnHostKeeps ==
    ASSUME FollowInv, OwnInv, HostStep
    PROVE  OwnInv'
<1>1. /\ log \in Seq(Events) /\ Len(log) \in Nat /\ agent \in Agents
      /\ agent.step \in 0..MaxSteps /\ agent.step \in Nat /\ agent.attempt \in Nat /\ agent.index \in Nat
      /\ agent.count \in Nat
    BY OwnFacts DEF FollowInv, HostTypes, Agents
<1>2. /\ Told(log, agent)
      /\ agent.attempt # 0 => agent.ask
      /\ agent.ask => agent.step # 0
    BY DEF OwnInv, Told
<1>3. Extends(log, log, Event("other", 0))
    BY <1>1, ExtendedNone
<1>4. CASE Load
    BY <1>4, OwnLoad
<1>5. CASE Unload
    <2>1. agent' = [agent EXCEPT !.on = FALSE] /\ stream' = NoStream
          /\ UNCHANGED <<log, conn, queue, client, overtaken>>
        BY <1>5 DEF Unload
    <2>2. /\ agent'.step = agent.step /\ agent'.attempt = agent.attempt /\ agent'.ask = agent.ask
          /\ agent'.index = agent.index
        BY <1>1, <2>1 DEF Agents
    <2>3. Told(log, agent') /\ (Loose(log, agent) => Loose(log, agent'))
        BY <1>2, <1>3, <2>2, ToldOther
    <2>4. \A x : Runs(x, agent) => Runs(x, agent')
        BY <2>2 DEF Runs
    <2> QED BY <2>1, <2>3, <2>4, OwnAlone
<1>6. CASE EndRejected
    <2>1. agent' = [agent EXCEPT !.step = 0, !.ask = FALSE] /\ agent.attempt = 0
          /\ UNCHANGED <<log, stream, conn, queue, client, overtaken>>
        BY <1>6 DEF EndRejected, StepOver
    <2>2. agent'.step = 0 /\ agent'.attempt = 0 /\ ~agent'.ask
        BY <1>1, <2>1 DEF Agents
    <2>3. Told(log, agent') /\ (Loose(log, agent) => Loose(log, agent'))
        BY <1>2, <1>3, <2>2, ToldOther
    <2>4. \A x : Runs(x, agent) => Runs(x, agent')
        BY <2>1, <2>2 DEF Runs
    <2> QED BY <2>1, <2>3, <2>4, OwnAlone
<1>7. CASE StartStep
    <2> DEFINE s == Steps + 1
    <2>1. /\ agent' = [agent EXCEPT !.step = s, !.ask = TRUE] /\ Steps < MaxSteps
          /\ Append1("step", s) /\ UNCHANGED <<client, overtaken>> /\ agent.step = 0
        BY <1>7 DEF StartStep
    <2>2. s = StepsOf(log) + 1 /\ StepsOf(log) \in Nat
        <3>1. Steps = StepsOf(log)
            BY DEF Steps, StepsOf
        <3> QED BY <1>1, <3>1, StepsFinite
    <2>3. Event("step", s) \in Events
        <3>1. s \in 0..MaxSteps
            <4>1. StepsOf(log) < MaxSteps
                BY <2>1 DEF Steps, StepsOf
            <4> QED BY <2>2, <4>1, Bounds
        <3> QED BY <3>1 DEF Event, Events
    <2> HIDE DEF s
    <2>4. agent'.step = s /\ agent'.attempt = agent.attempt /\ agent'.ask
        BY <1>1, <2>1 DEF Agents
    <2>5. log' = Append(log, Event("step", s))
        BY <2>1 DEF Append1
    <2>6. Told(log', agent') /\ (Loose(log, agent) => Loose(log', agent'))
        BY <1>1, <1>2, <2>1, <2>2, <2>3, <2>4, <2>5, ToldBegun
    <2>7. \A x : Runs(x, agent) => Runs(x, agent')
        BY <1>2, <2>1, <2>4 DEF Runs
    <2> QED BY <2>1, <2>3, <2>6, <2>7, OwnAppended
<1>8. CASE Aside
    <2>1. Append1("other", 0) /\ UNCHANGED <<agent, client, overtaken>>
        BY <1>8 DEF Aside
    <2>2. Event("other", 0) \in Events
        BY Bounds DEF Event, Events
    <2>3. Extends(log, log', Event("other", 0))
        BY <1>1, <2>1, <2>2, ExtendedOne DEF Append1
    <2>4. Told(log', agent') /\ (Loose(log, agent) => Loose(log', agent'))
        BY <1>2, <2>1, <2>3, ToldOther
    <2>5. \A x : Runs(x, agent) => Runs(x, agent')
        BY <2>1
    <2> QED BY <2>1, <2>2, <2>4, <2>5, OwnAppended
<1>9. CASE EndStep
    <2>1. /\ agent' = [agent EXCEPT !.step = 0, !.ask = FALSE] /\ agent.attempt = 0 /\ agent.step # 0
          /\ Append1("end", agent.step) /\ UNCHANGED <<client, overtaken>>
        BY <1>9 DEF EndStep, StepOver
    <2>2. agent'.step = 0 /\ agent'.attempt = 0 /\ ~agent'.ask
        BY <1>1, <2>1 DEF Agents
    <2>3. Event("end", agent.step) \in Events
        BY <1>1 DEF Event, Events
    <2>4. log' = Append(log, Event("end", agent.step))
        BY <2>1 DEF Append1
    <2>5. Told(log', agent') /\ (Loose(log, agent) => Loose(log', agent'))
        BY <1>1, <1>2, <2>1, <2>2, <2>3, <2>4, ToldEnded
    <2>6. \A x : Runs(x, agent) => Runs(x, agent')
        BY <2>1, <2>2 DEF Runs
    <2> QED BY <2>1, <2>3, <2>5, <2>6, OwnAppended
<1>10. CASE StartAttempt
    <2> DEFINE f == [type |-> "start", rev |-> agent.rev + 1, id |-> agent.count + 1,
                     step |-> agent.step, after |-> Len(log)]
    <2>1. /\ agent.attempt = 0 /\ agent.ask
          /\ agent' = [agent EXCEPT !.rev = agent.rev + 1, !.count = agent.count + 1,
                                    !.attempt = agent.count + 1, !.index = 0]
          /\ Notify(<<>>, f) /\ UNCHANGED <<log, client, overtaken>>
        BY <1>10 DEF StartAttempt
    <2>2. /\ agent'.step = agent.step /\ agent'.attempt = agent.count + 1 /\ agent'.index = 0
          /\ agent'.ask = agent.ask
        BY <1>1, <2>1 DEF Agents
    <2>3. Told(log, agent') /\ (Loose(log, agent) => Loose(log, agent'))
        <3>1. /\ agent'.attempt # 0 => agent'.ask
              /\ agent'.ask => agent'.step # 0 /\ agent.ask
              /\ agent'.step # 0 => agent'.step = agent.step
            BY <1>2, <2>1, <2>2
        <3> QED BY ONLY <1>2, <1>3, <3>1, ToldOther
    <2>4. Rested(log, agent', Len(log))
        BY <1>1, <1>2, <2>1, <2>2, AskRested
    <2>5. /\ f.type = "start" /\ f.id = agent.count + 1 /\ f.step = agent.step /\ f.after = Len(log)
          /\ f.id \in Nat /\ f.id # 0 /\ f.after \in 0..Len(log)
        BY <1>1
    <2>6. StreamTracks'
        <3> DEFINE a == Accept(stream, f).active
        <3>1. a = NoAttempt \/ a = [id |-> f.id, step |-> f.step, after |-> f.after, next |-> 0]
            BY <2>5 DEF Accept
        <3>2. stream'.active = a
            BY <2>1 DEF Notify
        <3> HIDE DEF a
        <3>3. a.id # 0 => Runs(a, agent')
            BY <2>2, <2>5, <3>1 DEF Runs, NoAttempt
        <3> QED BY <3>2, <3>3 DEF StreamTracks
    <2> HIDE DEF f
    <2>7. ASSUME NEW e, NEW cut, Live(e, cut), e.frame = f, NEW x \in Att(log), Runs(x, agent)
          PROVE  \E y \in Att(log) : Goes(log, x, e, y, cut) /\ Runs(y, agent')
        <3>1. /\ f.step \in Nat /\ agent.attempt = 0 /\ agent'.attempt = f.id
              /\ agent'.step = f.step /\ agent'.index = 0
            BY <1>1, <2>1, <2>2, <2>5
        <3> QED BY <2>5, <2>7, <3>1, StartGoes
    <2> QED BY <2>1, <2>3, <2>4, <2>5, <2>6, <2>7, OwnFrame
<1>11. CASE Push
    <2> DEFINE f == [type |-> "chunk", rev |-> agent.rev + 1, id |-> agent.attempt, index |-> agent.index + 1]
    <2>1. /\ agent.attempt # 0
          /\ agent' = [agent EXCEPT !.rev = agent.rev + 1, !.index = agent.index + 1]
          /\ Notify(<<>>, f) /\ UNCHANGED <<log, client, overtaken>>
        BY <1>11 DEF Push
    <2>2. /\ agent'.step = agent.step /\ agent'.attempt = agent.attempt /\ agent'.index = agent.index + 1
          /\ agent'.ask = agent.ask
        BY <1>1, <2>1 DEF Agents
    <2>3. Told(log, agent') /\ (Loose(log, agent) => Loose(log, agent'))
        BY <1>2, <1>3, <2>1, <2>2, ToldOther, ZenonT(60)
    <2>4. f.type = "chunk" /\ f.id = agent.attempt /\ f.index = agent.index + 1
        OBVIOUS
    <2>5. StreamTracks'
        <3> DEFINE a == Accept(stream, f).active
        <3>1. a = NoAttempt \/ (stream.active.id = f.id /\ f.index = stream.active.next + 1
                                /\ a = [stream.active EXCEPT !.next = f.index])
            BY <2>4 DEF Accept
        <3>2. stream'.active = a
            BY <2>1 DEF Notify
        <3> HIDE DEF a
        <3>3. a.id # 0 => Runs(a, agent')
            <4>1. CASE a = NoAttempt
                BY <4>1 DEF NoAttempt
            <4>2. CASE stream.active.id = f.id /\ a = [stream.active EXCEPT !.next = f.index]
                <5>1. Runs(stream.active, agent) /\ stream.active \in Attempts
                    BY <2>1, <2>4, <4>2 DEF OwnInv, StreamTracks, FollowInv, HostTypes
                <5>2. a.id = stream.active.id /\ a.step = stream.active.step /\ a.next = f.index
                    BY <4>2, <5>1 DEF Attempts
                <5> QED BY <2>1, <2>2, <2>4, <5>1, <5>2 DEF Runs
            <4> QED BY <3>1, <4>1, <4>2
        <3> QED BY <3>2, <3>3 DEF StreamTracks
    <2> HIDE DEF f
    <2>6. \A e, cut : Live(e, cut) /\ e.frame = f =>
              \A x \in Att(log) :
                  Runs(x, agent) => \E y \in Att(log) : Goes(log, x, e, y, cut) /\ Runs(y, agent')
        BY <1>1, <2>1, <2>2, <2>4, ChunkGoes
    <2> QED BY <2>1, <2>3, <2>4, <2>5, <2>6, OwnFrame
<1>12. CASE Abandon
    <2> DEFINE f == EndFrame("abandoned", 0)
    <2>1. /\ agent.attempt # 0
          /\ agent' = [agent EXCEPT !.rev = agent.rev + 1, !.attempt = 0, !.ask = FALSE]
          /\ Notify(<<>>, f) /\ UNCHANGED <<log, client, overtaken>>
        BY <1>12 DEF Abandon
    <2>2. agent'.step = agent.step /\ agent'.attempt = 0 /\ ~agent'.ask
        BY <1>1, <2>1 DEF Agents
    <2>3. Told(log, agent') /\ (Loose(log, agent) => Loose(log, agent'))
        BY <1>2, <1>3, <2>1, <2>2, ToldOther, ZenonT(60)
    <2>4. /\ f.type = "end" /\ f.id = agent.attempt /\ f.index = agent.index
          /\ f.outcome = "abandoned" /\ f.seq = 0
        BY DEF EndFrame
    <2> HIDE DEF f
    <2>5. StreamTracks'
        <3>1. Accept(stream, f).active = NoAttempt
            BY <2>4 DEF Accept
        <3>2. stream'.active.id = 0
            BY <2>1, <3>1 DEF NoAttempt, Notify
        <3> QED BY <3>2 DEF StreamTracks
    <2>6. \A e, cut : Live(e, cut) /\ e.frame = f =>
              \A x \in Att(log) :
                  Runs(x, agent) => \E y \in Att(log) : Goes(log, x, e, y, cut) /\ Runs(y, agent')
        BY <1>1, <2>1, <2>2, <2>4, EndGoes
    <2> QED BY <2>1, <2>3, <2>4, <2>5, <2>6, OwnFrame
<1>13. ASSUME NEW type \in Settlements, Settle(type) PROVE OwnInv'
    BY <1>13, OwnSettled
<1> QED BY <1>4, <1>5, <1>6, <1>7, <1>8, <1>9, <1>10, <1>11, <1>12, <1>13 DEF HostStep

-----------------------------------------------------------------------------
(* The steps of the connection. *)

(* The opening page joins whatever runs. *)
LEMMA ReplacedOwns ==
    ASSUME Len(log) \in Nat, NEW cut \in Nat, NEW s \in [rev : Nat, active : Attempts],
           s.active.id = 0 => s.active.next = 0,
           s.active.id # 0 => \A n \in Settled : n <= s.active.after,
           DOMAIN log = 1..Len(log), cut <= Len(log)
    PROVE  Joined(log, agent, Replaced(cut, s))
<1> DEFINE c0 == [rev |-> s.rev, active |-> s.active, retained |-> NoAttempt, pending |-> {},
                  published |-> 1 .. cut, cursor |-> cut, restart |-> FALSE, rows |-> <<>>]
           page == [n \in 1 .. cut |-> Durable(n)]
           own == [i \in 1 .. s.active.next |-> Chunk(c0, s.active, i)]
           a == s.active
           c == Replaced(cut, s)
<1>1. a \in Attempts /\ a.next \in Nat /\ a.after \in Nat /\ a.id \in Nat
    BY Bounds DEF Attempts
<1>2. c = [c0 EXCEPT !.rows = page \o own]
    BY DEF Replaced
<1>3. /\ Len(page) = cut /\ Len(own) = a.next
      /\ page \in Seq({Durable(n) : n \in 1..cut}) /\ own \in Seq({Chunk(c0, a, i) : i \in 1..a.next})
    <2> DEFINE P == {Durable(n) : n \in 1..cut}
               O == {Chunk(c0, a, i) : i \in 1..a.next}
    <2>1. page \in [1..cut -> P]
        OBVIOUS
    <2>2. own \in [1..a.next -> O]
        OBVIOUS
    <2>3. cut \in Nat /\ a.next \in Nat
        BY <1>1
    <2> HIDE DEF page, own, P, O, a
    <2>4. page \in Seq(P) /\ Len(page) = cut
        BY <2>1, <2>3, FunctionIsSeq
    <2>5. own \in Seq(O) /\ Len(own) = a.next
        BY <2>2, <2>3, FunctionIsSeq
    <2> QED BY <2>4, <2>5 DEF P, O
<1>4. \A n \in 1..cut : page[n].id = 0
    BY DEF Durable
<1>5. \A i \in 1..a.next : own[i].id = a.id /\ own[i].index = i
    BY DEF Chunk
<1> DEFINE rows == page \o own
<1>6. /\ c.rows = rows /\ c.active = a /\ c.retained = NoAttempt /\ c.pending = {} /\ c.cursor = cut
      /\ c.restart = FALSE
    BY <1>2
<1> HIDE DEF page, own, c, c0, a
<1>7. /\ DOMAIN rows = 1..(cut + a.next)
      /\ \A i \in 1..cut : rows[i] = page[i]
      /\ \A i \in 1..a.next : rows[cut + i] = own[i]
    <2> DEFINE R == {Durable(n) : n \in 1..cut} \cup {Chunk(c0, a, i) : i \in 1..a.next}
    <2>1. page \in Seq(R) /\ own \in Seq(R)
        BY <1>3, SeqGrows
    <2> HIDE DEF R
    <2>2. /\ DOMAIN (page \o own) = 1..(Len(page) + Len(own))
          /\ \A i \in 1..Len(page) : (page \o own)[i] = page[i]
          /\ \A i \in 1..Len(own) : (page \o own)[Len(page) + i] = own[i]
        BY ONLY <2>1, ConcatIs
    <2> QED BY <1>3, <2>2
<1> HIDE DEF rows
<1>8. ASSUME NEW i \in DOMAIN rows
      PROVE  \/ rows[i].id = 0 /\ i \in 1..cut
             \/ i - cut \in 1..a.next /\ rows[i].id = a.id /\ rows[i].index = i - cut
    <2>1. CASE i \in 1..cut
        BY <1>4, <1>7, <2>1
    <2>2. CASE i \notin 1..cut
        <3>1. i - cut \in 1..a.next /\ cut + (i - cut) = i
            BY <1>1, <1>7, <2>2
        <3> QED BY <1>5, <1>7, <3>1
    <2> QED BY <2>1, <2>2
<1>9. ASSUME a.id # 0 PROVE Counted(rows, a)
    <2> DEFINE own2 == {i \in DOMAIN rows : rows[i].id = a.id}
    <2>1. \A i \in own2 : i - cut \in 1..a.next /\ rows[i].index = i - cut /\ i \in Nat
        BY <1>1, <1>7, <1>8, <1>9
    <2>2. \A m \in 1..a.next : cut + m \in own2 /\ rows[cut + m].index = m
        <3> SUFFICES ASSUME NEW m \in 1..a.next
                     PROVE  cut + m \in own2 /\ rows[cut + m].index = m
            OBVIOUS
        <3>1. cut + m \in DOMAIN rows
            BY <1>1, <1>7
        <3>2. rows[cut + m] = own[m] /\ own[m].id = a.id /\ own[m].index = m
            BY <1>5, <1>7
        <3> QED BY <3>1, <3>2
    <2>3. {rows[i].index : i \in own2} = 1..a.next
        <3> HIDE DEF own2
        <3>1. \A m \in 1..a.next : \E i \in own2 : rows[i].index = m
            BY <2>2
        <3>2. \A i \in own2 : rows[i].index \in 1..a.next
            BY <2>1
        <3> QED BY <3>1, <3>2
    <2>4. \A i, j \in own2 : i < j => rows[i].index < rows[j].index
        <3> HIDE DEF own2
        <3> QED BY <1>1, <2>1
    <2> QED BY <2>3, <2>4 DEF Counted
<1>10. NoAttempt.id = 0
    BY DEF NoAttempt
<1>11. Owns(log, c)
    BY <1>6, <1>8, <1>9, <1>10 DEF Owns
<1>12. Held(log, c)
    <2> SUFFICES ASSUME NEW n \in 1..cut, SettledBy(log, n, a) PROVE FALSE
        BY <1>6 DEF Held
    <2>1. n \in DOMAIN log /\ n \in Nat
        BY <1>1
    <2>2. a.id # 0 /\ log[n].type \in Settlements /\ n > a.after
        BY DEF SettledBy
    <2>3. n <= a.after
        BY <2>1, <2>2 DEF Settled, a
    <2> QED BY <1>1, <2>1, <2>2, <2>3
<1>13. Kept(log, c) /\ (c.restart => Loose(log, agent))
    BY <1>6, <1>10 DEF Kept
<1>14. Joined(log, agent, c)
    BY <1>11, <1>12, <1>13 DEF Joined
<1> QED BY <1>14 DEF c

(* Listening, observing, and a connection that is lost or given up. *)
LEMMA OwnClosed ==
    ASSUME FollowInv, OwnInv, UNCHANGED <<log, agent, overtaken>>, stream' \in {stream, NoStream},
           conn'.state # "open",
           client' \in {client, [client EXCEPT !.restart = FALSE]}
    PROVE  OwnInv'
<1>1. StreamTracks'
    <2>1. NoStream.active.id = 0
        BY DEF NoStream, NoAttempt
    <2>2. stream'.active.id # 0 => stream' = stream
        BY <2>1
    <2>3. stream'.active.id # 0 => Runs(stream'.active, agent')
        BY <2>2 DEF OwnInv, StreamTracks
    <2> QED BY <2>3 DEF StreamTracks
<1>2. ASSUME Joined(log, agent, client) PROVE Joined(log, agent, client')
    <2>1. client \in ClientsTo(client.cursor)
        BY OwnFacts
    <2>2. /\ client'.rows = client.rows /\ client'.active = client.active
          /\ client'.retained = client.retained /\ client'.pending = client.pending
          /\ client'.published = client.published /\ client'.cursor = client.cursor
          /\ client'.restart => client.restart
        BY <2>1 DEF ClientsTo
    <2>3. Owns(log, client') /\ Held(log, client') /\ Kept(log, client')
        BY <1>2, <2>2 DEF Joined, Owns, Held, Kept
    <2> QED BY <1>2, <2>2, <2>3 DEF Joined
<1>3. Told(log', agent') /\ (overtaken' \/ Joined(log', agent', client'))
    BY <1>2 DEF OwnInv
<1> QED BY <1>1, <1>3 DEF OwnInv

LEMMA OwnOpen ==
    ASSUME FollowInv, OwnInv, Open
    PROVE  OwnInv'
<1>1. /\ conn' = [conn EXCEPT !.state = "open", !.next = conn.cut + 1, !.ordinalCut = conn.ordinal]
      /\ client' = Replaced(conn.cut, stream) /\ overtaken' = FALSE
      /\ UNCHANGED <<log, agent, stream, queue>>
    BY DEF Open, hostVars
<1>2. /\ Len(log) \in Nat /\ DOMAIN log = 1..Len(log)
      /\ conn \in [state : {"closed", "registered", "observed", "open"}, cut : 0 .. Len(log),
                   next : 0 .. Len(log) + 1, ordinal : Nat, ordinalCut : Nat]
      /\ conn.cut \in Nat /\ conn.cut <= Len(log) /\ conn.ordinal \in Nat
      /\ stream \in [rev : Nat, active : Attempts]
      /\ stream.active.id = 0 => stream.active.next = 0
      /\ stream.active.id # 0 => \A n \in Settled : n <= stream.active.after
    BY QueueItems DEF FollowInv, ConnTypes, HostTypes, StreamTrue
<1>3. Joined(log, agent, client')
    BY <1>1, <1>2, ReplacedOwns
<1>4. client'.active = stream.active
    BY <1>1, <1>2, ReplacedIs
<1>5. conn'.ordinalCut = conn.ordinal
    BY <1>1, <1>2
<1>6. \A i \in DOMAIN queue : ~Live(queue[i], conn.ordinal)
    <2> SUFFICES ASSUME NEW i \in DOMAIN queue, Live(queue[i], conn.ordinal) PROVE FALSE
        OBVIOUS
    <2>1. queue[i].ordinal \in 1..conn.ordinal
        BY QueueItems DEF FollowInv, Live
    <2> QED BY <1>2, <2>1 DEF Live
<1>7. Queued(queue, conn.ordinal, client', agent, log)
    <2>1. stream.active.id # 0 => stream.active \in Att(log) /\ Runs(stream.active, agent)
        <3>1. stream.active \in Att(log)
            <4>1. stream.active \in Attempts
                BY <1>2
            <4> QED BY <4>1, Bounds DEF Attempts, Att
        <3> QED BY <3>1 DEF OwnInv, StreamTracks
    <2>2. Tracked(queue, conn.ordinal, stream.active, agent, log)
        BY <1>2, <1>6, <2>1, OwnFacts, TrackedNone
    <2> QED BY <1>4, <1>6, <2>2 DEF Queued, Placed
<1>8. StreamTracks' /\ Told(log', agent')
    BY <1>1 DEF OwnInv, StreamTracks
<1> QED BY <1>1, <1>3, <1>5, <1>7, <1>8 DEF OwnInv

LEMMA OwnStarts ==
    ASSUME Init
    PROVE  OwnInv
<1>1. /\ log = <<>> /\ Len(log) = 0 /\ Len(log) \in Nat /\ DOMAIN log = {} /\ DOMAIN log = 1..Len(log)
      /\ stream = NoStream /\ conn = Closed /\ client = Replaced(0, NoStream)
      /\ agent.step = 0 /\ ~agent.ask /\ agent.attempt = 0
    BY DEF Init
<1>2. NoStream \in [rev : Nat, active : Attempts] /\ NoStream.active.id = 0 /\ NoStream.active.next = 0
    BY <1>1, Plainly DEF NoStream, NoAttempt
<1>3. Joined(log, agent, client)
    BY <1>1, <1>2, ReplacedOwns
<1>4. Told(log, agent)
    BY <1>1 DEF Told
<1>5. StreamTracks
    BY <1>1, <1>2 DEF StreamTracks
<1>6. conn.state # "open"
    BY <1>1 DEF Closed
<1> QED BY <1>3, <1>4, <1>5, <1>6 DEF OwnInv

(* An event or a notice is taken out. *)
LEMMA OwnDeliverEvents ==
    ASSUME FollowInv, OwnInv, DeliverEvents
    PROVE  OwnInv'
<1> DEFINE item == Head(queue)
           end == Until(item)
           cut == conn.ordinalCut
           k == client.cursor
<1>1. /\ conn.state = "open" /\ queue # <<>> /\ item.type # "frame"
      /\ UNCHANGED <<log, agent, stream, overtaken>>
      /\ \/ end < conn.next /\ queue' = Tail(queue) /\ UNCHANGED <<conn, client>>
         \/ conn' = [Closed EXCEPT !.state = "failed"] /\ UNCHANGED client
         \/ /\ ~(end < conn.next)
            /\ conn' = [conn EXCEPT !.next = end + 1] /\ queue' = Tail(queue)
            /\ client' = AcceptAll(client, conn.next, end)
    BY DEF DeliverEvents, hostVars
<1>2. /\ Len(log) \in Nat /\ conn.next = k + 1 /\ k \in Nat /\ client \in ClientsTo(k) /\ Whole(client)
      /\ queue \in Seq(Items) /\ item.type \in {"event", "created"}
      /\ item.type = "event" => item.n \in 1..Len(log)
      /\ item.type = "created" => item.end \in 0..Len(log)
    BY <1>1, OpenFacts
<1>3. end \in 0..Len(log) /\ end \in Nat /\ ~Live(item, cut) /\ \A m \in Nat : m > end => ~Covers(item, m)
    <2>1. end = IF item.type = "event" THEN item.n ELSE item.end
        BY DEF Until
    <2>2. ~Live(item, cut)
        BY <1>1 DEF Live
    <2> HIDE DEF end, item
    <2> QED BY <1>2, <2>1, <2>2 DEF Covers
<1>4. StreamTracks' /\ Told(log', agent')
    BY <1>1 DEF OwnInv, StreamTracks
<1>5. CASE overtaken
    BY <1>1, <1>4, <1>5 DEF OwnInv
<1>6. CASE conn' = [Closed EXCEPT !.state = "failed"] /\ UNCHANGED client
    <2>1. conn'.state # "open"
        BY <1>6 DEF Closed
    <2> QED BY <1>1, <1>6, <2>1, OwnClosed
<1> SUFFICES ASSUME ~overtaken, ~(conn' = [Closed EXCEPT !.state = "failed"] /\ UNCHANGED client)
             PROVE  OwnInv'
    BY <1>5, <1>6
<1>7. /\ Owns(log, client) /\ Held(log, client) /\ Kept(log, client)
      /\ client.restart => Loose(log, agent)
      /\ Queued(queue, cut, client, agent, log)
    BY <1>1 DEF OwnInv, Joined
<1>8. Within(queue, cut, log)
    BY OwnFacts
<1>9. ASSUME client'.cursor \in Nat, k <= client'.cursor, client'.cursor = k \/ client'.cursor = end,
             end <= client'.cursor, client'.active = client.active, queue' = Tail(queue)
      PROVE  Queued(queue', cut, client', agent, log)
    <2>1. \A m \in Nat : m > client'.cursor => ~Covers(item, m)
        BY <1>3, <1>9
    <2>2. \A x, y \in Att(log) : (client.active.id # 0 => client.active = x) /\ Goes(log, x, item, y, cut) =>
              (client'.active.id # 0 => client'.active = y)
        BY <1>3, <1>9 DEF Goes
    <2>3. client'.cursor = k \/ (item.type # "frame" /\ client'.cursor = Until(item))
        BY <1>1, <1>9
    <2> HIDE DEF end, cut
    <2> DEFINE d == client'
    <2>4. d.cursor \in Nat /\ client.cursor <= d.cursor /\ client.cursor \in Nat
        BY <1>2, <1>9
    <2> HIDE DEF d
    <2>5. Queued(Tail(queue), cut, d, agent, log)
        BY <1>1, <1>2, <1>7, <1>8, <2>1, <2>2, <2>3, <2>4, QueuedTail DEF d
    <2> QED BY <1>9, <2>5 DEF d
<1>10. CASE end < conn.next /\ queue' = Tail(queue) /\ UNCHANGED <<conn, client>>
    <2>1. Queued(queue', cut, client', agent, log)
        BY <1>2, <1>3, <1>9, <1>10
    <2> QED BY <1>1, <1>4, <1>10, <2>1 DEF OwnInv
<1>11. CASE /\ ~(end < conn.next)
            /\ conn' = [conn EXCEPT !.next = end + 1] /\ queue' = Tail(queue)
            /\ client' = AcceptAll(client, conn.next, end)
    <2>0. k <= end /\ client' = AcceptAll(client, k + 1, end)
        BY <1>2, <1>3, <1>11
    <2>1. client' \in ClientsTo(end) /\ client'.active = client.active
        <3>1. LET d == AcceptAll(client, k + 1, end) IN d \in ClientsTo(end) /\ d.active = client.active
            <4> HIDE DEF end, k
            <4> QED BY <1>2, <1>3, <2>0, AllKept
        <3> QED BY <2>0, <3>1
    <2>2. /\ Owns(log, client') /\ Held(log, client') /\ client'.restart = client.restart
          /\ \/ /\ client'.retained = client.retained
                /\ client.retained.id # 0 =>
                       \A n \in k + 1 .. end : log[n] # Event("end", client.retained.step)
             \/ client'.retained = NoAttempt
        <3>1. LET d == AcceptAll(client, k + 1, end)
              IN  /\ Owns(log, d) /\ Held(log, d) /\ d.restart = client.restart
                  /\ \/ /\ d.retained = client.retained
                        /\ client.retained.id # 0 =>
                               \A n \in k + 1 .. end : log[n] # Event("end", client.retained.step)
                     \/ d.retained = NoAttempt
            <4> HIDE DEF end, k
            <4> QED BY <1>2, <1>3, <1>7, <2>0, AllOwned
        <3> QED BY <2>0, <3>1
    <2>3. client'.cursor = end
        BY <1>3, <2>1, ClientFields
    <2>4. Kept(log, client')
        <3>1. CASE client'.retained = NoAttempt
            BY <3>1 DEF Kept, NoAttempt
        <3>2. CASE /\ client'.retained = client.retained
                   /\ client.retained.id # 0 =>
                          \A n \in k + 1 .. end : log[n] # Event("end", client.retained.step)
            <4>1. \A n \in 1..end : n \in 1..k \/ n \in k + 1 .. end
                BY <1>2, <1>3
            <4>2. \A n \in 1..k : n \in 1..end
                BY <1>2, <1>3, <2>0
            <4> HIDE DEF end
            <4> QED BY <1>7, <2>3, <3>2, <4>1, <4>2 DEF Kept
        <3> QED BY <2>2, <3>1, <3>2
    <2>5. Joined(log, agent, client')
        BY <1>7, <2>2, <2>4 DEF Joined
    <2>6. Queued(queue', cut, client', agent, log)
        BY <1>3, <1>9, <1>11, <2>0, <2>1, <2>3
    <2>7. conn'.ordinalCut = cut
        <3>1. conn \in [state : {"closed", "registered", "observed", "open"}, cut : 0 .. Len(log),
                        next : 0 .. Len(log) + 1, ordinal : Nat, ordinalCut : Nat]
            BY DEF FollowInv, ConnTypes
        <3> QED BY <1>11, <3>1
    <2> QED BY <1>1, <1>4, <2>5, <2>6, <2>7 DEF OwnInv
<1> QED BY <1>1, <1>10, <1>11

(* A frame is taken out. *)
LEMMA OwnDeliverFrame ==
    ASSUME FollowInv, OwnInv, DeliverFrame
    PROVE  OwnInv'
<1> DEFINE item == Head(queue)
           f == item.frame
           cut == conn.ordinalCut
           k == client.cursor
           c == client
<1>1. /\ conn.state = "open" /\ queue # <<>> /\ item.type = "frame"
      /\ UNCHANGED <<log, agent, stream, overtaken>>
      /\ \/ item.ordinal <= cut /\ queue' = Tail(queue) /\ UNCHANGED <<conn, client>>
         \/ Disconnected /\ UNCHANGED client
         \/ /\ ~(item.ordinal <= cut)
            /\ queue' = Tail(queue) /\ UNCHANGED conn /\ client' = AcceptFrame(client, f)
    BY DEF DeliverFrame, hostVars
<1>2. /\ Len(log) \in Nat /\ k \in Nat /\ client \in ClientsTo(k) /\ Whole(client)
      /\ queue \in Seq(Items) /\ item = queue[1] /\ 1 \in DOMAIN queue /\ f \in Frames
    BY <1>1, OpenFacts
<1>3. item.ordinal \in Nat /\ cut \in Nat
    <2>1. queue[1].ordinal \in 1..conn.ordinal /\ conn.ordinal \in Nat /\ cut \in Nat
        BY <1>1, <1>2, QueueItems DEF FollowInv
    <2> QED BY <1>2, <2>1
<1>4. StreamTracks' /\ Told(log', agent')
    BY <1>1 DEF OwnInv, StreamTracks
<1>5. CASE overtaken
    BY <1>1, <1>4, <1>5 DEF OwnInv
<1>6. CASE Disconnected /\ UNCHANGED client
    <2>1. conn'.state # "open"
        BY <1>6 DEF Disconnected, Closed
    <2> QED BY <1>1, <1>6, <2>1, OwnClosed
<1> SUFFICES ASSUME ~overtaken, ~(Disconnected /\ UNCHANGED client)
             PROVE  OwnInv'
    BY <1>5, <1>6
<1>7. /\ Owns(log, c) /\ Held(log, c) /\ Kept(log, c) /\ Told(log, agent)
      /\ c.restart => Loose(log, agent)
      /\ Queued(queue, cut, c, agent, log)
    BY <1>1 DEF OwnInv, Joined
<1>8. Within(queue, cut, log)
    BY OwnFacts
<1>9. ASSUME client'.cursor = k, queue' = Tail(queue),
             \A x, y \in Att(log) : (c.active.id # 0 => c.active = x) /\ Goes(log, x, item, y, cut) =>
                 (client'.active.id # 0 => client'.active = y)
      PROVE  Queued(queue', cut, client', agent, log)
    <2>1. \A m \in Nat : ~Covers(item, m)
        BY <1>1 DEF Covers
    <2> HIDE DEF cut
    <2> DEFINE d == client'
    <2>2. d.cursor \in Nat /\ client.cursor <= d.cursor /\ client.cursor \in Nat /\ d.cursor = client.cursor
        BY <1>2, <1>9
    <2>3. \A x, y \in Att(log) : (c.active.id # 0 => c.active = x) /\ Goes(log, x, item, y, cut) =>
                 (d.active.id # 0 => d.active = y)
        BY <1>9
    <2> HIDE DEF d
    <2>4. Queued(Tail(queue), cut, d, agent, log)
        BY <1>1, <1>2, <1>7, <1>8, <2>1, <2>2, <2>3, QueuedTail
    <2> QED BY <1>9, <2>4 DEF d
<1>10. CASE item.ordinal <= cut /\ queue' = Tail(queue) /\ UNCHANGED <<conn, client>>
    <2>1. ~Live(item, cut)
        BY <1>3, <1>10 DEF Live
    <2>2. Queued(queue', cut, client', agent, log)
        BY <1>9, <1>10, <2>1 DEF Goes
    <2> QED BY <1>1, <1>4, <1>10, <2>2 DEF OwnInv
<1>11. CASE /\ ~(item.ordinal <= cut)
            /\ queue' = Tail(queue) /\ UNCHANGED conn /\ client' = AcceptFrame(client, f)
    <2> DEFINE d == AcceptFrame(c, f)
    <2>1. Live(item, cut) /\ f.type \in {"start", "chunk", "end"}
        BY <1>1, <1>2, <1>3, <1>11 DEF Live, Frames
    <2>2. /\ f.type = "start" => f.after \in 0..Len(log)
          /\ f.type = "end" => f.seq \in 0..Len(log)
        BY <1>2 DEF Frames
    <2>3. /\ f.type = "start" => k <= f.after /\ f.after <= k /\ Rested(log, agent, f.after)
          /\ f.type = "end" /\ f.seq # 0 => f.seq \in 1..k
        <3>1. PlacedAt(f, queue, 1, k) /\ (f.type = "start" => Rested(log, agent, f.after))
            BY <1>2, <1>7, <2>1 DEF Queued, Placed
        <3>2. 1..1 - 1 = {}
            OBVIOUS
        <3> HIDE DEF f, k
        <3>3. ASSUME f.type = "start" PROVE k <= f.after /\ f.after <= k
            <4>1. k <= f.after /\ \A m \in k + 1 .. f.after : FALSE
                BY <3>1, <3>2, <3>3 DEF PlacedAt
            <4>2. f.after \in Nat
                BY <1>2, <2>2, <3>3
            <4> QED BY <1>2, <4>1, <4>2
        <3>4. ASSUME f.type = "end", f.seq # 0 PROVE f.seq \in 1..k
            <4>1. f.seq <= k
                BY <3>1, <3>2, <3>4 DEF PlacedAt
            <4> QED BY <1>2, <2>2, <3>4, <4>1
        <3> QED BY <3>1, <3>3, <3>4
    <2>4. /\ c.active.id # 0 => OnlyLast(c) /\ (c.pending # {} => EndsAt(1, k, queue, cut))
          /\ c.pending \subseteq 1..k
        BY <1>1, OpenFacts, OwnFacts
    <2> HIDE DEF item, f, cut, c, d
    <2>5. ASSUME NEW x \in Att(log), NEW y \in Att(log),
                 c.active.id # 0 => c.active = x, Goes(log, x, item, y, cut)
          PROVE  /\ Owns(log, d)
                 /\ d.active.id # 0 => d.active = y
                 /\ d.restart # c.restart => f.type = "start" /\ c.retained.id # 0
                 /\ \/ d.retained = c.retained
                    \/ /\ f.type = "end" /\ c.active.id # 0 /\ f.seq # 0 /\ f.seq = k
                       /\ d.retained = c.active
                       /\ log[f.seq].type = "message" /\ log[f.seq].step = c.active.step
        <3>1. ASSUME f.type = "end", c.active.id # 0
              PROVE  IF f.seq = 0 THEN c.pending = {} ELSE f.seq \in c.pending
            <4>1. CASE f.seq = 0
                <5>1. ASSUME c.pending # {} PROVE FALSE
                    <6>1. k \in c.pending /\ f.seq = k
                        BY <1>2, <2>4, <3>1, <5>1 DEF OnlyLast, EndsAt, f, c
                    <6> QED BY <1>2, <2>4, <4>1, <6>1
                <5> QED BY <4>1, <5>1
            <4>2. CASE f.seq # 0
                <5>1. SettledBy(log, f.seq, x)
                    BY <2>1, <3>1, <4>2, <2>5 DEF Goes, f
                <5> QED BY <1>7, <2>3, <2>5, <3>1, <4>2, <5>1 DEF Held, c
            <4> QED BY <4>1, <4>2
        <3>2. item.frame = f /\ c \in ClientsTo(k)
            BY <1>2 DEF f, c
        <3> HIDE DEF k
        <3> QED BY <1>2, <1>7, <2>1, <2>4, <2>5, <3>1, <3>2, FrameOwns DEF d
    <2>6. PICK x \in Att(log), y \in Att(log) :
              (c.active.id # 0 => c.active = x) /\ Goes(log, x, item, y, cut)
        <3>1. Tracked(queue, cut, c.active, agent, log)
            BY <1>7 DEF Queued
        <3> QED BY <1>1, <1>2, <3>1, TrackedTail DEF item
    <2>7. /\ Owns(log, d)
          /\ d.active.id # 0 => d.active = y
          /\ d.restart # c.restart => f.type = "start" /\ c.retained.id # 0
          /\ \/ d.retained = c.retained
             \/ /\ f.type = "end" /\ c.active.id # 0 /\ f.seq # 0 /\ f.seq = k
                /\ d.retained = c.active
                /\ log[f.seq].type = "message" /\ log[f.seq].step = c.active.step
        BY <2>5, <2>6
    <2>8. /\ d \in ClientsTo(k)
          /\ f.type = "chunk" => d.pending = c.pending /\ d.active.id = c.active.id
        BY <1>2, FrameKeeps DEF d, c
    <2>9. d.cursor = k /\ c.cursor = k
        BY <1>2, <2>8, ClientFields DEF c
    <2>10. Held(log, d)
        <3> SUFFICES ASSUME NEW n \in 1..k, SettledBy(log, n, d.active) PROVE n \in d.pending
            BY <2>9 DEF Held
        <3>1. d.active.id # 0 /\ d.active = y /\ n > y.after /\ n \in Nat
            BY <1>2, <2>7 DEF SettledBy
        <3>2. CASE f.type = "start"
            <4>1. y.after = f.after
                BY <2>1, <2>6, <3>2 DEF Goes, f
            <4>2. n <= k /\ f.after \in Nat
                BY <1>2, <2>2, <3>2
            <4> QED BY <1>2, <2>3, <3>1, <3>2, <4>1, <4>2
        <3>3. CASE f.type = "chunk"
            <4>1. y = [x EXCEPT !.next = f.index]
                BY <2>1, <2>6, <3>3 DEF Goes, f
            <4>2. y.id = x.id /\ y.after = x.after /\ y.step = x.step
                BY <4>1 DEF Att
            <4>3. c.active = x /\ c.active.id # 0
                BY <2>6, <2>8, <3>1, <3>3
            <4>4. SettledBy(log, n, c.active)
                BY <3>1, <4>2, <4>3 DEF SettledBy
            <4> QED BY <1>7, <2>8, <2>9, <3>3, <4>4 DEF Held
        <3>4. CASE f.type = "end"
            <4>1. y = NoAttempt
                BY <2>1, <2>6, <3>4 DEF Goes, f
            <4> QED BY <3>1, <4>1 DEF NoAttempt
        <3> QED BY <2>1, <3>2, <3>3, <3>4
    <2>11. Kept(log, d)
        <3>1. CASE d.retained = c.retained
            BY <1>7, <2>9, <3>1 DEF Kept
        <3>2. CASE /\ f.seq # 0 /\ f.seq = k /\ d.retained = c.active /\ f.type = "end"
                   /\ log[f.seq].type = "message" /\ log[f.seq].step = c.active.step
            <4>1. k \in 1..k /\ k \in DOMAIN log /\ 1..k \subseteq DOMAIN log
                BY <1>2, <2>3, <3>2, OwnFacts
            <4>2. log[k] = Event("message", c.active.step)
                <5>1. log[k] = Event(log[k].type, log[k].step)
                    BY <4>1, OwnFacts, EventsAre
                <5>2. log[k].type = "message" /\ log[k].step = c.active.step
                    BY <3>2
                <5> QED BY <5>1, <5>2
            <4>3. ASSUME NEW n \in 1..k, log[n] = Event("end", c.active.step) PROVE FALSE
                <5>1. k < n
                    BY <1>7, <3>2, <4>1, <4>3 DEF Told, Settlements
                <5> QED BY <1>2, <5>1
            <4> QED BY <2>9, <3>2, <4>1, <4>2, <4>3 DEF Kept
        <3> QED BY <2>7, <3>1, <3>2
    <2>12. d.restart => Loose(log, agent)
        <3> SUFFICES ASSUME d.restart # c.restart PROVE Loose(log, agent)
            BY <1>7
        <3>1. f.type = "start" /\ c.retained.id # 0
            BY <2>7
        <3>2. f.after = k
            BY <1>2, <2>2, <2>3, <3>1
        <3>3. PICK n \in 1..k : log[n] = Event("message", c.retained.step)
            BY <1>7, <2>9, <3>1 DEF Kept
        <3>4. log[n].type = "message" /\ log[n].step = c.retained.step
            BY <3>3, OwnFacts, EventsAre
        <3>5. \A e \in 1..k : log[e] # Event("end", c.retained.step)
            BY <1>7, <2>9, <3>1 DEF Kept
        <3> QED BY <2>3, <3>1, <3>2, <3>4, <3>5 DEF Rested
    <2>13. Joined(log, agent, d)
        BY <2>7, <2>10, <2>11, <2>12 DEF Joined
    <2>14. client' = d
        BY <1>11 DEF d, c
    <2>15. Queued(queue', cut, client', agent, log)
        BY <1>9, <1>11, <2>5, <2>9, <2>14
    <2>16. conn'.ordinalCut = cut
        BY <1>11 DEF cut
    <2> QED BY <1>1, <1>4, <2>13, <2>14, <2>15, <2>16 DEF OwnInv
<1> QED BY <1>1, <1>10, <1>11

(* Every step keeps the second invariant where the first one holds. *)
LEMMA OwnKeeps ==
    ASSUME FollowInv, OwnInv, [Next]_vars
    PROVE  OwnInv'
<1>1. CASE Host
    BY <1>1, OwnHostKeeps DEF Host
<1>2. CASE Connect \/ Observe
    <2>1. /\ UNCHANGED <<log, agent, stream, client, overtaken>>
          /\ \/ conn' = [Closed EXCEPT !.state = "registered"]
             \/ conn' = [conn EXCEPT !.state = "observed", !.cut = Len(log)]
        BY <1>2 DEF Connect, Observe, hostVars
    <2>2. conn'.state # "open"
        <3>1. conn \in [state : {"closed", "registered", "observed", "open"}, cut : 0 .. Len(log),
                        next : 0 .. Len(log) + 1, ordinal : Nat, ordinalCut : Nat]
            BY DEF FollowInv, ConnTypes
        <3>2. Closed \in [state : {"closed"}, cut : {0}, next : {0}, ordinal : {0}, ordinalCut : {0}]
            BY DEF Closed
        <3> QED BY <2>1, <3>1, <3>2
    <2> QED BY <2>1, <2>2, OwnClosed
<1>3. CASE Restart \/ LoseCarrier \/ Reload
    <2>1. /\ UNCHANGED <<log, agent, overtaken>> /\ stream' \in {stream, NoStream} /\ conn' = Closed
          /\ client' \in {client, [client EXCEPT !.restart = FALSE]}
        BY <1>3 DEF Restart, LoseCarrier, Reload, Disconnected, hostVars
    <2>2. conn'.state # "open"
        BY <2>1 DEF Closed
    <2> QED BY <2>1, <2>2, OwnClosed
<1>4. CASE UNCHANGED vars
    <2>1. UNCHANGED <<log, agent, stream, conn, queue, client, overtaken>>
        BY <1>4 DEF vars, hostVars
    <2> QED BY <2>1, OwnAlone DEF OwnInv
<1> QED BY <1>1, <1>2, <1>3, <1>4, OwnOpen, OwnDeliverEvents, OwnDeliverFrame DEF Next, Follow

(* What the frames that wait, the attempt of the agent and the log make of the
   attempt that a client has, in every state. *)
THEOREM OwnInvariant == Spec => []OwnInv
<1>1. Init => OwnInv
    BY OwnStarts
<1>2. FollowInv /\ OwnInv /\ [Next]_vars => OwnInv'
    BY OwnKeeps
<1> QED BY <1>1, <1>2, FollowInvariant, PTL DEF Spec

(* Who owns the transient rows follows. *)
LEMMA InvOwned ==
    ASSUME OwnInv
    PROVE  TransientsOwned
<1> SUFFICES ASSUME ~overtaken PROVE TransientsOwned
    BY DEF TransientsOwned
<1>1. Owns(log, client) /\ (client.restart => Loose(log, agent))
    BY DEF OwnInv, Joined
<1>2. CASE client.restart
    BY <1>1, <1>2 DEF TransientsOwned, Loose, Unclosed
<1>3. CASE ~client.restart
    <2>1. \A i \in ChunkRows : client.rows[i].id \in {client.active.id, client.retained.id}
        BY <1>1 DEF Owns, ChunkRows
    <2>2. \A n \in client.pending : Settles(n, client.active)
        BY <1>1 DEF Owns, Settles, SettledBy
    <2> QED BY <1>1, <1>3, <2>1, <2>2 DEF TransientsOwned, Owns
<1> QED BY <1>2, <1>3

(* No row of a streaming answer outlives its attempt or stands beside the settlement
   that repeats it, no settlement stays back without an attempt that releases it, and
   a client that joined in the middle of an attempt asks for a second opening only
   where the log lacks the end of a step: TransientsOwned. *)
THEOREM RowsAreOwned == Spec => []TransientsOwned
<1>1. OwnInv => TransientsOwned
    BY InvOwned
<1> QED BY <1>1, OwnInvariant, PTL
=============================================================================
