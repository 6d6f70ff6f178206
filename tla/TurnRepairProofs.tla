--------------------------- MODULE TurnRepairProofs ---------------------------
(***************************************************************************)
(* Proof that every repair of a session log is sound, for every number of  *)
(* turns, steps, calls and crashes.                                        *)
(*                                                                         *)
(* A crash may keep any part of a log from its start, and repair scans it  *)
(* from nothing.  So the invariant is about every part (Sound): what the   *)
(* scan of the part finds open is what its events leave open, and the      *)
(* calls it holds are the requested ones without a result.  Follows says   *)
(* which events may come next, SoundOn that the part with one of them is   *)
(* sound.  The events of the live writer may follow, because the scan      *)
(* agrees with it (LiveInv); the first closer of a repair may follow, and  *)
(* the closers of the log with it are the others (ClosersStep), so         *)
(* by induction every part of a repair is sound and is repaired to the     *)
(* same log (Mends).  A sound log with no turn open is balanced.           *)
(***************************************************************************)
EXTENDS TurnRepair, WellFoundedInduction, FiniteSetTheorems, SequenceTheorems, TLAPS

-----------------------------------------------------------------------------
(* Induction over a number, on a set. *)

(* Every set of numbers that is not empty has a least one. *)
LEMMA Least ==
    ASSUME NEW T \in SUBSET Nat, T # {}
    PROVE  \E m \in T : \A k \in T : m <= k
<1> DEFINE R == OpToRel(<, Nat)
<1>1. IsWellFoundedOn(R, Nat)
    BY NatLessThanWellFounded
<1>2. R = {p \in Nat \X Nat : p[1] < p[2]}
    BY DEF OpToRel
<1> HIDE DEF R
<1>3. PICK m \in T : \A k \in T : <<k, m>> \notin R
    BY <1>1, WFMin
<1>4. \A k \in T : <<k, m>> \in Nat \X Nat
    OBVIOUS
<1>5. \A k \in T : ~(k < m)
    BY <1>2, <1>3, <1>4
<1> QED BY <1>5

(* What holds at the start and goes on from each number to the next holds up
   to n. *)
LEMMA UpTo ==
    ASSUME NEW m \in Int, NEW n \in Int, m <= n, NEW S \in SUBSET (m..n),
           m \in S, \A k \in m..(n - 1) : k \in S => k + 1 \in S
    PROVE  S = m..n
<1> SUFFICES ASSUME S # m..n PROVE FALSE
    OBVIOUS
<1> DEFINE T == {k \in Nat : m + k \in (m..n) \ S}
<1>0. (m..n) \ S # {}
    OBVIOUS
<1>1. PICK k \in (m..n) \ S : TRUE
    BY <1>0
<1>2. k - m \in T
    BY <1>1
<1>3. PICK l \in T : \A j \in T : l <= j
    BY <1>2, Least
<1>4. l \in Nat /\ m + l \in m..n /\ m + l \notin S
    BY <1>3
<1>5. l # 0
    BY <1>4
<1>6. l - 1 \in Nat /\ l - 1 \notin T
    <2> HIDE DEF T
    <2> QED BY <1>3, <1>4, <1>5
<1>7. m + (l - 1) \in m..(n - 1) /\ m + (l - 1) \in S
    BY <1>4, <1>5, <1>6
<1>8. (m + (l - 1)) + 1 \in S
    BY <1>7
<1> QED BY <1>4, <1>8

-----------------------------------------------------------------------------
(* Sequences. *)

(* A sequence, of whatever elements. *)
SeqLike(q) == q \in Seq(Range(q))

(* A sequence of anything is indexed by 1 to its length. *)
LEMMA LikeSeq ==
    ASSUME NEW S, NEW q \in Seq(S)
    PROVE  SeqLike(q) /\ Len(q) \in Nat /\ DOMAIN q = 1..Len(q)
<1>1. q \in [1..Len(q) -> S] /\ Len(q) \in Nat
    OBVIOUS
<1>2. q \in [1..Len(q) -> Range(q)]
    BY <1>1 DEF Range
<1> QED BY <1>1, <1>2 DEF SeqLike

(* Sequences of one length and equal elements are equal. *)
LEMMA SameSeq ==
    ASSUME NEW a, NEW b, SeqLike(a), SeqLike(b), Len(a) = Len(b),
           \A i \in 1..Len(a) : a[i] = b[i]
    PROVE  a = b
<1> DEFINE S == Range(a) \cup Range(b)
<1>1. a \in Seq(S) /\ b \in Seq(S)
    BY DEF SeqLike
<1> HIDE DEF S
<1> QED BY <1>1

(* A concatenation is a sequence, first the one part, then the other. *)
LEMMA LikeConcat ==
    ASSUME NEW a, NEW b, SeqLike(a), SeqLike(b)
    PROVE  /\ SeqLike(a \o b) /\ Len(a \o b) = Len(a) + Len(b)
           /\ \A i \in 1..Len(a) : (a \o b)[i] = a[i]
           /\ \A i \in 1..Len(b) : (a \o b)[Len(a) + i] = b[i]
           /\ Len(a) \in Nat /\ Len(b) \in Nat
           /\ DOMAIN a = 1..Len(a) /\ DOMAIN b = 1..Len(b) /\ DOMAIN (a \o b) = 1..(Len(a) + Len(b))
<1> DEFINE S == Range(a) \cup Range(b)
<1>1. a \in Seq(S) /\ b \in Seq(S)
    BY DEF SeqLike
<1> HIDE DEF S
<1>2. a \o b \in Seq(S) /\ Len(a \o b) = Len(a) + Len(b)
    BY <1>1
<1>3. SeqLike(a \o b)
    BY <1>2, LikeSeq
<1>4. /\ \A i \in 1..Len(a) : (a \o b)[i] = a[i]
      /\ \A i \in 1..Len(b) : (a \o b)[Len(a) + i] = b[i]
    BY <1>1
<1> QED BY <1>1, <1>2, <1>3, <1>4

(* So is a sequence with one element more. *)
LEMMA LikeAppend ==
    ASSUME NEW a, NEW e, SeqLike(a)
    PROVE  /\ SeqLike(Append(a, e)) /\ Len(Append(a, e)) = Len(a) + 1
           /\ \A i \in 1..Len(a) : Append(a, e)[i] = a[i]
           /\ Append(a, e)[Len(a) + 1] = e
           /\ Len(a) \in Nat /\ DOMAIN a = 1..Len(a) /\ DOMAIN Append(a, e) = 1..(Len(a) + 1)
<1> DEFINE S == Range(a) \cup {e}
<1>1. a \in Seq(S) /\ e \in S
    BY DEF SeqLike
<1> HIDE DEF S
<1>2. Append(a, e) \in Seq(S) /\ Len(Append(a, e)) = Len(a) + 1
    BY <1>1
<1>3. SeqLike(Append(a, e))
    BY <1>2, LikeSeq
<1> QED BY <1>1, <1>2, <1>3

-----------------------------------------------------------------------------
(* The scan, event by event. *)

(* A log and the same with one event more. *)
OneMore(l, m, e) ==
    /\ SeqLike(l) /\ SeqLike(m) /\ Len(m) = Len(l) + 1
    /\ \A i \in 1..Len(l) : m[i] = l[i]
    /\ m[Len(l) + 1] = e

(* Where the places of the longer one are. *)
LEMMA OneMorePlaces ==
    ASSUME NEW l, NEW m, NEW e, OneMore(l, m, e)
    PROVE  \E n \in Nat : /\ n = Len(l) /\ Len(m) = n + 1 /\ m[n + 1] = e
                          /\ \A i \in 1..n : m[i] = l[i]
                          /\ 1..Len(l) = 1..n /\ 1..Len(m) = 1..(n + 1)
                          /\ \A i \in 1..(n + 1) : i \in 1..n \/ i = n + 1
                          /\ \A i \in 1..n : i \in 1..(n + 1) /\ i # n + 1
<1>1. Len(l) \in Nat
    BY LikeSeq DEF OneMore, SeqLike
<1>2. PICK n \in Nat : n = Len(l)
    BY <1>1
<1>3. Len(m) = n + 1
    BY <1>2 DEF OneMore
<1>4. m[n + 1] = e /\ \A i \in 1..n : m[i] = l[i]
    BY <1>2 DEF OneMore
<1> QED BY <1>2, <1>3, <1>4

(* f[k] is the scan of the first k events. *)
Scans(l, n, f) ==
    /\ f = [k \in 0..n |-> f[k]] /\ f[0] = Idle
    /\ \A k \in 1..n : f[k] = Observe(f[k - 1], l[k])

(* Such a function exists. *)
LEMMA ScansExist ==
    ASSUME NEW l, NEW n \in Nat
    PROVE  \E f : Scans(l, n, f)
<1> DEFINE S == {m \in 0..n : \E f : Scans(l, m, f)}
<1>1. 0 \in S
    <2> DEFINE f == [k \in 0..0 |-> Idle]
    <2>1. Scans(l, 0, f)
        BY DEF Scans
    <2> QED BY <2>1
<1>2. ASSUME NEW m \in 0..(n - 1), m \in S
      PROVE  m + 1 \in S
    <2>1. PICK f : Scans(l, m, f)
        BY <1>2
    <2> DEFINE next == Observe(f[m], l[m + 1])
               g == [k \in 0..(m + 1) |-> IF k = m + 1 THEN next ELSE f[k]]
    <2>2. /\ g = [k \in 0..(m + 1) |-> g[k]]
          /\ g[m + 1] = next /\ \A k \in 0..m : g[k] = f[k]
        OBVIOUS
    <2> HIDE DEF g
    <2>3. \A k \in 1..(m + 1) : k = m + 1 \/ (k \in 1..m /\ k \in 0..m /\ k - 1 \in 0..m)
        OBVIOUS
    <2>4. g[0] = Idle /\ g[m] = f[m] /\ (m + 1) - 1 = m
        <3>1. 0 \in 0..m /\ m \in 0..m /\ (m + 1) - 1 = m
            OBVIOUS
        <3>2. f[0] = Idle
            BY <2>1 DEF Scans
        <3> QED BY <3>1, <3>2, <2>2
    <2>5. ASSUME NEW k \in 1..(m + 1)
          PROVE  g[k] = Observe(g[k - 1], l[k])
        <3>1. CASE k = m + 1
            BY <3>1, <2>2, <2>4
        <3>2. CASE k \in 1..m /\ k \in 0..m /\ k - 1 \in 0..m
            BY <3>2, <2>1, <2>2 DEF Scans
        <3> QED BY <3>1, <3>2, <2>3
    <2>6. Scans(l, m + 1, g)
        BY <2>2, <2>4, <2>5 DEF Scans
    <2> QED BY <2>6
<1>3. S = 0..n
    <2> HIDE DEF S
    <2>1. S \in SUBSET (0..n)
        BY DEF S
    <2> QED BY <1>1, <1>2, <2>1, UpTo
<1> QED BY <1>3

(* Scan is the last of them. *)
LEMMA ScanSteps ==
    ASSUME NEW l, Len(l) \in Nat
    PROVE  \E f : Scans(l, Len(l), f) /\ Scan(l) = f[Len(l)]
<1> DEFINE n == Len(l)
           step(f) == [k \in 0..n |->
               IF k = 0 THEN Idle
               ELSE CHOOSE s \in {Observe(before, l[k]) : before \in {f[k - 1]}} : TRUE]
           F == CHOOSE f : f = step(f)
<1>0. ASSUME NEW d, NEW e
      PROVE  (CHOOSE s \in {Observe(before, e) : before \in {d}} : TRUE) = Observe(d, e)
    <2>1. {Observe(before, e) : before \in {d}} = {Observe(d, e)}
        OBVIOUS
    <2> QED BY <2>1
<1>1. PICK g : Scans(l, n, g)
    BY ScansExist
<1>2. g = step(g)
    <2>1. \A k \in 0..n : g[k] = step(g)[k]
        <3> SUFFICES ASSUME NEW k \in 0..n PROVE g[k] = step(g)[k]
            OBVIOUS
        <3>1. CASE k = 0
            BY <3>1, <1>1 DEF Scans
        <3>2. CASE k \in 1..n
            <4>1. g[k] = Observe(g[k - 1], l[k])
                BY <3>2, <1>1 DEF Scans
            <4>2. step(g)[k] = CHOOSE s \in {Observe(before, l[k]) : before \in {g[k - 1]}} : TRUE
                BY <3>2
            <4> QED BY <4>1, <4>2, <1>0
        <3> QED BY <3>1, <3>2
    <2>2. g = [k \in 0..n |-> g[k]]
        BY <1>1 DEF Scans
    <2>3. step(g) = [k \in 0..n |-> step(g)[k]]
        OBVIOUS
    <2> HIDE DEF step, n
    <2>4. [k \in 0..n |-> g[k]] = [k \in 0..n |-> step(g)[k]]
        BY <2>1
    <2> QED BY <2>2, <2>3, <2>4
<1>3. F = step(F)
    <2> HIDE DEF step
    <2> QED BY <1>2
<1>4. Scan(l) = F[n]
    BY DEF Scan
<1> HIDE DEF F
<1>5. \A k \in 0..n : F[k] = IF k = 0 THEN Idle
            ELSE CHOOSE s \in {Observe(before, l[k]) : before \in {F[k - 1]}} : TRUE
    BY <1>3
<1>6. F = [k \in 0..n |-> F[k]]
    BY <1>3
<1>7. F[0] = Idle
    BY <1>5
<1>8. ASSUME NEW k \in 1..n PROVE F[k] = Observe(F[k - 1], l[k])
    <2>1. F[k] = CHOOSE s \in {Observe(before, l[k]) : before \in {F[k - 1]}} : TRUE
        BY <1>5
    <2> QED BY <2>1, <1>0
<1>9. Scans(l, n, F)
    BY <1>6, <1>7, <1>8 DEF Scans
<1> QED BY <1>4, <1>9

(* Scans of two logs, of which the one goes on where the other ends. *)
ScannedAlike(l, m, n, f, g) ==
    /\ Scans(l, n, f) /\ Scans(m, n + 1, g) /\ \A i \in 1..n : l[i] = m[i]

(* What a log begins with is scanned alike. *)
LEMMA ScansSame ==
    ASSUME NEW l, NEW m, NEW n \in Nat, NEW f, NEW g,
           ScannedAlike(l, m, n, f, g)
    PROVE  f[n] = g[n]
<1> DEFINE S == {k \in 0..n : f[k] = g[k]}
<1>1. 0 \in S
    BY DEF Scans, ScannedAlike
<1>2. ASSUME NEW k \in 0..(n - 1), k \in S PROVE k + 1 \in S
    <2>1. k + 1 \in 1..n /\ k + 1 \in 1..(n + 1) /\ (k + 1) - 1 = k /\ k + 1 \in 0..n
        OBVIOUS
    <2>2. f[k + 1] = Observe(f[k], l[k + 1]) /\ g[k + 1] = Observe(g[k], m[k + 1])
        BY <2>1 DEF Scans, ScannedAlike
    <2>3. f[k] = g[k]
        BY <1>2
    <2>4. f[k + 1] = g[k + 1]
        BY <2>2, <2>3, <2>1 DEF ScannedAlike
    <2> QED BY <2>1, <2>4
<1>3. S = 0..n
    <2> HIDE DEF S
    <2>1. S \in SUBSET (0..n)
        BY DEF S
    <2> QED BY <1>1, <1>2, <2>1, UpTo
<1> QED BY <1>3

(* One event more is observed by the scan of those before. *)
LEMMA ScanOn ==
    ASSUME NEW l, NEW m, NEW e, OneMore(l, m, e)
    PROVE  Scan(m) = Observe(Scan(l), e)
<1>1. PICK n \in Nat : /\ n = Len(l) /\ Len(m) = n + 1 /\ m[n + 1] = e
                       /\ \A i \in 1..n : m[i] = l[i]
    BY OneMorePlaces
<1>2. PICK f : Scans(l, n, f) /\ Scan(l) = f[n]
    BY <1>1, ScanSteps
<1>3. PICK g : Scans(m, n + 1, g) /\ Scan(m) = g[n + 1]
    <2>1. Len(m) \in Nat
        BY <1>1
    <2> QED BY <1>1, <2>1, ScanSteps
<1>4. f[n] = g[n]
    <2>1. ScannedAlike(l, m, n, f, g)
        BY <1>1, <1>2, <1>3 DEF ScannedAlike
    <2> QED BY <2>1, ScansSame
<1>5. g[n + 1] = Observe(g[n], m[n + 1])
    <2>1. n + 1 \in 1..(n + 1) /\ (n + 1) - 1 = n
        OBVIOUS
    <2> QED BY <1>3, <2>1 DEF Scans
<1> QED BY <1>1, <1>2, <1>3, <1>4, <1>5

(* Nothing is open in an empty log. *)
LEMMA ScanNone == Scan(<<>>) = Idle
<1>1. Len(<<>>) = 0
    OBVIOUS
<1>2. PICK f : Scans(<<>>, 0, f) /\ Scan(<<>>) = f[0]
    BY <1>1, ScanSteps
<1> QED BY <1>2 DEF Scans

-----------------------------------------------------------------------------
(* What one event makes of a scan. *)

At(turn, step, pending) == [turn |-> turn, step |-> step, pending |-> pending]

(* The scan moves as its events say. *)
LEMMA ObserveIs ==
    ASSUME NEW s, NEW e, s = At(s.turn, s.step, s.pending)
    PROVE  /\ e.type = "turn/start" => Observe(s, e) = At(e.turn, 0, <<>>)
           /\ e.type = "turn/end" => Observe(s, e) = At(0, 0, <<>>)
           /\ e.type = "step/start" => Observe(s, e) = At(s.turn, e.step, s.pending)
           /\ e.type = "step/end" => Observe(s, e) = At(s.turn, 0, <<>>)
           /\ e.type = "assistant/message" =>
                 Observe(s, e) = At(s.turn, s.step, s.pending \o Requested(e))
           /\ e.type = "tool/call" => Observe(s, e) = At(s.turn, s.step, Marked(s.pending, e))
           /\ e.type = "tool/result" =>
                 Observe(s, e) = At(s.turn, s.step, Unanswered(s.pending, e))
           /\ e.type = "session/end-seed" => Observe(s, e) = s
<1>1. ASSUME NEW x PROVE /\ [s EXCEPT !.step = x] = At(s.turn, x, s.pending)
                         /\ [s EXCEPT !.pending = x] = At(s.turn, s.step, x)
    BY DEF At
<1>3. e.type = "turn/start" => Observe(s, e) = At(e.turn, 0, <<>>)
    BY DEF Observe, At
<1>4. e.type = "turn/end" => Observe(s, e) = At(0, 0, <<>>)
    BY DEF Observe, At
<1>5. e.type = "step/start" => Observe(s, e) = At(s.turn, e.step, s.pending)
    BY <1>1 DEF Observe
<1>6. e.type = "step/end" => Observe(s, e) = At(s.turn, 0, <<>>)
    BY DEF Observe, At
<1>7. e.type = "assistant/message" =>
          Observe(s, e) = At(s.turn, s.step, s.pending \o Requested(e))
    BY <1>1 DEF Observe
<1>8. e.type = "tool/call" => Observe(s, e) = At(s.turn, s.step, Marked(s.pending, e))
    BY <1>1 DEF Observe
<1>9. e.type = "tool/result" => Observe(s, e) = At(s.turn, s.step, Unanswered(s.pending, e))
    BY <1>1 DEF Observe
<1>10. e.type = "session/end-seed" => Observe(s, e) = s
    BY DEF Observe
<1> QED BY <1>3, <1>4, <1>5, <1>6, <1>7, <1>8, <1>9, <1>10

(* The places behind the first. *)
Rest(p, q) ==
    /\ SeqLike(q) /\ Len(q) = Len(p) - 1
    /\ \A k \in 1..(Len(p) - 1) : q[k] = p[k + 1]

OnlyFirst(p, e) ==
    /\ SeqLike(p) /\ p # <<>> /\ Answered(p[1], e)
    /\ \A k \in 2..Len(p) : ~Answered(p[k], e)

(* A result that answers the first of the calls leaves the others. *)
LEMMA UnansweredHead ==
    ASSUME NEW p, NEW e, OnlyFirst(p, e)
    PROVE  Rest(p, Unanswered(p, e))
<1> DEFINE n == Len(p)
           step(f) == [k \in 0..n |->
               IF k = 0 THEN <<>>
               ELSE IF Answered(p[k], e) THEN f[k - 1] ELSE Append(f[k - 1], p[k])]
           g == [k \in 0..n |-> IF k = 0 THEN <<>> ELSE SubSeq(p, 2, k)]
           F == CHOOSE f : f = step(f)
           M == Range(p)
<1>1. p \in Seq(M) /\ n \in Nat /\ n # 0
    BY DEF OnlyFirst, SeqLike
<1>2. SubSeq(p, 2, 1) = <<>>
    BY <1>1
<1>3. ASSUME NEW k \in 2..n PROVE Append(SubSeq(p, 2, k - 1), p[k]) = SubSeq(p, 2, k)
    BY <1>1
<1>4. Answered(p[1], e) /\ \A k \in 2..n : ~Answered(p[k], e)
    BY DEF OnlyFirst
<1> HIDE DEF M, n
<1>5. ASSUME NEW k \in 0..n
      PROVE  g[k] = IF k = 0 THEN <<>>
                    ELSE IF Answered(p[k], e) THEN g[k - 1] ELSE Append(g[k - 1], p[k])
    <2>1. CASE k = 0
        BY <2>1
    <2>2. CASE k = 1
        <3>1. g[1] = <<>> /\ g[0] = <<>> /\ k - 1 = 0
            BY <1>1, <1>2, <2>2
        <3> QED BY <3>1, <1>4, <2>2
    <2>3. CASE k \in 2..n
        <3>1. k # 0 /\ ~Answered(p[k], e)
            BY <1>4, <2>3
        <3>2. g[k] = SubSeq(p, 2, k)
            BY <2>3
        <3>3. g[k - 1] = SubSeq(p, 2, k - 1)
            <4>1. k - 1 \in 0..n /\ k - 1 # 0
                BY <1>1, <2>3
            <4> QED BY <4>1
        <3> HIDE DEF g
        <3> QED BY <3>1, <3>2, <3>3, <1>3, <2>3
    <2> QED BY <1>1, <2>1, <2>2, <2>3
<1>6. g = step(g)
    <2>1. g = [k \in 0..n |-> g[k]]
        OBVIOUS
    <2> HIDE DEF g
    <2> QED BY <1>5, <2>1
<1>7. F = step(F)
    <2> HIDE DEF step, g
    <2> QED BY <1>6
<1>8. Unanswered(p, e) = F[n]
    BY DEF Unanswered, n
<1> HIDE DEF F
<1>9. \A k \in 0..n : F[k] = IF k = 0 THEN <<>>
            ELSE IF Answered(p[k], e) THEN F[k - 1] ELSE Append(F[k - 1], p[k])
    BY <1>7
<1>10. \A k \in 1..n : F[k] = SubSeq(p, 2, k)
    <2> DEFINE S == {k \in 1..n : F[k] = SubSeq(p, 2, k)}
    <2>1. 1 \in S
        <3>1. F[1] = F[0] /\ F[0] = <<>>
            <4>1. 0 \in 0..n /\ 1 \in 0..n /\ 1 - 1 = 0
                BY <1>1
            <4> QED BY <4>1, <1>4, <1>9
        <3>2. F[1] = SubSeq(p, 2, 1) /\ 1 \in 1..n
            BY <3>1, <1>1, <1>2
        <3> QED BY <3>2
    <2>2. ASSUME NEW k \in 1..(n - 1), k \in S PROVE k + 1 \in S
        <3>1. k + 1 \in 2..n /\ k + 1 \in 0..n /\ (k + 1) - 1 = k /\ k + 1 # 0 /\ k + 1 \in 1..n
            BY <1>1
        <3>2. F[k + 1] = Append(F[k], p[k + 1])
            BY <3>1, <1>4, <1>9
        <3>3. F[k] = SubSeq(p, 2, k)
            BY <2>2
        <3>4. Append(SubSeq(p, 2, k), p[k + 1]) = SubSeq(p, 2, k + 1)
            BY <1>3, <3>1
        <3>5. F[k + 1] = SubSeq(p, 2, k + 1)
            BY <3>2, <3>3, <3>4
        <3> QED BY <3>1, <3>5
    <2>3. S \in SUBSET (1..n) /\ 1 <= n
        BY <1>1
    <2> HIDE DEF S
    <2>4. S = 1..n
        BY <1>1, <2>1, <2>2, <2>3, UpTo
    <2> QED BY <2>4 DEF S
<1>11. Unanswered(p, e) = SubSeq(p, 2, n)
    BY <1>1, <1>8, <1>10
<1>12. SubSeq(p, 2, n) \in Seq(M) /\ Len(SubSeq(p, 2, n)) = n - 1
    <2>1. n = Len(p)
        BY DEF n
    <2>2. CASE n = 1
        BY <1>1, <1>2, <2>2
    <2>3. CASE 2 <= n
        BY <1>1, <2>1, <2>3
    <2> QED BY <1>1, <2>2, <2>3
<1>13. \A k \in 1..(n - 1) : SubSeq(p, 2, n)[k] = p[k + 1]
    BY <1>1
<1>14. SeqLike(SubSeq(p, 2, n))
    BY <1>12, LikeSeq
<1> QED BY <1>11, <1>12, <1>13, <1>14 DEF Rest, n

-----------------------------------------------------------------------------
(* What may follow a sound log. *)

StartsTurn(l, s, e) == e.type = "turn/start" /\ s.turn = 0 /\ e.turn = Count(l, "turn/start") + 1
EndsTurn(s, e) == e.type = "turn/end" /\ s.turn # 0 /\ s.step = 0 /\ e.turn = s.turn
StartsStep(s, e) ==
    /\ e.type = "step/start" /\ s.turn # 0 /\ s.step = 0
    /\ e.turn = s.turn /\ e.step \in Nat \ {0}
EndsStep(s, e) == e.type = "step/end" /\ s.step # 0 /\ s.pending = <<>> /\ e.turn = s.turn
Of(s, e) == s.step # 0 /\ e.turn = s.turn /\ e.step = s.step
Asks(l, s, e) ==
    /\ e.type = "assistant/message" /\ Of(s, e) /\ s.pending = <<>>
    /\ \E n \in Nat : e.calls = [k \in 1..n |-> k]
    /\ Fresh(l, e.turn, e.step)
Calls(s, e) == e.type = "tool/call" /\ Of(s, e) /\ e.call \in Nat
Answers(s, e) ==
    /\ e.type = "tool/result" /\ Of(s, e) /\ s.pending # <<>>
    /\ e.call = s.pending[1].call /\ e.outcome \in Outcomes
    /\ (e.outcome = "notStarted") = ~s.pending[1].started
Seeds(e) == e.type = "session/end-seed"

Follows(l, s, e) ==
    \/ StartsTurn(l, s, e) \/ EndsTurn(s, e) \/ StartsStep(s, e) \/ EndsStep(s, e)
    \/ Asks(l, s, e) \/ Calls(s, e) \/ Answers(s, e) \/ Seeds(e)

Call1(turn, step) == [call : Nat, turn : {turn}, step : {step}, started : BOOLEAN]

(* What a well-formed scan holds. *)
LEMMA Holds ==
    ASSUME NEW s, WellFormed(s)
    PROVE  /\ s = At(s.turn, s.step, s.pending)
           /\ s.turn \in Nat /\ s.step \in Nat
           /\ s.turn = 0 => s.step = 0
           /\ s.step = 0 => s.pending = <<>>
           /\ s.pending \in Seq(Call1(s.turn, s.step)) /\ SeqLike(s.pending)
           /\ Len(s.pending) \in Nat /\ DOMAIN s.pending = 1..Len(s.pending)
           /\ \A k \in 1..Len(s.pending) :
                 /\ s.pending[k] \in Call1(s.turn, s.step)
                 /\ s.pending[k].call \in Nat /\ s.pending[k].started \in BOOLEAN
                 /\ s.pending[k].turn = s.turn /\ s.pending[k].step = s.step
           /\ \A j, k \in 1..Len(s.pending) : j < k => s.pending[j].call < s.pending[k].call
<1>1. s.pending \in Seq(Call1(s.turn, s.step))
    BY DEF WellFormed, Call1
<1>2. SeqLike(s.pending) /\ Len(s.pending) \in Nat /\ DOMAIN s.pending = 1..Len(s.pending)
    BY <1>1, LikeSeq
<1>3. \A k \in 1..Len(s.pending) : s.pending[k] \in Call1(s.turn, s.step)
    BY <1>1
<1>4. \A p \in Call1(s.turn, s.step) :
          p.call \in Nat /\ p.started \in BOOLEAN /\ p.turn = s.turn /\ p.step = s.step
    BY DEF Call1
<1>5. \A j, k \in 1..Len(s.pending) : j < k => s.pending[j].call < s.pending[k].call
    BY <1>2 DEF WellFormed
<1>6. s = At(s.turn, s.step, s.pending)
    BY DEF WellFormed, At
<1>7. /\ s.turn \in Nat /\ s.step \in Nat
      /\ s.turn = 0 => s.step = 0
      /\ s.step = 0 => s.pending = <<>>
    BY DEF WellFormed
<1> QED BY <1>1, <1>2, <1>3, <1>4, <1>5, <1>6, <1>7

(* A scan of no calls is well-formed. *)
LEMMA HoldsNone ==
    ASSUME NEW turn \in Nat, NEW step \in Nat, turn = 0 => step = 0
    PROVE  WellFormed(At(turn, step, <<>>))
<1>1. PICK s : s = At(turn, step, <<>>)
    OBVIOUS
<1>2. s.turn = turn /\ s.step = step /\ s.pending = <<>>
    BY <1>1 DEF At
<1>3. s = [turn |-> s.turn, step |-> s.step, pending |-> s.pending]
    BY <1>1, <1>2 DEF At
<1>4. s.pending \in Seq(Call1(s.turn, s.step))
    BY <1>2
<1>5. \A j, k \in DOMAIN s.pending : FALSE
    BY <1>2
<1> QED BY <1>1, <1>2, <1>3, <1>4, <1>5 DEF WellFormed, Call1

(* A scan of calls in the order of their numbers is well-formed. *)
LEMMA HoldsSome ==
    ASSUME NEW turn \in Nat \ {0}, NEW step \in Nat \ {0}, NEW p, SeqLike(p),
           \A k \in 1..Len(p) : p[k] \in Call1(turn, step),
           \A j, k \in 1..Len(p) : j < k => p[j].call < p[k].call
    PROVE  WellFormed(At(turn, step, p))
<1>1. PICK s : s = At(turn, step, p)
    OBVIOUS
<1>2. s.turn = turn /\ s.step = step /\ s.pending = p
    BY <1>1 DEF At
<1>3. s = [turn |-> s.turn, step |-> s.step, pending |-> s.pending]
    BY <1>1, <1>2 DEF At
<1>4. Len(p) \in Nat /\ DOMAIN p = 1..Len(p) /\ p = [k \in 1..Len(p) |-> p[k]]
    BY LikeSeq DEF SeqLike
<1>5. p \in Seq(Call1(turn, step))
    BY <1>4
<1>6. \A j, k \in DOMAIN p : j < k => p[j].call < p[k].call
    BY <1>4
<1> QED BY <1>1, <1>2, <1>3, <1>5, <1>6 DEF WellFormed, Call1

(* How the calls that wait behind an event correspond to those before it. *)
Retains(s, t, e) ==
    /\ t.turn = s.turn /\ t.step = s.step
    /\ Len(t.pending) = Len(s.pending)
    /\ \A k \in 1..Len(s.pending) :
          /\ t.pending[k].call = s.pending[k].call
          /\ t.pending[k].turn = s.turn /\ t.pending[k].step = s.step
          /\ t.pending[k].started = (s.pending[k].started \/ s.pending[k].call = e.call)
Shifts(s, t) ==
    /\ t.turn = s.turn /\ t.step = s.step
    /\ Len(t.pending) = Len(s.pending) - 1
    /\ \A k \in 1..(Len(s.pending) - 1) : t.pending[k] = s.pending[k + 1]
Opens(t, e) ==
    /\ t.turn = e.turn /\ t.step = e.step
    /\ Len(t.pending) = Len(e.calls) /\ Len(e.calls) \in Nat
    /\ \A k \in 1..Len(e.calls) :
          /\ t.pending[k].call = k /\ t.pending[k].started = FALSE
          /\ t.pending[k].turn = e.turn /\ t.pending[k].step = e.step

(* The call event marks its call. *)
LEMMA CallsScan ==
    ASSUME NEW s, NEW e, NEW t, WellFormed(s), Calls(s, e), t = Observe(s, e)
    PROVE  WellFormed(t) /\ Retains(s, t, e)
<1>1. PICK p : p = Marked(s.pending, e)
    OBVIOUS
<1>2. t = At(s.turn, s.step, p)
    BY <1>1, Holds, ObserveIs DEF Calls
<1>3. s.turn \in Nat \ {0} /\ s.step \in Nat \ {0}
    BY Holds DEF Calls, Of
<1>4. PICK n \in Nat : n = Len(s.pending) /\ DOMAIN s.pending = 1..n
    BY Holds
<1>5. ASSUME NEW k \in 1..n
      PROVE  /\ p[k] \in Call1(s.turn, s.step) /\ p[k].call = s.pending[k].call
             /\ p[k].started = (s.pending[k].started \/ s.pending[k].call = e.call)
             /\ p[k].turn = s.turn /\ p[k].step = s.step
    <2>1. p[k] = [s.pending[k] EXCEPT !.started = s.pending[k].started \/ s.pending[k].call = e.call]
        BY <1>1, <1>4 DEF Marked
    <2>2. s.pending[k] \in Call1(s.turn, s.step)
        BY <1>4, Holds
    <2>3. PICK q \in Call1(s.turn, s.step) : q = s.pending[k]
        BY <2>2
    <2>4. PICK b \in BOOLEAN : b = (q.started \/ q.call = e.call)
        OBVIOUS
    <2>5. p[k] = [q EXCEPT !.started = b]
        BY <2>1, <2>3, <2>4
    <2>6. /\ p[k] \in Call1(s.turn, s.step) /\ p[k].call = q.call
          /\ p[k].started = b /\ p[k].turn = s.turn /\ p[k].step = s.step
        BY <2>5 DEF Call1
    <2> QED BY <2>3, <2>4, <2>6
<1>6. p = [k \in 1..n |-> p[k]]
    BY <1>1, <1>4 DEF Marked
<1>7. p \in Seq(Call1(s.turn, s.step)) /\ Len(p) = n
    BY <1>5, <1>6
<1>8. SeqLike(p)
    BY <1>7, LikeSeq
<1>9. \A j, k \in 1..n : j < k => p[j].call < p[k].call
    BY <1>4, <1>5, Holds
<1>10. WellFormed(t)
    BY <1>2, <1>3, <1>5, <1>7, <1>8, <1>9, HoldsSome
<1>11. t.turn = s.turn /\ t.step = s.step /\ t.pending = p
    BY <1>2 DEF At
<1> QED BY <1>4, <1>5, <1>7, <1>10, <1>11 DEF Retains

(* The result answers the first call. *)
LEMMA AnswersScan ==
    ASSUME NEW s, NEW e, NEW t, WellFormed(s), Answers(s, e), t = Observe(s, e)
    PROVE  WellFormed(t) /\ Shifts(s, t) /\ Len(s.pending) \in Nat \ {0}
<1>1. PICK p : p = Unanswered(s.pending, e)
    OBVIOUS
<1>2. t = At(s.turn, s.step, p)
    BY <1>1, Holds, ObserveIs DEF Answers
<1>3. s.turn \in Nat \ {0} /\ s.step \in Nat \ {0}
    BY Holds DEF Answers, Of
<1>4. PICK n \in Nat : n = Len(s.pending) /\ DOMAIN s.pending = 1..n
    BY Holds
<1>5. n # 0 /\ 1 \in 1..n
    <2>1. s.pending \in Seq(Call1(s.turn, s.step)) /\ s.pending # <<>>
        BY Holds DEF Answers
    <2> QED BY <1>4, <2>1
<1>6. OnlyFirst(s.pending, e)
    <2>1. Answered(s.pending[1], e)
        BY <1>4, <1>5, Holds DEF Answered, Answers, Of
    <2>2. ASSUME NEW k \in 2..n PROVE ~Answered(s.pending[k], e)
        <3>1. k \in 1..n /\ 1 < k
            OBVIOUS
        <3>2. s.pending[1].call < s.pending[k].call /\ s.pending[1].call \in Nat /\ s.pending[k].call \in Nat
            BY <1>4, <1>5, <3>1, Holds
        <3>3. s.pending[1].call # s.pending[k].call
            BY <3>2
        <3> QED BY <3>3 DEF Answered, Answers
    <2>3. SeqLike(s.pending) /\ s.pending # <<>>
        BY Holds DEF Answers
    <2> QED BY <1>4, <2>1, <2>2, <2>3 DEF OnlyFirst
<1>7. SeqLike(p) /\ Len(p) = n - 1 /\ \A k \in 1..(n - 1) : p[k] = s.pending[k + 1]
    BY <1>1, <1>4, <1>6, UnansweredHead DEF Rest
<1>8. \A k \in 1..(n - 1) : k + 1 \in 1..n
    OBVIOUS
<1>9. \A k \in 1..(n - 1) : p[k] \in Call1(s.turn, s.step)
    BY <1>4, <1>7, <1>8, Holds
<1>10. \A j, k \in 1..(n - 1) : j < k => p[j].call < p[k].call
    <2>1. \A j, k \in 1..(n - 1) : j < k => s.pending[j + 1].call < s.pending[k + 1].call
        BY <1>4, <1>8, Holds
    <2> QED BY <1>7, <2>1
<1>11. WellFormed(t)
    BY <1>2, <1>3, <1>7, <1>9, <1>10, HoldsSome
<1>12. t.turn = s.turn /\ t.step = s.step /\ t.pending = p
    BY <1>2 DEF At
<1> QED BY <1>4, <1>5, <1>7, <1>11, <1>12 DEF Shifts

(* The message leaves its calls to wait. *)
LEMMA AsksScan ==
    ASSUME NEW l, NEW s, NEW e, NEW t, WellFormed(s), Asks(l, s, e), t = Observe(s, e)
    PROVE  WellFormed(t) /\ Opens(t, e)
<1>1. PICK n \in Nat : e.calls = [k \in 1..n |-> k]
    BY DEF Asks
<1>2. Len(e.calls) = n
    BY <1>1
<1>3. PICK p : p = Requested(e)
    OBVIOUS
<1>4. s.turn \in Nat \ {0} /\ s.step \in Nat \ {0} /\ e.turn = s.turn /\ e.step = s.step
    BY Holds DEF Asks, Of
<1>5. ASSUME NEW k \in 1..n
      PROVE  /\ p[k] \in Call1(s.turn, s.step)
             /\ p[k].call = k /\ p[k].started = FALSE
             /\ p[k].turn = e.turn /\ p[k].step = e.step
    <2>1. e.calls[k] = k
        BY <1>1
    <2>2. p[k] = [call |-> k, turn |-> e.turn, step |-> e.step, started |-> FALSE]
        BY <1>2, <1>3, <2>1 DEF Requested
    <2> QED BY <1>4, <2>2 DEF Call1
<1>6. p = [k \in 1..n |-> p[k]]
    BY <1>2, <1>3 DEF Requested
<1>7. p \in Seq(Call1(s.turn, s.step)) /\ Len(p) = n
    <2>1. \A k \in 1..n : p[k] \in Call1(s.turn, s.step)
        BY <1>5
    <2> QED BY <1>6, <2>1
<1>8. SeqLike(p)
    BY <1>7, LikeSeq
<1>9. t = At(s.turn, s.step, p)
    <2>1. t = At(s.turn, s.step, <<>> \o p)
        <3>1. t = At(s.turn, s.step, s.pending \o Requested(e))
            <4>1. s = At(s.turn, s.step, s.pending) /\ e.type = "assistant/message"
                BY Holds DEF Asks
            <4> QED BY <4>1, ObserveIs
        <3>2. s.pending = <<>>
            BY DEF Asks
        <3> QED BY <1>3, <3>1, <3>2
    <2>2. <<>> \o p = p
        BY <1>7
    <2> QED BY <2>1, <2>2
<1>10. \A j, k \in 1..n : j < k => p[j].call < p[k].call
    <2>1. \A k \in 1..n : p[k].call = k
        BY <1>5
    <2> QED BY <2>1
<1>11. WellFormed(t)
    BY <1>4, <1>5, <1>7, <1>8, <1>9, <1>10, HoldsSome
<1>12. t.turn = e.turn /\ t.step = e.step /\ t.pending = p
    BY <1>4, <1>9 DEF At
<1>13. \A k \in 1..n : /\ p[k].call = k /\ p[k].started = FALSE
                       /\ p[k].turn = e.turn /\ p[k].step = e.step
    BY <1>5
<1> QED BY <1>2, <1>7, <1>11, <1>12, <1>13 DEF Opens

-----------------------------------------------------------------------------
(* A sound log goes on: its scan. *)

(* m is the sound log l with the event e behind it, which may follow. *)
Onward(l, m, e, s, t) ==
    /\ OneMore(l, m, e) /\ Sound(l)
    /\ s = Scan(l) /\ t = Observe(s, e) /\ Follows(l, s, e)

(* Where the scan is before and behind the event. *)
Empties(s, t, turn, step) ==
    /\ s.step = 0 /\ s.pending = <<>>
    /\ t.turn = turn /\ t.step = step /\ t.pending = <<>>

LEMMA ScanMoves ==
    ASSUME NEW l, NEW m, NEW e, NEW s, NEW t, Onward(l, m, e, s, t)
    PROVE  /\ WellFormed(s) /\ WellFormed(t) /\ t = Scan(m)
           /\ StartsTurn(l, s, e) => Empties(s, t, e.turn, 0)
           /\ EndsTurn(s, e) => Empties(s, t, 0, 0)
           /\ StartsStep(s, e) => Empties(s, t, s.turn, e.step)
           /\ EndsStep(s, e) => t.turn = s.turn /\ t.step = 0 /\ t.pending = <<>> /\ s.turn # 0
           /\ Asks(l, s, e) => Opens(t, e) /\ s.turn # 0
           /\ Calls(s, e) => Retains(s, t, e) /\ s.turn # 0
           /\ Answers(s, e) => Shifts(s, t) /\ s.turn # 0 /\ Len(s.pending) \in Nat \ {0}
           /\ Seeds(e) => t = s
<1>1. t = Scan(m)
    BY ScanOn DEF Onward
<1>2. WellFormed(s)
    BY DEF Onward, Sound
<1>3. /\ s = At(s.turn, s.step, s.pending)
      /\ s.turn \in Nat /\ s.step \in Nat
      /\ s.turn = 0 => s.step = 0
      /\ s.step = 0 => s.pending = <<>>
    BY <1>2, Holds
<1>4. ASSUME NEW a, NEW b, NEW p
      PROVE  At(a, b, p).turn = a /\ At(a, b, p).step = b /\ At(a, b, p).pending = p
    BY DEF At
<1>5. CASE StartsTurn(l, s, e)
    <2>1. t = At(e.turn, 0, <<>>)
        BY <1>3, <1>5, ObserveIs DEF Onward, StartsTurn
    <2>2. e.turn \in Nat
        <3>1. SeqLike(l)
            BY DEF Onward, OneMore
        <3>2. Len(l) \in Nat
            BY <3>1, LikeSeq DEF SeqLike
        <3>3. Count(l, "turn/start") \in Nat
            <4>1. IsFiniteSet(1..Len(l))
                BY <3>2, FS_Interval
            <4>2. IsFiniteSet({i \in 1..Len(l) : l[i].type = "turn/start"})
                BY <4>1, FS_Subset
            <4> QED BY <4>2, FS_CardinalityType DEF Count
        <3> QED BY <3>3, <1>5 DEF StartsTurn
    <2>3. WellFormed(t)
        BY <2>1, <2>2, HoldsNone
    <2>4. Empties(s, t, e.turn, 0)
        BY <1>3, <1>4, <1>5, <2>1 DEF Empties, StartsTurn
    <2>5. e.type = "turn/start"
        BY <1>5 DEF StartsTurn
    <2> QED BY <1>1, <1>2, <2>3, <2>4, <2>5 DEF EndsTurn, StartsStep, EndsStep, Asks, Calls, Answers, Seeds
<1>6. CASE EndsTurn(s, e)
    <2>1. t = At(0, 0, <<>>)
        BY <1>3, <1>6, ObserveIs DEF Onward, EndsTurn
    <2>3. WellFormed(t)
        BY <2>1, HoldsNone
    <2>4. Empties(s, t, 0, 0)
        BY <1>3, <1>4, <1>6, <2>1 DEF Empties, EndsTurn
    <2>5. e.type = "turn/end"
        BY <1>6 DEF EndsTurn
    <2> QED BY <1>1, <1>2, <2>3, <2>4, <2>5 DEF StartsTurn, StartsStep, EndsStep, Asks, Calls, Answers, Seeds
<1>7. CASE StartsStep(s, e)
    <2>1. t = At(s.turn, e.step, <<>>)
        <3>1. s.pending = <<>> /\ e.type = "step/start"
            BY <1>3, <1>7 DEF StartsStep
        <3>2. t = At(s.turn, e.step, s.pending)
            BY <1>3, <3>1, ObserveIs DEF Onward
        <3> QED BY <3>1, <3>2
    <2>3. WellFormed(t)
        BY <1>3, <1>7, <2>1, HoldsNone DEF StartsStep
    <2>4. Empties(s, t, s.turn, e.step)
        BY <1>3, <1>4, <1>7, <2>1 DEF Empties, StartsStep
    <2>5. e.type = "step/start"
        BY <1>7 DEF StartsStep
    <2> QED BY <1>1, <1>2, <2>3, <2>4, <2>5 DEF StartsTurn, EndsTurn, EndsStep, Asks, Calls, Answers, Seeds
<1>8. CASE EndsStep(s, e)
    <2>1. t = At(s.turn, 0, <<>>)
        BY <1>3, <1>8, ObserveIs DEF Onward, EndsStep
    <2>3. WellFormed(t)
        BY <1>3, <2>1, HoldsNone
    <2>4. t.turn = s.turn /\ t.step = 0 /\ t.pending = <<>> /\ s.turn # 0
        BY <1>3, <1>4, <1>8, <2>1 DEF EndsStep
    <2>5. e.type = "step/end"
        BY <1>8 DEF EndsStep
    <2> QED BY <1>1, <1>2, <2>3, <2>4, <2>5 DEF StartsTurn, EndsTurn, StartsStep, Asks, Calls, Answers, Seeds
<1>9. CASE Asks(l, s, e)
    <2>1. WellFormed(t) /\ Opens(t, e)
        BY <1>2, <1>9, AsksScan DEF Onward
    <2>2. e.type = "assistant/message" /\ s.turn # 0
        BY <1>3, <1>9 DEF Asks, Of
    <2> QED BY <1>1, <1>2, <2>1, <2>2 DEF StartsTurn, EndsTurn, StartsStep, EndsStep, Calls, Answers, Seeds
<1>10. CASE Calls(s, e)
    <2>1. WellFormed(t) /\ Retains(s, t, e)
        BY <1>2, <1>10, CallsScan DEF Onward
    <2>2. e.type = "tool/call" /\ s.turn # 0
        BY <1>3, <1>10 DEF Calls, Of
    <2> QED BY <1>1, <1>2, <2>1, <2>2 DEF StartsTurn, EndsTurn, StartsStep, EndsStep, Asks, Answers, Seeds
<1>11. CASE Answers(s, e)
    <2>1. WellFormed(t) /\ Shifts(s, t) /\ Len(s.pending) \in Nat \ {0}
        BY <1>2, <1>11, AnswersScan DEF Onward
    <2>2. e.type = "tool/result" /\ s.turn # 0
        BY <1>3, <1>11 DEF Answers, Of
    <2> QED BY <1>1, <1>2, <2>1, <2>2 DEF StartsTurn, EndsTurn, StartsStep, EndsStep, Asks, Calls, Seeds
<1>12. CASE Seeds(e)
    <2>1. t = s /\ e.type = "session/end-seed"
        BY <1>3, <1>12, ObserveIs DEF Onward, Seeds
    <2> QED BY <1>1, <1>2, <2>1 DEF StartsTurn, EndsTurn, StartsStep, EndsStep, Asks, Calls, Answers
<1> QED BY <1>5, <1>6, <1>7, <1>8, <1>9, <1>10, <1>11, <1>12 DEF Onward, Follows

-----------------------------------------------------------------------------
(* Its brackets. *)

(* What closes stays closed. *)
LEMMA ClosedStays ==
    ASSUME NEW l, NEW m, NEW e, OneMore(l, m, e), NEW i \in 1..Len(l), NEW end, NEW stops,
           ClosedBy(l, i, end, stops)
    PROVE  ClosedBy(m, i, end, stops)
<1>1. PICK n \in Nat : /\ n = Len(l) /\ Len(m) = n + 1 /\ m[n + 1] = e
                       /\ \A k \in 1..n : m[k] = l[k]
    BY OneMorePlaces
<1>2. PICK j \in 1..n : /\ l[j].type = end /\ i < j /\ l[j].turn = l[i].turn
                        /\ \A k \in (i + 1)..(j - 1) : l[k].type \notin stops
    BY <1>1 DEF ClosedBy
<1>3. \A k \in (i + 1)..(j - 1) : k \in 1..n
    BY <1>1
<1>4. \A k \in (i + 1)..(j - 1) : m[k].type \notin stops
    BY <1>1, <1>2, <1>3
<1>5. m[j].type = end /\ m[j].turn = m[i].turn /\ j \in 1..Len(m)
    BY <1>1, <1>2
<1> QED BY <1>2, <1>4, <1>5 DEF ClosedBy

(* What nothing stopped is closed by the event that ends it. *)
LEMMA ClosesNow ==
    ASSUME NEW l, NEW m, NEW e, OneMore(l, m, e), NEW i \in 1..Len(l), NEW end, NEW stops,
           NoneFrom(l, i + 1, stops), e.type = end, e.turn = l[i].turn
    PROVE  ClosedBy(m, i, end, stops)
<1>1. PICK n \in Nat : /\ n = Len(l) /\ Len(m) = n + 1 /\ m[n + 1] = e
                       /\ \A k \in 1..n : m[k] = l[k]
    BY OneMorePlaces
<1>2. \A k \in (i + 1)..((n + 1) - 1) : k \in 1..n /\ k \in (i + 1)..n
    BY <1>1
<1>3. \A k \in (i + 1)..((n + 1) - 1) : m[k].type \notin stops
    BY <1>1, <1>2 DEF NoneFrom
<1>4. m[n + 1].type = end /\ m[n + 1].turn = m[i].turn /\ n + 1 \in 1..Len(m) /\ i < n + 1
    BY <1>1
<1> QED BY <1>3, <1>4 DEF ClosedBy

(* None of the types, and not the next event. *)
LEMMA NoneStays ==
    ASSUME NEW l, NEW m, NEW e, OneMore(l, m, e), NEW i \in Nat \ {0}, NEW types,
           NoneFrom(l, i, types), e.type \notin types
    PROVE  NoneFrom(m, i, types)
<1>1. PICK n \in Nat : /\ n = Len(l) /\ Len(m) = n + 1 /\ m[n + 1] = e
                       /\ \A k \in 1..n : m[k] = l[k]
    BY OneMorePlaces
<1>2. \A k \in i..(n + 1) : k = n + 1 \/ (k \in 1..n /\ k \in i..n)
    BY <1>1
<1>3. \A k \in i..(n + 1) : m[k].type \notin types
    BY <1>1, <1>2 DEF NoneFrom
<1> QED BY <1>1, <1>3 DEF NoneFrom

(* The turn at place i is closed or open, and so is the step. *)
TurnFits(l, s, i) ==
    \/ ClosedBy(l, i, "turn/end", {"turn/start", "turn/end"})
    \/ s.turn # 0 /\ l[i].turn = s.turn /\ NoneFrom(l, i + 1, {"turn/start", "turn/end"})
StepFits(l, s, i) ==
    \/ ClosedBy(l, i, "step/end", {"step/start", "step/end", "turn/end"})
    \/ s.step # 0 /\ l[i].turn = s.turn /\ NoneFrom(l, i + 1, {"step/start", "step/end", "turn/end"})

(* They stay so. *)
LEMMA TurnFitsOn ==
    ASSUME NEW l, NEW m, NEW e, NEW s, NEW t, Onward(l, m, e, s, t),
           NEW i \in 1..Len(l), TurnFits(l, s, i)
    PROVE  TurnFits(m, t, i)
<1>1. OneMore(l, m, e)
    BY DEF Onward
<1>2. CASE ClosedBy(l, i, "turn/end", {"turn/start", "turn/end"})
    BY <1>1, <1>2, ClosedStays DEF TurnFits
<1>3. CASE s.turn # 0 /\ l[i].turn = s.turn /\ NoneFrom(l, i + 1, {"turn/start", "turn/end"})
    <2>1. CASE EndsTurn(s, e)
        <3>1. e.type = "turn/end" /\ e.turn = l[i].turn
            BY <1>3, <2>1 DEF EndsTurn
        <3>2. ClosedBy(m, i, "turn/end", {"turn/start", "turn/end"})
            BY <1>1, <1>3, <3>1, ClosesNow
        <3> QED BY <3>2 DEF TurnFits
    <2>2. CASE ~EndsTurn(s, e)
        <3>1. e.type \notin {"turn/start", "turn/end"} /\ t.turn = s.turn
            <4>1. ~StartsTurn(l, s, e)
                BY <1>3 DEF StartsTurn
            <4>2. CASE StartsStep(s, e)
                BY <4>2, ScanMoves DEF StartsStep, Empties
            <4>3. CASE EndsStep(s, e)
                BY <4>3, ScanMoves DEF EndsStep
            <4>4. CASE Asks(l, s, e)
                <5>1. Opens(t, e)
                    BY <4>4, ScanMoves
                <5>2. e.type = "assistant/message" /\ e.turn = s.turn /\ e.step = s.step
                    BY <4>4 DEF Asks, Of
                <5> QED BY <5>1, <5>2 DEF Opens
            <4>5. CASE Calls(s, e)
                BY <4>5, ScanMoves DEF Calls, Retains
            <4>6. CASE Answers(s, e)
                BY <4>6, ScanMoves DEF Answers, Shifts
            <4>7. CASE Seeds(e)
                BY <4>7, ScanMoves DEF Seeds
            <4> QED BY <2>2, <4>1, <4>2, <4>3, <4>4, <4>5, <4>6, <4>7 DEF Onward, Follows
        <3>2. i + 1 \in Nat \ {0}
            OBVIOUS
        <3>3. NoneFrom(m, i + 1, {"turn/start", "turn/end"})
            BY <1>1, <1>3, <3>1, <3>2, NoneStays
        <3>4. m[i] = l[i]
            BY <1>1 DEF OneMore
        <3> QED BY <1>3, <3>1, <3>3, <3>4 DEF TurnFits
    <2> QED BY <2>1, <2>2
<1> QED BY <1>2, <1>3 DEF TurnFits

LEMMA StepFitsOn ==
    ASSUME NEW l, NEW m, NEW e, NEW s, NEW t, Onward(l, m, e, s, t),
           NEW i \in 1..Len(l), StepFits(l, s, i)
    PROVE  StepFits(m, t, i)
<1>1. OneMore(l, m, e)
    BY DEF Onward
<1>2. CASE ClosedBy(l, i, "step/end", {"step/start", "step/end", "turn/end"})
    BY <1>1, <1>2, ClosedStays DEF StepFits
<1>3. CASE s.step # 0 /\ l[i].turn = s.turn /\ NoneFrom(l, i + 1, {"step/start", "step/end", "turn/end"})
    <2>1. CASE EndsStep(s, e)
        <3>1. e.type = "step/end" /\ e.turn = l[i].turn
            BY <1>3, <2>1 DEF EndsStep
        <3>2. ClosedBy(m, i, "step/end", {"step/start", "step/end", "turn/end"})
            BY <1>1, <1>3, <3>1, ClosesNow
        <3> QED BY <3>2 DEF StepFits
    <2>2. CASE ~EndsStep(s, e)
        <3>1. e.type \notin {"step/start", "step/end", "turn/end"} /\ t.turn = s.turn /\ t.step = s.step
            <4>1. ~StartsTurn(l, s, e)
                <5>1. s.turn # 0
                    BY <1>3, ScanMoves, Holds
                <5> QED BY <5>1 DEF StartsTurn
            <4>2. ~EndsTurn(s, e) /\ ~StartsStep(s, e)
                BY <1>3 DEF EndsTurn, StartsStep
            <4>4. CASE Asks(l, s, e)
                <5>1. Opens(t, e)
                    BY <4>4, ScanMoves
                <5>2. e.type = "assistant/message" /\ e.turn = s.turn /\ e.step = s.step
                    BY <4>4 DEF Asks, Of
                <5> QED BY <5>1, <5>2 DEF Opens
            <4>5. CASE Calls(s, e)
                BY <4>5, ScanMoves DEF Calls, Retains
            <4>6. CASE Answers(s, e)
                BY <4>6, ScanMoves DEF Answers, Shifts
            <4>7. CASE Seeds(e)
                BY <4>7, ScanMoves DEF Seeds
            <4> QED BY <2>2, <4>1, <4>2, <4>4, <4>5, <4>6, <4>7 DEF Onward, Follows
        <3>2. i + 1 \in Nat \ {0}
            OBVIOUS
        <3>3. NoneFrom(m, i + 1, {"step/start", "step/end", "turn/end"})
            BY <1>1, <1>3, <3>1, <3>2, NoneStays
        <3>4. m[i] = l[i]
            BY <1>1 DEF OneMore
        <3> QED BY <1>3, <3>1, <3>3, <3>4 DEF StepFits
    <2> QED BY <2>1, <2>2
<1> QED BY <1>2, <1>3 DEF StepFits

(* Brackets, place by place. *)
LEMMA BracketsPlaces ==
    ASSUME NEW l, NEW s
    PROVE  BracketsFit(l, s) <=> \A i \in 1..Len(l) :
              /\ l[i].type = "turn/start" => TurnFits(l, s, i)
              /\ l[i].type = "step/start" => StepFits(l, s, i)
BY DEF BracketsFit, TurnFits, StepFits

LEMMA BracketsOn ==
    ASSUME NEW l, NEW m, NEW e, NEW s, NEW t, Onward(l, m, e, s, t)
    PROVE  BracketsFit(m, t)
<1>1. OneMore(l, m, e) /\ BracketsFit(l, s)
    BY DEF Onward, Sound
<1>2. PICK n \in Nat : /\ n = Len(l) /\ Len(m) = n + 1 /\ m[n + 1] = e
                       /\ \A k \in 1..n : m[k] = l[k]
                       /\ \A k \in 1..(n + 1) : k \in 1..n \/ k = n + 1
    BY <1>1, OneMorePlaces
<1>3. \A types : NoneFrom(m, (n + 1) + 1, types)
    BY <1>2 DEF NoneFrom
<1>4. ASSUME NEW i \in 1..(n + 1)
      PROVE  /\ m[i].type = "turn/start" => TurnFits(m, t, i)
             /\ m[i].type = "step/start" => StepFits(m, t, i)
    <2>1. CASE i \in 1..n
        <3>1. /\ l[i].type = "turn/start" => TurnFits(l, s, i)
              /\ l[i].type = "step/start" => StepFits(l, s, i)
            BY <1>1, <1>2, <2>1, BracketsPlaces
        <3>2. i \in 1..Len(l) /\ m[i] = l[i]
            BY <1>2, <2>1
        <3> QED BY <3>1, <3>2, TurnFitsOn, StepFitsOn
    <2>2. CASE i = n + 1
        <3>1. e.type = "turn/start" => t.turn = e.turn /\ t.turn # 0
            <4> SUFFICES ASSUME e.type = "turn/start" PROVE t.turn = e.turn /\ t.turn # 0
                OBVIOUS
            <4>1. StartsTurn(l, s, e)
                BY DEF Onward, Follows, StartsTurn, EndsTurn, StartsStep, EndsStep, Asks, Calls, Answers, Seeds
            <4>2. Count(l, "turn/start") \in Nat
                <5>1. IsFiniteSet(1..Len(l))
                    BY <1>2, FS_Interval
                <5>2. IsFiniteSet({k \in 1..Len(l) : l[k].type = "turn/start"})
                    BY <5>1, FS_Subset
                <5> QED BY <5>2, FS_CardinalityType DEF Count
            <4> QED BY <4>1, <4>2, ScanMoves DEF StartsTurn, Empties
        <3>2. e.type = "step/start" => t.turn = e.turn /\ t.step # 0
            <4> SUFFICES ASSUME e.type = "step/start" PROVE t.turn = e.turn /\ t.step # 0
                OBVIOUS
            <4>1. StartsStep(s, e)
                BY DEF Onward, Follows, StartsTurn, EndsTurn, StartsStep, EndsStep, Asks, Calls, Answers, Seeds
            <4> QED BY <4>1, ScanMoves DEF StartsStep, Empties
        <3>3. m[i] = e
            BY <1>2, <2>2
        <3> QED BY <1>3, <2>2, <3>1, <3>2, <3>3 DEF TurnFits, StepFits
    <2> QED BY <1>2, <2>1, <2>2
<1> QED BY <1>2, <1>4, BracketsPlaces

-----------------------------------------------------------------------------
(* Its calls. *)

(* A result elsewhere leaves a settled call settled. *)
LEMMA SettledStays ==
    ASSUME NEW l, NEW m, NEW e, OneMore(l, m, e), NEW i \in 1..Len(l), NEW c,
           Settled(l, i, c), ~Concerns(e, "tool/result", c, l[i])
    PROVE  Settled(m, i, c)
<1>1. PICK n \in Nat : /\ n = Len(l) /\ Len(m) = n + 1 /\ m[n + 1] = e
                       /\ \A k \in 1..n : m[k] = l[k]
                       /\ \A k \in 1..(n + 1) : k \in 1..n \/ k = n + 1
    BY OneMorePlaces
<1>2. PICK j \in 1..n :
        /\ \A k \in 1..n : Concerns(l[k], "tool/result", c, l[i]) <=> k = j
        /\ i < j
        /\ \A k \in i..j : l[k].type # "step/end"
        /\ \A k \in i..j : l[k].type = "tool/result" => k = j \/ l[k].call < c
    BY <1>1 DEF Settled
<1>3. \A k \in i..j : k \in 1..n
    BY <1>1
<1>4. \A k \in i..j : m[k] = l[k]
    BY <1>1, <1>3
<1>5. ASSUME NEW k \in 1..(n + 1) PROVE Concerns(m[k], "tool/result", c, m[i]) <=> k = j
    <2>1. m[i] = l[i]
        BY <1>1
    <2>2. CASE k \in 1..n
        BY <1>1, <1>2, <2>1, <2>2
    <2>3. CASE k = n + 1
        BY <1>1, <2>1, <2>3
    <2> QED BY <1>1, <2>2, <2>3
<1>6. /\ \A k \in i..j : m[k].type # "step/end"
      /\ \A k \in i..j : m[k].type = "tool/result" => k = j \/ m[k].call < c
    BY <1>2, <1>4
<1> QED BY <1>1, <1>2, <1>5, <1>6 DEF Settled

(* The result of a call that waits settles it. *)
Unheard(l, i, c) == \A k \in 1..Len(l) : ~Concerns(l[k], "tool/result", c, l[i])

LEMMA SettlesNow ==
    ASSUME NEW l, NEW m, NEW e, OneMore(l, m, e), NEW s, NEW i \in 1..Len(l), NEW c \in Nat,
           Waits(l, s, i, c), Unheard(l, i, c), Concerns(e, "tool/result", c, l[i])
    PROVE  Settled(m, i, c)
<1>1. PICK n \in Nat : /\ n = Len(l) /\ Len(m) = n + 1 /\ m[n + 1] = e
                       /\ \A k \in 1..n : m[k] = l[k]
                       /\ \A k \in 1..(n + 1) : k \in 1..n \/ k = n + 1
    BY OneMorePlaces
<1>2. /\ NoneFrom(l, i, {"step/end"})
      /\ \A k \in i..n : l[k].type = "tool/result" => l[k].call < c
    BY <1>1 DEF Waits
<1>3. e.type = "tool/result" /\ e.call = c
    BY DEF Concerns
<1>4. \A k \in i..(n + 1) : (k \in i..n /\ k \in 1..n /\ m[k] = l[k]) \/ (k = n + 1 /\ m[k] = e)
    BY <1>1
<1>5. \A k \in i..(n + 1) : m[k].type # "step/end"
    <2>1. \A k \in i..n : l[k].type # "step/end"
        BY <1>1, <1>2 DEF NoneFrom
    <2> QED BY <1>3, <1>4, <2>1
<1>6. ASSUME NEW k \in i..(n + 1), m[k].type = "tool/result" PROVE k = n + 1 \/ m[k].call < c
    <2>1. CASE k \in i..n /\ m[k] = l[k]
        BY <1>2, <1>6, <2>1
    <2> QED BY <1>4, <2>1
<1>7. ASSUME NEW k \in 1..(n + 1) PROVE Concerns(m[k], "tool/result", c, m[i]) <=> k = n + 1
    <2>1. m[i] = l[i]
        BY <1>1
    <2>2. CASE k \in 1..n
        <3>1. ~Concerns(l[k], "tool/result", c, l[i])
            BY <1>1, <2>2 DEF Unheard
        <3>2. k # n + 1 /\ m[k] = l[k]
            BY <1>1, <2>2
        <3> QED BY <2>1, <3>1, <3>2
    <2>3. CASE k = n + 1
        BY <1>1, <2>1, <2>3
    <2> QED BY <1>1, <2>2, <2>3
<1>8. n + 1 \in 1..Len(m) /\ i < n + 1
    BY <1>1
<1> QED BY <1>1, <1>5, <1>6, <1>7, <1>8 DEF Settled

(* A call that waits does so behind an event that answers an earlier one. *)
Holding(scan, c) == \E k \in DOMAIN scan.pending : scan.pending[k].call = c
Before(e, c) == e.type # "step/end" /\ (e.type = "tool/result" => e.call < c)

LEMMA WaitsStays ==
    ASSUME NEW l, NEW m, NEW e, OneMore(l, m, e), NEW s, NEW t, NEW i \in 1..Len(l), NEW c,
           Waits(l, s, i, c), t.turn = s.turn, t.step = s.step, Holding(t, c), Before(e, c)
    PROVE  Waits(m, t, i, c)
<1>1. PICK n \in Nat : /\ n = Len(l) /\ Len(m) = n + 1 /\ m[n + 1] = e
                       /\ \A k \in 1..n : m[k] = l[k]
    BY OneMorePlaces
<1>2. NoneFrom(m, i, {"step/end"})
    <2>1. i \in Nat \ {0} /\ NoneFrom(l, i, {"step/end"}) /\ e.type \notin {"step/end"}
        BY <1>1 DEF Waits, Before
    <2> QED BY <2>1, NoneStays
<1>3. ASSUME NEW k \in i..(n + 1), m[k].type = "tool/result" PROVE m[k].call < c
    <2>1. CASE k = n + 1
        BY <1>1, <1>3, <2>1 DEF Before
    <2>2. CASE k \in i..n
        <3>1. k \in 1..n /\ m[k] = l[k]
            BY <1>1, <2>2
        <3>2. \A x \in i..n : l[x].type = "tool/result" => l[x].call < c
            BY <1>1 DEF Waits
        <3> QED BY <1>3, <2>2, <3>1, <3>2
    <2> QED BY <1>1, <2>1, <2>2
<1>4. m[i].turn = t.turn /\ m[i].step = t.step
    BY <1>1 DEF Waits
<1>5. \E k \in DOMAIN t.pending : t.pending[k].call = c
    BY DEF Holding
<1> QED BY <1>1, <1>2, <1>3, <1>4, <1>5 DEF Waits

(* Every call of the message at place i is settled or waits. *)
CallFits(l, s, i, c) == Settled(l, i, c) \/ Waits(l, s, i, c)

(* What a call that waits is before the event. *)
LEMMA WaitsHeld ==
    ASSUME NEW l, NEW s, WellFormed(s), CallsFit(l, s), NEW i \in 1..Len(l), NEW c, Waits(l, s, i, c)
    PROVE  \E k \in 1..Len(s.pending) :
              /\ s.pending[k].call = c /\ c \in Nat
              /\ l[i].turn = s.turn /\ l[i].step = s.step /\ Unheard(l, i, c)
<1>1. PICK k \in 1..Len(s.pending) : s.pending[k].call = c
    BY Holds DEF Waits
<1>2. l[i].turn = s.turn /\ l[i].step = s.step
    BY DEF Waits
<1>3. s.pending[k].turn = s.turn /\ s.pending[k].step = s.step /\ c \in Nat /\ k \in DOMAIN s.pending
    BY <1>1, Holds
<1>4. \A j \in 1..Len(l) : ~Concerns(l[j], "tool/result", s.pending[k].call, s.pending[k])
    BY <1>3 DEF CallsFit
<1>5. Unheard(l, i, c)
    BY <1>1, <1>2, <1>3, <1>4 DEF Unheard, Concerns
<1> QED BY <1>1, <1>2, <1>3, <1>5

LEMMA CallFitsOn ==
    ASSUME NEW l, NEW m, NEW e, NEW s, NEW t, Onward(l, m, e, s, t),
           NEW i \in 1..Len(l), NEW c, CallFits(l, s, i, c)
    PROVE  CallFits(m, t, i, c)
<1>1. OneMore(l, m, e) /\ CallsFit(l, s) /\ WellFormed(s)
    BY DEF Onward, Sound
<1>2. CASE Settled(l, i, c)
    <2>1. ~Concerns(e, "tool/result", c, l[i])
        <3> SUFFICES ASSUME Concerns(e, "tool/result", c, l[i]) PROVE FALSE
            OBVIOUS
        <3>1. e.type = "tool/result" /\ e.call = c /\ e.turn = l[i].turn /\ e.step = l[i].step
            BY DEF Concerns
        <3>2. Answers(s, e)
            BY <3>1 DEF Onward, Follows, StartsTurn, EndsTurn, StartsStep, EndsStep, Asks, Calls, Seeds
        <3>3. 1 \in 1..Len(s.pending)
            BY <3>2, ScanMoves
        <3>4. 1 \in DOMAIN s.pending /\ s.pending[1].turn = s.turn /\ s.pending[1].step = s.step
            BY <1>1, <3>3, Holds
        <3>5. s.pending[1].call = c /\ e.turn = s.turn /\ e.step = s.step
            BY <3>1, <3>2 DEF Answers, Of
        <3>6. \A j \in 1..Len(l) : ~Concerns(l[j], "tool/result", c, s.pending[1])
            BY <1>1, <3>4, <3>5 DEF CallsFit
        <3>7. \E j \in 1..Len(l) : Concerns(l[j], "tool/result", c, l[i])
            BY <1>2 DEF Settled
        <3> QED BY <3>1, <3>4, <3>5, <3>6, <3>7 DEF Concerns
    <2> QED BY <1>1, <1>2, <2>1, SettledStays DEF CallFits
<1>3. CASE Waits(l, s, i, c)
    <2>1. PICK k \in 1..Len(s.pending) :
              /\ s.pending[k].call = c /\ c \in Nat
              /\ l[i].turn = s.turn /\ l[i].step = s.step /\ Unheard(l, i, c)
        BY <1>1, <1>3, WaitsHeld
    <2>2. s.pending # <<>> /\ s.step # 0
        <3>1. s.pending # <<>>
            BY <2>1
        <3> QED BY <1>1, <3>1, Holds
    <2>3. CASE Calls(s, e)
        <3>1. Retains(s, t, e) /\ WellFormed(t)
            BY <2>3, ScanMoves
        <3>2. k \in DOMAIN t.pending /\ t.pending[k].call = c
            BY <2>1, <3>1, Holds DEF Retains
        <3>3. Holding(t, c) /\ t.turn = s.turn /\ t.step = s.step
            BY <3>1, <3>2 DEF Retains, Holding
        <3>4. Before(e, c)
            BY <2>3 DEF Before, Calls
        <3>5. Waits(m, t, i, c)
            BY <1>1, <1>3, <3>3, <3>4, WaitsStays
        <3> QED BY <3>5 DEF CallFits
    <2>4. CASE Seeds(e)
        <3>1. t = s
            BY <2>4, ScanMoves
        <3>2. Holding(t, c)
            BY <1>3, <3>1 DEF Holding, Waits
        <3>3. Before(e, c)
            BY <2>4 DEF Before, Seeds
        <3>4. Waits(m, t, i, c)
            BY <1>1, <1>3, <3>1, <3>2, <3>3, WaitsStays
        <3> QED BY <3>4 DEF CallFits
    <2>5. CASE Answers(s, e)
        <3>1. Shifts(s, t) /\ WellFormed(t) /\ Len(s.pending) \in Nat \ {0}
            BY <2>5, ScanMoves
        <3>2. e.type = "tool/result" /\ e.call = s.pending[1].call /\ e.turn = s.turn /\ e.step = s.step
            BY <2>5 DEF Answers, Of
        <3>3. CASE k = 1
            <4>1. Concerns(e, "tool/result", c, l[i])
                BY <2>1, <3>2, <3>3 DEF Concerns
            <4>2. Settled(m, i, c)
                BY <1>1, <1>3, <2>1, <4>1, SettlesNow
            <4> QED BY <4>2 DEF CallFits
        <3>4. CASE k # 1
            <4>1. PICK x \in 1..(Len(s.pending) - 1) : k = x + 1
                <5>1. k - 1 \in 1..(Len(s.pending) - 1) /\ k = (k - 1) + 1
                    BY <3>1, <3>4
                <5> QED BY <5>1
            <4>2. t.pending[x].call = c /\ x \in DOMAIN t.pending
                <5>1. x \in 1..Len(t.pending) /\ t.pending[x] = s.pending[x + 1]
                    BY <3>1, <4>1 DEF Shifts
                <5> QED BY <2>1, <3>1, <4>1, <5>1, Holds
            <4>3. e.call < c
                <5>1. 1 \in 1..Len(s.pending) /\ 1 < k
                    BY <3>1, <3>4
                <5>2. s.pending[1].call < s.pending[k].call
                    BY <1>1, <5>1, Holds
                <5> QED BY <2>1, <3>2, <5>2
            <4>4. Holding(t, c) /\ Before(e, c) /\ t.turn = s.turn /\ t.step = s.step
                BY <3>1, <3>2, <4>2, <4>3 DEF Holding, Before, Shifts
            <4>5. Waits(m, t, i, c)
                BY <1>1, <1>3, <4>4, WaitsStays
            <4> QED BY <4>5 DEF CallFits
        <3> QED BY <3>3, <3>4
    <2>6. ~StartsTurn(l, s, e)
        <3>1. s.turn # 0
            BY <1>1, <2>2, Holds
        <3> QED BY <3>1 DEF StartsTurn
    <2>7. ~EndsTurn(s, e) /\ ~StartsStep(s, e) /\ ~EndsStep(s, e) /\ ~Asks(l, s, e)
        BY <2>2 DEF EndsTurn, StartsStep, EndsStep, Asks
    <2> QED BY <2>3, <2>4, <2>5, <2>6, <2>7 DEF Onward, Follows
<1> QED BY <1>2, <1>3 DEF CallFits

(* The calls of the message that is the event wait. *)
LEMMA CallFitsNow ==
    ASSUME NEW l, NEW m, NEW e, NEW s, NEW t, Onward(l, m, e, s, t), Asks(l, s, e),
           NEW c \in 1..Len(e.calls)
    PROVE  CallFits(m, t, Len(l) + 1, c)
<1>1. OneMore(l, m, e)
    BY DEF Onward
<1>2. PICK n \in Nat : n = Len(l) /\ Len(m) = n + 1 /\ m[n + 1] = e
    BY <1>1, OneMorePlaces
<1>3. Opens(t, e) /\ WellFormed(t)
    BY ScanMoves
<1>4. c \in DOMAIN t.pending /\ t.pending[c].call = c
    BY <1>3, Holds DEF Opens
<1>5. m[n + 1].turn = t.turn /\ m[n + 1].step = t.step /\ m[n + 1].type = "assistant/message"
    BY <1>2, <1>3 DEF Opens, Asks
<1>6. \A k \in (n + 1)..(n + 1) : k = n + 1
    OBVIOUS
<1>7. NoneFrom(m, n + 1, {"step/end"})
    BY <1>2, <1>5, <1>6 DEF NoneFrom
<1>8. \A k \in (n + 1)..(n + 1) : m[k].type # "tool/result"
    BY <1>5, <1>6
<1> QED BY <1>2, <1>4, <1>5, <1>7, <1>8 DEF CallFits, Waits

(* The calls that wait have no results. *)
Unanswerable(l, p) == \A i \in 1..Len(l) : ~Concerns(l[i], "tool/result", p.call, p)
Begun(l, p) == \E i \in 1..Len(l) : Concerns(l[i], "tool/call", p.call, p)

LEMMA UnanswerableOn ==
    ASSUME NEW l, NEW m, NEW e, OneMore(l, m, e), NEW p, NEW q,
           p.call = q.call, p.turn = q.turn, p.step = q.step
    PROVE  /\ Unanswerable(l, p) /\ ~Concerns(e, "tool/result", p.call, p) => Unanswerable(m, q)
           /\ Begun(m, q) <=> Begun(l, p) \/ Concerns(e, "tool/call", p.call, p)
<1>1. PICK n \in Nat : /\ n = Len(l) /\ Len(m) = n + 1 /\ m[n + 1] = e
                       /\ \A k \in 1..n : m[k] = l[k] /\ k \in 1..(n + 1)
                       /\ \A k \in 1..(n + 1) : k \in 1..n \/ k = n + 1
                       /\ n + 1 \in 1..(n + 1)
    BY OneMorePlaces
<1>2. \A x, type : Concerns(x, type, p.call, p) <=> Concerns(x, type, q.call, q)
    BY DEF Concerns
<1>3. Unanswerable(l, p) /\ ~Concerns(e, "tool/result", p.call, p) => Unanswerable(m, q)
    BY <1>1, <1>2 DEF Unanswerable
<1>4. Begun(m, q) <=> Begun(l, p) \/ Concerns(e, "tool/call", p.call, p)
    BY <1>1, <1>2 DEF Begun
<1> QED BY <1>3, <1>4

(* Call by call: what a scan holds is as the events say. *)
PendingFits(l, s, k) ==
    /\ Unanswerable(l, s.pending[k])
    /\ s.pending[k].started = Begun(l, s.pending[k])

LEMMA CallsPlaces ==
    ASSUME NEW l, NEW s
    PROVE  CallsFit(l, s) <=>
              /\ \A i \in 1..Len(l) : l[i].type = "assistant/message" =>
                    /\ Len(l[i].calls) \in Nat
                    /\ \A c \in 1..Len(l[i].calls) : CallFits(l, s, i, c)
              /\ \A k \in DOMAIN s.pending : PendingFits(l, s, k)
BY DEF CallsFit, CallFits, PendingFits, Unanswerable, Begun

LEMMA PendingOn ==
    ASSUME NEW l, NEW m, NEW e, NEW s, NEW t, Onward(l, m, e, s, t), NEW k \in DOMAIN t.pending
    PROVE  PendingFits(m, t, k)
<1>1. OneMore(l, m, e) /\ CallsFit(l, s) /\ WellFormed(s) /\ WellFormed(t)
    BY ScanMoves DEF Onward, Sound
<1>2. \A x \in 1..Len(s.pending) : PendingFits(l, s, x)
    BY <1>1, CallsPlaces, Holds
<1>3. k \in 1..Len(t.pending) /\ t.pending # <<>>
    BY <1>1, Holds
<1>4. CASE Calls(s, e)
    <2>1. Retains(s, t, e) /\ s.turn # 0
        BY <1>4, ScanMoves
    <2>2. k \in 1..Len(s.pending)
        BY <1>3, <2>1 DEF Retains
    <2>3. PICK p : p = s.pending[k]
        OBVIOUS
    <2>4. PICK q : q = t.pending[k]
        OBVIOUS
    <2>5. p.turn = s.turn /\ p.step = s.step /\ p.started \in BOOLEAN
        BY <1>1, <2>2, <2>3, Holds
    <2>6. /\ p.call = q.call /\ p.turn = q.turn /\ p.step = q.step
          /\ q.started = (p.started \/ p.call = e.call)
        BY <2>1, <2>2, <2>3, <2>4, <2>5 DEF Retains
    <2>7. e.type = "tool/call" /\ e.turn = s.turn /\ e.step = s.step
        BY <1>4 DEF Calls, Of
    <2>8. ~Concerns(e, "tool/result", p.call, p)
        BY <2>7 DEF Concerns
    <2>9. Concerns(e, "tool/call", p.call, p) <=> p.call = e.call
        BY <2>5, <2>7 DEF Concerns
    <2>10. Unanswerable(l, p) /\ p.started = Begun(l, p)
        BY <1>2, <2>2, <2>3 DEF PendingFits
    <2>11. Unanswerable(m, q) /\ (Begun(m, q) <=> Begun(l, p) \/ p.call = e.call)
        BY <1>1, <2>6, <2>8, <2>9, <2>10, UnanswerableOn
    <2>12. q.started = Begun(m, q)
        <3>1. Begun(l, p) \in BOOLEAN /\ Begun(m, q) \in BOOLEAN
            BY DEF Begun
        <3> QED BY <2>6, <2>10, <2>11, <3>1
    <2> QED BY <2>4, <2>11, <2>12 DEF PendingFits
<1>5. CASE Answers(s, e)
    <2>1. Shifts(s, t) /\ s.turn # 0 /\ Len(s.pending) \in Nat \ {0}
        BY <1>5, ScanMoves
    <2>2. k \in 1..(Len(s.pending) - 1)
        BY <1>3, <2>1 DEF Shifts
    <2>3. PICK p : p = s.pending[k + 1]
        OBVIOUS
    <2>4. p = t.pending[k]
        BY <2>1, <2>2, <2>3 DEF Shifts
    <2>5. k + 1 \in 1..Len(s.pending) /\ 1 \in 1..Len(s.pending) /\ 1 < k + 1
        BY <2>1, <2>2
    <2>6. s.pending[1].call < p.call /\ s.pending[1].call \in Nat /\ p.call \in Nat
        BY <1>1, <2>3, <2>5, Holds
    <2>7. e.type = "tool/result" /\ e.call = s.pending[1].call
        BY <1>5 DEF Answers
    <2>8. ~Concerns(e, "tool/result", p.call, p) /\ ~Concerns(e, "tool/call", p.call, p)
        BY <2>6, <2>7 DEF Concerns
    <2>9. Unanswerable(l, p) /\ p.started = Begun(l, p)
        BY <1>2, <2>3, <2>5 DEF PendingFits
    <2>10. Unanswerable(m, p) /\ (Begun(m, p) <=> Begun(l, p))
        BY <1>1, <2>8, <2>9, UnanswerableOn
    <2>11. Begun(l, p) \in BOOLEAN /\ Begun(m, p) \in BOOLEAN
        BY DEF Begun
    <2> QED BY <2>4, <2>9, <2>10, <2>11 DEF PendingFits
<1>6. CASE Asks(l, s, e)
    <2>1. Opens(t, e)
        BY <1>6, ScanMoves
    <2>2. PICK q : q = t.pending[k]
        OBVIOUS
    <2>3. q.started = FALSE /\ q.turn = e.turn /\ q.step = e.step
        BY <1>3, <2>1, <2>2 DEF Opens
    <2>4. Fresh(l, e.turn, e.step) /\ e.type = "assistant/message"
        BY <1>6 DEF Asks
    <2>5. \A i \in 1..Len(l) : /\ ~Concerns(l[i], "tool/result", q.call, q)
                               /\ ~Concerns(l[i], "tool/call", q.call, q)
        BY <2>3, <2>4 DEF Fresh, Concerns
    <2>6. ~Concerns(e, "tool/result", q.call, q) /\ ~Concerns(e, "tool/call", q.call, q)
        BY <2>4 DEF Concerns
    <2>7. Unanswerable(l, q) /\ ~Begun(l, q)
        BY <2>5 DEF Unanswerable, Begun
    <2>8. Unanswerable(m, q) /\ ~Begun(m, q)
        BY <1>1, <2>6, <2>7, UnanswerableOn
    <2>9. Begun(m, q) \in BOOLEAN
        BY DEF Begun
    <2>10. q.started = Begun(m, q)
        BY <2>3, <2>8, <2>9
    <2> QED BY <2>2, <2>8, <2>10 DEF PendingFits
<1>7. CASE Seeds(e)
    <2>1. t = s
        BY <1>7, ScanMoves
    <2>2. PICK p : p = s.pending[k]
        OBVIOUS
    <2>3. Unanswerable(l, p) /\ p.started = Begun(l, p)
        BY <1>2, <1>3, <2>1, <2>2 DEF PendingFits
    <2>4. ~Concerns(e, "tool/result", p.call, p) /\ ~Concerns(e, "tool/call", p.call, p)
        BY <1>7 DEF Seeds, Concerns
    <2>5. Unanswerable(m, p) /\ (Begun(m, p) <=> Begun(l, p))
        BY <1>1, <2>3, <2>4, UnanswerableOn
    <2>6. Begun(l, p) \in BOOLEAN /\ Begun(m, p) \in BOOLEAN
        BY DEF Begun
    <2> QED BY <2>1, <2>2, <2>3, <2>5, <2>6 DEF PendingFits
<1>8. ~StartsTurn(l, s, e) /\ ~EndsTurn(s, e) /\ ~StartsStep(s, e) /\ ~EndsStep(s, e)
    BY <1>3, ScanMoves DEF Empties
<1> QED BY <1>4, <1>5, <1>6, <1>7, <1>8 DEF Onward, Follows

LEMMA CallsOn ==
    ASSUME NEW l, NEW m, NEW e, NEW s, NEW t, Onward(l, m, e, s, t)
    PROVE  CallsFit(m, t)
<1>1. OneMore(l, m, e) /\ CallsFit(l, s)
    BY DEF Onward, Sound
<1>2. PICK n \in Nat : /\ n = Len(l) /\ Len(m) = n + 1 /\ m[n + 1] = e
                       /\ \A k \in 1..n : m[k] = l[k]
                       /\ \A k \in 1..(n + 1) : k \in 1..n \/ k = n + 1
    BY <1>1, OneMorePlaces
<1>3. ASSUME NEW i \in 1..(n + 1), m[i].type = "assistant/message"
      PROVE  /\ Len(m[i].calls) \in Nat
             /\ \A c \in 1..Len(m[i].calls) : CallFits(m, t, i, c)
    <2>1. CASE i \in 1..n
        <3>1. m[i] = l[i] /\ i \in 1..Len(l)
            BY <1>2, <2>1
        <3>2. Len(l[i].calls) \in Nat /\ \A c \in 1..Len(l[i].calls) : CallFits(l, s, i, c)
            BY <1>1, <1>3, <3>1, CallsPlaces
        <3>3. \A c \in 1..Len(l[i].calls) : CallFits(m, t, i, c)
            BY <3>1, <3>2, CallFitsOn
        <3> QED BY <3>1, <3>2, <3>3
    <2>2. CASE i = n + 1
        <3>1. m[i] = e /\ i = Len(l) + 1
            BY <1>2, <2>2
        <3>2. Asks(l, s, e)
            BY <1>3, <3>1 DEF Onward, Follows, StartsTurn, EndsTurn, StartsStep, EndsStep, Calls, Answers, Seeds
        <3>3. Len(e.calls) \in Nat
            BY <3>2, ScanMoves DEF Opens
        <3>4. \A c \in 1..Len(e.calls) : CallFits(m, t, Len(l) + 1, c)
            BY <3>2, CallFitsNow
        <3> QED BY <3>1, <3>3, <3>4
    <2> QED BY <1>2, <2>1, <2>2
<1>4. \A k \in DOMAIN t.pending : PendingFits(m, t, k)
    BY PendingOn
<1> QED BY <1>2, <1>3, <1>4, CallsPlaces

-----------------------------------------------------------------------------
(* Its numbers and its results. *)

LEMMA CountType ==
    ASSUME NEW l, SeqLike(l), NEW type
    PROVE  Count(l, type) \in Nat
<1>1. Len(l) \in Nat
    BY LikeSeq DEF SeqLike
<1>2. IsFiniteSet(1..Len(l))
    BY <1>1, FS_Interval
<1>3. IsFiniteSet({i \in 1..Len(l) : l[i].type = type})
    BY <1>2, FS_Subset
<1> QED BY <1>3, FS_CardinalityType DEF Count

LEMMA CountOn ==
    ASSUME NEW l, NEW m, NEW e, OneMore(l, m, e), NEW type
    PROVE  /\ Count(l, type) \in Nat /\ Count(m, type) \in Nat
           /\ e.type = type => Count(m, type) = Count(l, type) + 1
           /\ e.type # type => Count(m, type) = Count(l, type)
<1>1. PICK n \in Nat : /\ n = Len(l) /\ Len(m) = n + 1 /\ m[n + 1] = e
                       /\ \A k \in 1..n : m[k] = l[k]
                       /\ \A k \in 1..(n + 1) : k \in 1..n \/ k = n + 1
    BY OneMorePlaces
<1> DEFINE A == {i \in 1..n : l[i].type = type}
           B == {i \in 1..(n + 1) : m[i].type = type}
<1>2. Count(l, type) = Cardinality(A) /\ Count(m, type) = Cardinality(B)
    BY <1>1 DEF Count
<1>3. IsFiniteSet(A)
    <2>1. IsFiniteSet(1..n)
        BY FS_Interval
    <2> QED BY <2>1, FS_Subset
<1>4. Cardinality(A) \in Nat
    BY <1>3, FS_CardinalityType
<1>5. n + 1 \notin A /\ n + 1 \in 1..(n + 1)
    OBVIOUS
<1>6. CASE e.type = type
    <2>1. B = A \cup {n + 1}
        BY <1>1, <1>5, <1>6
    <2>2. Cardinality(A \cup {n + 1}) = Cardinality(A) + 1
        BY <1>3, <1>5, FS_AddElement
    <2>3. Cardinality(B) = Cardinality(A) + 1
        BY <2>1, <2>2
    <2> HIDE DEF A, B
    <2> QED BY <1>2, <1>4, <1>6, <2>3
<1>7. CASE e.type # type
    <2>1. B = A
        BY <1>1, <1>7
    <2> QED BY <1>2, <1>4, <1>7, <2>1
<1> QED BY <1>6, <1>7

LEMMA NumberedOn ==
    ASSUME NEW l, NEW m, NEW e, NEW s, NEW t, Onward(l, m, e, s, t)
    PROVE  Numbered(m) /\ t.turn <= Count(m, "turn/start")
<1>1. OneMore(l, m, e) /\ Numbered(l) /\ s.turn <= Count(l, "turn/start") /\ WellFormed(s)
    BY DEF Onward, Sound
<1>2. PICK n \in Nat : /\ n = Len(l) /\ Len(m) = n + 1 /\ m[n + 1] = e
                       /\ \A k \in 1..n : m[k] = l[k]
                       /\ \A k \in 1..(n + 1) : k \in 1..n \/ k = n + 1
    BY <1>1, OneMorePlaces
<1>3. PICK x \in Nat : x = Count(l, "turn/start")
    BY <1>1, CountOn
<1>4. PICK y \in Nat : y = Count(m, "turn/start")
    BY <1>1, CountOn
<1>5. /\ x <= y
      /\ e.type = "turn/start" => y = x + 1
    BY <1>1, <1>3, <1>4, CountOn
<1>6. s.turn \in Nat /\ s.turn <= x
    BY <1>1, <1>3, Holds
<1>7. t.turn <= y /\ (e.type \in Timed => e.turn \in 1..y)
    <2>1. CASE StartsTurn(l, s, e)
        <3>1. e.turn = x + 1 /\ y = x + 1
            BY <1>3, <1>5, <2>1 DEF StartsTurn
        <3>2. t.turn = e.turn
            BY <2>1, ScanMoves DEF Empties
        <3> QED BY <3>1, <3>2
    <2>2. CASE EndsTurn(s, e)
        <3>1. t.turn = 0 /\ e.turn = s.turn /\ s.turn # 0
            BY <2>2, ScanMoves DEF EndsTurn, Empties
        <3> QED BY <1>5, <1>6, <3>1
    <2>3. CASE StartsStep(s, e)
        <3>1. t.turn = s.turn /\ e.turn = s.turn /\ s.turn # 0
            BY <2>3, ScanMoves DEF StartsStep, Empties
        <3> QED BY <1>5, <1>6, <3>1
    <2>4. CASE EndsStep(s, e)
        <3>1. t.turn = s.turn /\ e.turn = s.turn /\ s.turn # 0
            BY <2>4, ScanMoves DEF EndsStep
        <3> QED BY <1>5, <1>6, <3>1
    <2>5. CASE Asks(l, s, e)
        <3>1. Opens(t, e) /\ s.turn # 0
            BY <2>5, ScanMoves
        <3>2. e.turn = s.turn
            BY <2>5 DEF Asks, Of
        <3>3. t.turn = s.turn
            BY <3>1, <3>2 DEF Opens
        <3> QED BY <1>5, <1>6, <3>1, <3>2, <3>3
    <2>6. CASE Calls(s, e)
        <3>1. t.turn = s.turn /\ e.turn = s.turn /\ s.turn # 0
            BY <2>6, ScanMoves DEF Calls, Of, Retains
        <3> QED BY <1>5, <1>6, <3>1
    <2>7. CASE Answers(s, e)
        <3>1. t.turn = s.turn /\ e.turn = s.turn /\ s.turn # 0
            BY <2>7, ScanMoves DEF Answers, Of, Shifts
        <3> QED BY <1>5, <1>6, <3>1
    <2>8. CASE Seeds(e)
        <3>1. t = s /\ e.type \notin Timed
            BY <2>8, ScanMoves DEF Seeds, Timed
        <3> QED BY <1>5, <1>6, <3>1
    <2> QED BY <2>1, <2>2, <2>3, <2>4, <2>5, <2>6, <2>7, <2>8 DEF Onward, Follows
<1>8. ASSUME NEW i \in 1..(n + 1), m[i].type \in Timed PROVE m[i].turn \in 1..y
    <2>1. CASE i \in 1..n
        <3>1. l[i].turn \in 1..x
            BY <1>1, <1>2, <1>3, <1>8, <2>1 DEF Numbered
        <3> QED BY <1>2, <1>5, <2>1, <3>1
    <2>2. CASE i = n + 1
        BY <1>2, <1>7, <1>8, <2>2
    <2> QED BY <1>2, <2>1, <2>2
<1>9. Numbered(m)
    BY <1>2, <1>4, <1>8 DEF Numbered
<1> QED BY <1>4, <1>7, <1>9

(* The results of a log are honest. *)
ResultFits(l, i) ==
    l[i].type = "tool/result" =>
        l[i].call \in Nat /\ l[i].outcome \in Outcomes /\ Honest(l, i)

LEMMA ResultsOn ==
    ASSUME NEW l, NEW m, NEW e, NEW s, NEW t, Onward(l, m, e, s, t), NEW i \in 1..Len(m)
    PROVE  ResultFits(m, i)
<1>1. /\ OneMore(l, m, e) /\ CallsFit(l, s) /\ WellFormed(s)
      /\ \A k \in 1..Len(l) : ResultFits(l, k)
    BY DEF Onward, Sound, ResultFits
<1>2. PICK n \in Nat : /\ n = Len(l) /\ Len(m) = n + 1 /\ m[n + 1] = e
                       /\ \A k \in 1..n : m[k] = l[k]
                       /\ \A k \in 1..(n + 1) : k \in 1..n \/ k = n + 1
    BY <1>1, OneMorePlaces
<1>3. CASE i \in 1..n
    <2>1. \A k \in 1..(i - 1) : k \in 1..n
        BY <1>3
    <2>2. \A k \in 1..(i - 1) : m[k] = l[k]
        BY <1>2, <2>1
    <2>3. m[i] = l[i] /\ ResultFits(l, i)
        BY <1>1, <1>2, <1>3
    <2>4. Honest(m, i) <=> Honest(l, i)
        BY <2>2, <2>3 DEF Honest
    <2> QED BY <2>3, <2>4 DEF ResultFits
<1>4. CASE i = n + 1 /\ e.type = "tool/result"
    <2>1. Answers(s, e)
        BY <1>4 DEF Onward, Follows, StartsTurn, EndsTurn, StartsStep, EndsStep, Asks, Calls, Seeds
    <2>2. 1 \in 1..Len(s.pending)
        BY <2>1, ScanMoves
    <2>3. PICK p : p = s.pending[1]
        OBVIOUS
    <2>4. PendingFits(l, s, 1)
        BY <1>1, <2>2, CallsPlaces, Holds
    <2>5. p.started = Begun(l, p)
        BY <2>3, <2>4 DEF PendingFits
    <2>6. p.turn = s.turn /\ p.step = s.step /\ p.call \in Nat /\ p.started \in BOOLEAN
        BY <1>1, <2>2, <2>3, Holds
    <2>7. /\ e.call = p.call /\ e.turn = p.turn /\ e.step = p.step /\ e.outcome \in Outcomes
          /\ (e.outcome = "notStarted") = ~p.started
        BY <2>1, <2>3, <2>6 DEF Answers, Of
    <2>8. Begun(l, p) <=> \E k \in 1..((n + 1) - 1) : Concerns(m[k], "tool/call", e.call, e)
        <3>1. (n + 1) - 1 = n
            OBVIOUS
        <3>2. \A k \in 1..n : Concerns(m[k], "tool/call", e.call, e) <=> Concerns(l[k], "tool/call", p.call, p)
            BY <1>2, <2>7 DEF Concerns
        <3> QED BY <1>2, <3>1, <3>2 DEF Begun
    <2>9. Honest(m, n + 1)
        <3>1. PICK b \in BOOLEAN : b = \E k \in 1..((n + 1) - 1) : Concerns(m[k], "tool/call", e.call, e)
            OBVIOUS
        <3>2. Begun(l, p) \in BOOLEAN
            BY DEF Begun
        <3>3. (e.outcome = "notStarted") = ~b
            BY <2>5, <2>7, <2>8, <3>1, <3>2
        <3> QED BY <1>2, <3>1, <3>3 DEF Honest
    <2> QED BY <1>2, <1>4, <2>6, <2>7, <2>9 DEF ResultFits
<1> QED BY <1>2, <1>3, <1>4 DEF ResultFits

(* A sound log with an event behind it that may follow is sound. *)
LEMMA SoundOn ==
    ASSUME NEW l, NEW m, NEW e, NEW s, NEW t, Onward(l, m, e, s, t)
    PROVE  Sound(m) /\ t = Scan(m)
<1>1. WellFormed(t) /\ t = Scan(m)
    BY ScanMoves
<1>2. BracketsFit(m, t) /\ CallsFit(m, t) /\ Numbered(m) /\ t.turn <= Count(m, "turn/start")
    BY BracketsOn, CallsOn, NumberedOn
<1>3. \A i \in 1..Len(m) : ResultFits(m, i)
    BY ResultsOn
<1> QED BY <1>1, <1>2, <1>3 DEF Sound, ResultFits

-----------------------------------------------------------------------------
(* The parts of a log from its start. *)

Part(l, k) == SubSeq(l, 1, k)

LEMMA PartIs ==
    ASSUME NEW l, SeqLike(l), NEW k \in 0..Len(l)
    PROVE  /\ SeqLike(Part(l, k)) /\ Len(Part(l, k)) = k
           /\ \A i \in 1..k : Part(l, k)[i] = l[i]
           /\ Len(l) \in Nat
<1>1. PICK S : l \in Seq(S)
    BY DEF SeqLike
<1>2. Part(l, k) \in Seq(S) /\ Len(Part(l, k)) = k /\ Len(l) \in Nat
    BY <1>1 DEF Part
<1>3. SeqLike(Part(l, k))
    BY <1>2, LikeSeq
<1>4. \A i \in 1..k : Part(l, k)[i] = l[i]
    BY <1>1 DEF Part
<1> QED BY <1>2, <1>3, <1>4

(* A sequence that agrees with a log up to k is its part up to k. *)
LEMMA PartWhole ==
    ASSUME NEW l, SeqLike(l), NEW k \in 0..Len(l), NEW p, SeqLike(p), Len(p) = k,
           \A i \in 1..k : p[i] = l[i]
    PROVE  Part(l, k) = p
<1>1. SeqLike(Part(l, k)) /\ Len(Part(l, k)) = k /\ \A i \in 1..k : Part(l, k)[i] = l[i]
    BY PartIs
<1>2. PICK q : q = Part(l, k)
    OBVIOUS
<1>3. SeqLike(q) /\ Len(q) = Len(p) /\ \A i \in 1..Len(q) : q[i] = p[i]
    BY <1>1, <1>2
<1>4. q = p
    BY <1>3, SameSeq
<1> QED BY <1>2, <1>4

LEMMA PartAll ==
    ASSUME NEW l, SeqLike(l)
    PROVE  Part(l, Len(l)) = l /\ Len(l) \in Nat
<1>1. Len(l) \in Nat
    BY LikeSeq DEF SeqLike
<1>2. Len(l) \in 0..Len(l)
    BY <1>1
<1> QED BY <1>1, <1>2, PartWhole

(* Each part is the one before with an event more. *)
LEMMA PartNext ==
    ASSUME NEW l, SeqLike(l), NEW k \in 0..(Len(l) - 1)
    PROVE  OneMore(Part(l, k), Part(l, k + 1), l[k + 1])
<1>1. Len(l) \in Nat
    BY LikeSeq DEF SeqLike
<1>2. PICK x \in 0..Len(l) : x = k + 1
    BY <1>1
<1>3. k \in 0..Len(l)
    BY <1>1
<1>4. SeqLike(Part(l, k)) /\ Len(Part(l, k)) = k /\ \A i \in 1..k : Part(l, k)[i] = l[i]
    BY <1>3, PartIs
<1>5. SeqLike(Part(l, x)) /\ Len(Part(l, x)) = x /\ \A i \in 1..x : Part(l, x)[i] = l[i]
    BY <1>2, PartIs
<1>6. \A i \in 1..k : Part(l, x)[i] = Part(l, k)[i]
    BY <1>2, <1>4, <1>5
<1>7. Part(l, x)[k + 1] = l[k + 1]
    BY <1>2, <1>5
<1> QED BY <1>2, <1>4, <1>5, <1>6, <1>7 DEF OneMore

(* Two logs with the same beginning have the same part there. *)
LEMMA PartSame ==
    ASSUME NEW l, NEW m, SeqLike(l), SeqLike(m), NEW k \in 0..Len(l), k \in 0..Len(m),
           \A i \in 1..k : l[i] = m[i]
    PROVE  Part(l, k) = Part(m, k)
<1>1. PICK p : p = Part(m, k)
    OBVIOUS
<1>2. SeqLike(p) /\ Len(p) = k /\ \A i \in 1..k : p[i] = m[i]
    BY <1>1, PartIs
<1>3. Part(l, k) = p
    BY <1>2, PartWhole
<1> QED BY <1>1, <1>3

(* Every part of a log is sound. *)
SoundParts(l) == SeqLike(l) /\ \A k \in 0..Len(l) : Sound(Part(l, k))

LEMMA SoundAll ==
    ASSUME NEW l, SoundParts(l)
    PROVE  Sound(l) /\ SeqLike(l) /\ Len(l) \in Nat
<1>1. Part(l, Len(l)) = l /\ Len(l) \in Nat
    BY PartAll DEF SoundParts
<1>2. Len(l) \in 0..Len(l)
    BY <1>1
<1> QED BY <1>1, <1>2 DEF SoundParts

(* It is so with an event more that may follow. *)
LEMMA SoundPartsOn ==
    ASSUME NEW l, NEW m, NEW e, SoundParts(l), OneMore(l, m, e), Follows(l, Scan(l), e)
    PROVE  SoundParts(m) /\ Scan(m) = Observe(Scan(l), e)
<1>1. PICK n \in Nat : /\ n = Len(l) /\ Len(m) = n + 1
                       /\ \A k \in 1..n : m[k] = l[k]
    BY OneMorePlaces
<1>2. PICK s : s = Scan(l)
    OBVIOUS
<1>3. PICK t : t = Observe(s, e)
    OBVIOUS
<1>4. Onward(l, m, e, s, t)
    BY <1>2, <1>3, SoundAll DEF Onward
<1>5. Sound(m) /\ t = Scan(m)
    BY <1>4, SoundOn
<1>6. SeqLike(l) /\ SeqLike(m)
    BY DEF OneMore
<1>7. ASSUME NEW k \in 0..(n + 1) PROVE Sound(Part(m, k))
    <2>1. CASE k = n + 1
        BY <1>1, <1>5, <1>6, <2>1, PartAll
    <2>2. CASE k \in 0..n
        <3>1. k \in 0..Len(l) /\ k \in 0..Len(m) /\ \A i \in 1..k : l[i] = m[i]
            BY <1>1, <2>2
        <3>2. Part(l, k) = Part(m, k)
            BY <1>6, <3>1, PartSame
        <3>3. Sound(Part(l, k))
            BY <3>1 DEF SoundParts
        <3> QED BY <3>2, <3>3
    <2> QED BY <2>1, <2>2
<1> QED BY <1>1, <1>2, <1>3, <1>5, <1>6, <1>7 DEF SoundParts

(* The parts of a part are parts. *)
LEMMA SoundPartsPart ==
    ASSUME NEW l, SoundParts(l), NEW k \in 0..Len(l)
    PROVE  SoundParts(Part(l, k))
<1>1. SeqLike(l) /\ Len(l) \in Nat
    BY SoundAll
<1>2. PICK p : p = Part(l, k)
    OBVIOUS
<1>3. SeqLike(p) /\ Len(p) = k /\ \A i \in 1..k : p[i] = l[i]
    BY <1>1, <1>2, PartIs
<1>4. ASSUME NEW j \in 0..k PROVE Sound(Part(p, j))
    <2>1. j \in 0..Len(l) /\ j \in 0..Len(p) /\ \A i \in 1..j : p[i] = l[i]
        BY <1>1, <1>3
    <2>2. Part(p, j) = Part(l, j)
        BY <1>1, <1>3, <2>1, PartSame
    <2> QED BY <2>1, <2>2 DEF SoundParts
<1> QED BY <1>2, <1>3, <1>4 DEF SoundParts

-----------------------------------------------------------------------------
(* The closers. *)

Outcome(p) == Result(p.turn, p.step, p.call, IF p.started THEN "unknown" ELSE "notStarted")

(* One closer for each call that waits, the end of the step and of the turn. *)
LEMMA ClosersAre ==
    ASSUME NEW l, NEW s, s = Scan(l), WellFormed(s), s.turn # 0, NEW cause,
           NEW c, c = Closers(l, cause)
    PROVE  /\ SeqLike(c)
           /\ s.step = 0 => Len(c) = 1 /\ c[1] = TurnEnd(s.turn, cause)
           /\ s.step # 0 =>
                 \E n \in Nat :
                    /\ n = Len(s.pending) /\ Len(c) = n + 2
                    /\ \A k \in 1..n : c[k] = Outcome(s.pending[k])
                    /\ c[n + 1] = StepEnd(s.turn, s.step) /\ c[n + 2] = TurnEnd(s.turn, cause)
<1>1. PICK n \in Nat : n = Len(s.pending) /\ DOMAIN s.pending = 1..n
    BY Holds
<1>2. PICK r : r = Results(s)
    OBVIOUS
<1>3. PICK b : b = IF s.step = 0 THEN <<>> ELSE <<StepEnd(s.turn, s.step)>>
    OBVIOUS
<1>4. PICK x : x = StepEnd(s.turn, s.step)
    OBVIOUS
<1>5. PICK y : y = TurnEnd(s.turn, cause)
    OBVIOUS
<1>6. c = r \o b \o <<y>>
    BY <1>2, <1>3, <1>5 DEF Closers
<1>7. SeqLike(r) /\ Len(r) = n /\ \A k \in 1..n : r[k] = Outcome(s.pending[k])
    <2>1. r = [k \in 1..n |-> Outcome(s.pending[k])]
        BY <1>1, <1>2 DEF Results, Outcome
    <2>2. r \in Seq({Outcome(s.pending[k]) : k \in 1..n}) /\ Len(r) = n
        BY <2>1
    <2> QED BY <2>1, <2>2, LikeSeq
<1>8. SeqLike(<<y>>) /\ Len(<<y>>) = 1 /\ <<y>>[1] = y
    <2>1. <<y>> \in Seq({y}) /\ Len(<<y>>) = 1 /\ <<y>>[1] = y
        OBVIOUS
    <2> QED BY <2>1, LikeSeq
<1>9. CASE s.step = 0
    <2>1. b = <<>> /\ n = 0
        <3>1. s.pending = <<>>
            BY <1>9, Holds
        <3> QED BY <1>1, <1>3, <1>9, <3>1
    <2>2. PICK S : r \in Seq(S)
        BY <1>7 DEF SeqLike
    <2>3. r = <<>>
        BY <1>7, <2>1, <2>2
    <2>4. <<>> \o <<>> \o <<y>> = <<y>>
        OBVIOUS
    <2>5. c = <<y>>
        BY <1>6, <2>1, <2>3, <2>4
    <2> QED BY <1>5, <1>8, <1>9, <2>5
<1>10. CASE s.step # 0
    <2>1. b = <<x>>
        BY <1>3, <1>4, <1>10
    <2>2. SeqLike(b) /\ Len(b) = 1 /\ b[1] = x
        <3>1. <<x>> \in Seq({x}) /\ Len(<<x>>) = 1 /\ <<x>>[1] = x
            OBVIOUS
        <3> QED BY <2>1, <3>1, LikeSeq
    <2>3. PICK d : d = r \o b
        OBVIOUS
    <2>4. SeqLike(d) /\ Len(d) = n + 1 /\ (\A k \in 1..n : d[k] = r[k]) /\ d[n + 1] = x
        <3>1. /\ SeqLike(r \o b) /\ Len(r \o b) = Len(r) + Len(b)
              /\ \A i \in 1..Len(r) : (r \o b)[i] = r[i]
              /\ \A i \in 1..Len(b) : (r \o b)[Len(r) + i] = b[i]
            <4>1. SeqLike(r) /\ SeqLike(b)
                BY <1>7, <2>2
            <4> QED BY <4>1, LikeConcat
        <3> QED BY <1>7, <2>2, <2>3, <3>1
    <2>5. PICK z : z = <<y>>
        OBVIOUS
    <2>6. SeqLike(z) /\ Len(z) = 1 /\ z[1] = y
        BY <1>8, <2>5
    <2>7. c = d \o z
        BY <1>6, <2>3, <2>5
    <2>8. SeqLike(c) /\ Len(c) = n + 2 /\ (\A k \in 1..(n + 1) : c[k] = d[k]) /\ c[n + 2] = y
        <3>1. /\ SeqLike(d \o z) /\ Len(d \o z) = Len(d) + Len(z)
              /\ \A i \in 1..Len(d) : (d \o z)[i] = d[i]
              /\ \A i \in 1..Len(z) : (d \o z)[Len(d) + i] = z[i]
            <4>1. SeqLike(d) /\ SeqLike(z)
                BY <2>4, <2>6
            <4> QED BY <4>1, LikeConcat
        <3>2. (n + 1) + 1 = n + 2
            OBVIOUS
        <3> QED BY <2>4, <2>6, <2>7, <3>1, <3>2
    <2>9. \A k \in 1..n : c[k] = Outcome(s.pending[k])
        <3>1. \A k \in 1..n : k \in 1..(n + 1)
            OBVIOUS
        <3> QED BY <1>7, <2>4, <2>8, <3>1
    <2>10. c[n + 1] = x
        <3>1. n + 1 \in 1..(n + 1)
            OBVIOUS
        <3> QED BY <2>4, <2>8, <3>1
    <2> QED BY <1>1, <1>4, <1>5, <1>10, <2>8, <2>9, <2>10
<1> QED BY <1>9, <1>10

(* The first closer may follow, and the closers behind it are the others. *)
LEMMA ClosersStep ==
    ASSUME NEW l, NEW s, Sound(l), s = Scan(l), s.turn # 0, NEW cause,
           NEW c, c = Closers(l, cause), NEW m, OneMore(l, m, c[1])
    PROVE  /\ SeqLike(c) /\ Len(c) \in Nat \ {0}
           /\ Follows(l, s, c[1]) /\ Rest(c, Closers(m, cause))
           /\ s.pending # <<>> => Shifts(s, Scan(m))
<1>1. PICK e : e = c[1]
    OBVIOUS
<1>2. PICK t : t = Observe(s, e)
    OBVIOUS
<1>3. Sound(l) /\ OneMore(l, m, e) /\ WellFormed(s)
    BY <1>1 DEF Sound
<1>4. PICK d : d = Closers(m, cause)
    OBVIOUS
<1>5. Follows(l, s, e) => Onward(l, m, e, s, t)
    BY <1>2, <1>3 DEF Onward
<1>6. Follows(l, s, e) => t = Scan(m) /\ WellFormed(t)
    BY <1>5, ScanMoves
<1>7. CASE s.step = 0
    <2>1. SeqLike(c) /\ Len(c) = 1 /\ e = TurnEnd(s.turn, cause)
        BY <1>1, <1>3, <1>7, ClosersAre
    <2>2. EndsTurn(s, e)
        BY <1>7, <2>1 DEF EndsTurn, TurnEnd
    <2>3. t.turn = 0 /\ Follows(l, s, e)
        BY <1>5, <2>2, ScanMoves DEF Follows, Empties
    <2>4. d = <<>>
        BY <1>4, <1>6, <2>3 DEF Closers
    <2>5. SeqLike(d) /\ Len(d) = 0
        <3>1. <<>> \in Seq({}) /\ Len(<<>>) = 0
            OBVIOUS
        <3> QED BY <2>4, <3>1, LikeSeq
    <2>6. Rest(c, d)
        BY <2>1, <2>5 DEF Rest
    <2>7. s.pending = <<>>
        BY <1>3, <1>7, Holds
    <2> QED BY <1>1, <1>4, <2>1, <2>3, <2>6, <2>7
<1>8. CASE s.step # 0
    <2>1. PICK n \in Nat :
              /\ n = Len(s.pending) /\ Len(c) = n + 2 /\ SeqLike(c)
              /\ \A k \in 1..n : c[k] = Outcome(s.pending[k])
              /\ c[n + 1] = StepEnd(s.turn, s.step) /\ c[n + 2] = TurnEnd(s.turn, cause)
        BY <1>3, <1>8, ClosersAre
    <2>2. CASE n = 0
        <3>1. s.pending = <<>>
            <4>1. s.pending \in Seq(Call1(s.turn, s.step)) /\ Len(s.pending) = 0
                BY <1>3, <2>1, <2>2, Holds
            <4>2. \A X, q : q \in Seq(X) /\ Len(q) = 0 => q = <<>>
                OBVIOUS
            <4> QED BY <4>1, <4>2
        <3>2. e = StepEnd(s.turn, s.step) /\ c[2] = TurnEnd(s.turn, cause) /\ Len(c) = 2
            BY <1>1, <2>1, <2>2
        <3>3. EndsStep(s, e)
            BY <1>8, <3>1, <3>2 DEF EndsStep, StepEnd
        <3>4. Follows(l, s, e)
            BY <3>3 DEF Follows
        <3>5. t.turn = s.turn /\ t.step = 0 /\ t = Scan(m) /\ WellFormed(t)
            BY <1>5, <1>6, <3>3, <3>4, ScanMoves
        <3>6. SeqLike(d) /\ Len(d) = 1 /\ d[1] = TurnEnd(s.turn, cause)
            BY <1>4, <3>5, ClosersAre
        <3>7. Rest(c, d)
            <4>1. \A k \in 1..(2 - 1) : k = 1
                OBVIOUS
            <4> QED BY <3>2, <3>6, <4>1 DEF Rest
        <3> QED BY <1>1, <1>4, <2>1, <3>1, <3>2, <3>4, <3>7
    <2>3. CASE n # 0
        <3>1. 1 \in 1..n /\ s.pending # <<>>
            BY <2>1, <2>3
        <3>2. PICK p : p = s.pending[1]
            OBVIOUS
        <3>3. p.turn = s.turn /\ p.step = s.step /\ p.started \in BOOLEAN /\ p.call \in Nat
            BY <1>3, <2>1, <3>1, <3>2, Holds
        <3>4. e = Outcome(p)
            BY <1>1, <2>1, <3>1, <3>2
        <3>5. Answers(s, e)
            <4>1. e.type = "tool/result" /\ e.turn = p.turn /\ e.step = p.step /\ e.call = p.call
                BY <3>4 DEF Outcome, Result
            <4>2. e.outcome = IF p.started THEN "unknown" ELSE "notStarted"
                BY <3>4 DEF Outcome, Result
            <4>3. e.outcome \in Outcomes /\ (e.outcome = "notStarted") = ~p.started
                BY <3>3, <4>2 DEF Outcomes
            <4> QED BY <1>8, <3>1, <3>2, <3>3, <4>1, <4>3 DEF Answers, Of
        <3>6. Follows(l, s, e)
            BY <3>5 DEF Follows
        <3>7. Shifts(s, t) /\ t = Scan(m) /\ WellFormed(t)
            BY <1>5, <1>6, <3>5, <3>6, ScanMoves
        <3>8. t.turn = s.turn /\ t.step = s.step /\ Len(t.pending) = n - 1
            BY <2>1, <3>7 DEF Shifts
        <3>9. PICK h \in Nat :
                 /\ h = Len(t.pending) /\ Len(d) = h + 2 /\ SeqLike(d)
                 /\ \A k \in 1..h : d[k] = Outcome(t.pending[k])
                 /\ d[h + 1] = StepEnd(t.turn, t.step) /\ d[h + 2] = TurnEnd(t.turn, cause)
            BY <1>4, <1>8, <3>7, <3>8, ClosersAre
        <3>10. n = h + 1 /\ Len(c) = h + 3 /\ Len(d) = h + 2
            BY <2>1, <3>8, <3>9
        <3>11. ASSUME NEW k \in 1..(h + 2) PROVE d[k] = c[k + 1]
            <4>1. CASE k \in 1..h
                <5>1. k \in 1..(Len(s.pending) - 1) /\ k + 1 \in 1..n
                    BY <2>1, <3>10, <4>1
                <5>2. t.pending[k] = s.pending[k + 1]
                    BY <3>7, <5>1 DEF Shifts
                <5>3. d[k] = Outcome(t.pending[k]) /\ c[k + 1] = Outcome(s.pending[k + 1])
                    BY <2>1, <3>9, <4>1, <5>1
                <5> QED BY <5>2, <5>3
            <4>2. CASE k = h + 1
                <5>1. k + 1 = n + 1
                    BY <3>10, <4>2
                <5> QED BY <2>1, <3>8, <3>9, <4>2, <5>1
            <4>3. CASE k = h + 2
                <5>1. k + 1 = n + 2
                    BY <3>10, <4>3
                <5> QED BY <2>1, <3>8, <3>9, <4>3, <5>1
            <4> QED BY <4>1, <4>2, <4>3
        <3>12. Rest(c, d)
            <4>1. Len(c) - 1 = h + 2
                BY <3>10
            <4> QED BY <3>9, <3>11, <4>1 DEF Rest
        <3> QED BY <1>1, <1>4, <2>1, <3>6, <3>7, <3>12
    <2> QED BY <2>2, <2>3
<1> QED BY <1>7, <1>8

-----------------------------------------------------------------------------
(* The repair of a log. *)

Mended(l, cause) == l \o Closers(l, cause)

(* m is l with the first of c, and d the rest of c. *)
Advances(l, c, m, d) ==
    /\ SeqLike(l) /\ SeqLike(c) /\ Len(c) \in Nat \ {0}
    /\ OneMore(l, m, c[1]) /\ Rest(c, d)

(* With its first closer, a log is repaired to the same. *)
LEMMA MendedNext ==
    ASSUME NEW l, NEW m, NEW c, NEW d, Advances(l, c, m, d)
    PROVE  m \o d = l \o c
<1>0. /\ SeqLike(l) /\ SeqLike(c) /\ Len(c) \in Nat \ {0}
      /\ OneMore(l, m, c[1]) /\ Rest(c, d)
    BY DEF Advances
<1>1. PICK n \in Nat : n = Len(l) /\ Len(m) = n + 1 /\ m[n + 1] = c[1] /\ \A i \in 1..n : m[i] = l[i]
    BY <1>0, OneMorePlaces
<1>2. PICK h \in Nat : Len(c) = h + 1
    <2>1. Len(c) - 1 \in Nat /\ Len(c) = (Len(c) - 1) + 1
        BY <1>0
    <2> QED BY <2>1
<1>3. SeqLike(d) /\ Len(d) = h /\ \A k \in 1..h : d[k] = c[k + 1]
    BY <1>0, <1>2 DEF Rest
<1>4. SeqLike(m)
    BY <1>0 DEF OneMore
<1>5. PICK x : x = l \o c
    OBVIOUS
<1>6. PICK y : y = m \o d
    OBVIOUS
<1>7. /\ SeqLike(x) /\ Len(x) = n + (h + 1)
      /\ \A i \in 1..n : x[i] = l[i]
      /\ \A i \in 1..(h + 1) : x[n + i] = c[i]
    <2>1. /\ SeqLike(l \o c) /\ Len(l \o c) = Len(l) + Len(c)
          /\ \A i \in 1..Len(l) : (l \o c)[i] = l[i]
          /\ \A i \in 1..Len(c) : (l \o c)[Len(l) + i] = c[i]
        BY <1>0, LikeConcat
    <2> QED BY <1>1, <1>2, <1>5, <2>1
<1>8. /\ SeqLike(y) /\ Len(y) = (n + 1) + h
      /\ \A i \in 1..(n + 1) : y[i] = m[i]
      /\ \A i \in 1..h : y[(n + 1) + i] = d[i]
    <2>1. /\ SeqLike(m \o d) /\ Len(m \o d) = Len(m) + Len(d)
          /\ \A i \in 1..Len(m) : (m \o d)[i] = m[i]
          /\ \A i \in 1..Len(d) : (m \o d)[Len(m) + i] = d[i]
        BY <1>3, <1>4, LikeConcat
    <2> QED BY <1>1, <1>3, <1>6, <2>1
<1>9. ASSUME NEW i \in 1..(n + (h + 1)) PROVE x[i] = y[i]
    <2>1. CASE i \in 1..n
        <3>1. i \in 1..(n + 1)
            BY <2>1
        <3> QED BY <1>1, <1>7, <1>8, <2>1, <3>1
    <2>2. CASE i = n + 1
        <3>1. 1 \in 1..(h + 1) /\ n + 1 \in 1..(n + 1)
            OBVIOUS
        <3> QED BY <1>1, <1>7, <1>8, <2>2, <3>1
    <2>3. CASE i \in (n + 2)..(n + (h + 1))
        <3>1. PICK k \in 1..h : i = (n + 1) + k /\ i = n + (k + 1) /\ k + 1 \in 1..(h + 1)
            <4>1. i - (n + 1) \in 1..h
                BY <2>3
            <4>2. i = (n + 1) + (i - (n + 1)) /\ i = n + ((i - (n + 1)) + 1) /\ (i - (n + 1)) + 1 \in 1..(h + 1)
                BY <2>3
            <4> QED BY <4>1, <4>2
        <3>2. x[i] = c[k + 1]
            BY <1>7, <3>1
        <3>3. y[i] = d[k]
            BY <1>8, <3>1
        <3> QED BY <1>3, <3>2, <3>3
    <2> QED BY <2>1, <2>2, <2>3
<1>10. Len(x) = Len(y)
    BY <1>7, <1>8
<1>11. x = y
    BY <1>7, <1>8, <1>9, <1>10, SameSeq
<1> QED BY <1>5, <1>6, <1>11

(* Where the repair of l is behind its first k events. *)
Mending(l, r, k, cause) ==
    /\ Sound(Part(r, k)) /\ Mended(Part(r, k), cause) = r
    /\ k <= Len(l) + Len(Scan(l).pending) =>
          /\ Scan(Part(r, k)).turn = Scan(l).turn /\ Scan(Part(r, k)).step = Scan(l).step
          /\ Len(Scan(Part(r, k)).pending) = Len(Scan(l).pending) - (k - Len(l))

(* The closers of any log are a sequence. *)
LEMMA ClosersLike ==
    ASSUME NEW l, Sound(l), NEW cause
    PROVE  SeqLike(Closers(l, cause))
<1>1. CASE Scan(l).turn = 0
    <2>1. <<>> \in Seq({})
        OBVIOUS
    <2>2. SeqLike(<<>>)
        BY <2>1, LikeSeq
    <2> QED BY <1>1, <2>2 DEF Closers
<1>2. CASE Scan(l).turn # 0
    <2>1. WellFormed(Scan(l))
        BY DEF Sound
    <2> QED BY <1>2, <2>1, ClosersAre
<1> QED BY <1>1, <1>2

(* A log and its repair. *)
LEMMA MendedIs ==
    ASSUME NEW l, SoundParts(l), NEW cause, NEW r, r = Mended(l, cause)
    PROVE  /\ SeqLike(r) /\ Len(r) = Len(l) + Len(Closers(l, cause))
           /\ Len(l) \in Nat /\ Len(r) \in Nat /\ Len(l) <= Len(r)
           /\ \A i \in 1..Len(l) : r[i] = l[i]
           /\ \A i \in 1..Len(Closers(l, cause)) : r[Len(l) + i] = Closers(l, cause)[i]
           /\ Part(r, Len(l)) = l
<1>1. SeqLike(l) /\ Sound(l)
    BY SoundAll
<1>2. PICK c : c = Closers(l, cause)
    OBVIOUS
<1>3. SeqLike(c)
    BY <1>1, <1>2, ClosersLike
<1>4. r = l \o c
    BY <1>2 DEF Mended
<1>5. /\ SeqLike(r) /\ Len(r) = Len(l) + Len(c)
      /\ \A i \in 1..Len(l) : r[i] = l[i]
      /\ \A i \in 1..Len(c) : r[Len(l) + i] = c[i]
      /\ Len(l) \in Nat /\ Len(c) \in Nat
    BY <1>1, <1>3, <1>4, LikeConcat
<1>6. Len(r) \in Nat /\ Len(l) <= Len(r) /\ Len(l) \in 0..Len(r)
    BY <1>5
<1>7. Part(r, Len(l)) = l
    BY <1>1, <1>5, <1>6, PartWhole
<1> QED BY <1>2, <1>5, <1>6, <1>7

(* The repair goes on from each of its events to the next. *)
LEMMA MendingNext ==
    ASSUME NEW l, SoundParts(l), NEW cause, NEW r, r = Mended(l, cause),
           NEW k \in Nat, k < Len(r), Len(l) <= k, Mending(l, r, k, cause)
    PROVE  Mending(l, r, k + 1, cause)
<1>1. /\ SeqLike(r) /\ Len(r) \in Nat /\ Len(l) \in Nat
    BY MendedIs
<1>2. k \in 0..Len(r) /\ k \in 0..(Len(r) - 1) /\ k + 1 \in 0..Len(r)
    BY <1>1
<1>3. PICK p : p = Part(r, k)
    OBVIOUS
<1>4. PICK q : q = Part(r, k + 1)
    OBVIOUS
<1>5. SeqLike(p) /\ Len(p) = k /\ OneMore(p, q, r[k + 1])
    BY <1>1, <1>2, <1>3, <1>4, PartIs, PartNext
<1>6. Sound(p) /\ Mended(p, cause) = r
    BY <1>3 DEF Mending
<1>7. PICK c : c = Closers(p, cause)
    OBVIOUS
<1>8. SeqLike(c) /\ r = p \o c
    BY <1>6, <1>7, ClosersLike DEF Mended
<1>9. /\ Len(r) = k + Len(c) /\ Len(c) \in Nat
      /\ \A i \in 1..Len(c) : r[k + i] = c[i]
    <2>1. /\ Len(p \o c) = Len(p) + Len(c) /\ Len(c) \in Nat
          /\ \A i \in 1..Len(c) : (p \o c)[Len(p) + i] = c[i]
        <3>1. SeqLike(p) /\ SeqLike(c)
            BY <1>5, <1>8
        <3> QED BY <3>1, LikeConcat
    <2> QED BY <1>5, <1>8, <2>1
<1>10. Len(c) # 0 /\ r[k + 1] = c[1]
    <2>1. Len(c) # 0 /\ 1 \in 1..Len(c)
        BY <1>9
    <2> QED BY <1>9, <2>1
<1>11. PICK s : s = Scan(p)
    OBVIOUS
<1>12. s.turn # 0
    <2> SUFFICES ASSUME s.turn = 0 PROVE FALSE
        OBVIOUS
    <2>1. c = <<>>
        BY <1>7, <1>11 DEF Closers
    <2>2. Len(<<>>) = 0
        OBVIOUS
    <2> QED BY <1>10, <2>1, <2>2
<1>13. PICK t : t = Scan(q)
    OBVIOUS
<1>14. OneMore(p, q, c[1])
    BY <1>5, <1>10
<1>15. /\ Follows(p, s, c[1]) /\ Rest(c, Closers(q, cause))
       /\ s.pending # <<>> => Shifts(s, t)
    BY <1>6, <1>7, <1>11, <1>12, <1>13, <1>14, <1>5, ClosersStep
<1>16. Sound(q)
    <2>1. PICK u : u = Observe(s, c[1])
        OBVIOUS
    <2>2. Onward(p, q, c[1], s, u)
        BY <1>6, <1>11, <1>14, <1>15, <2>1 DEF Onward
    <2> QED BY <2>2, SoundOn
<1>17. Mended(q, cause) = r
    <2>1. PICK d : d = Closers(q, cause)
        OBVIOUS
    <2>2. q \o d = p \o c
        <3>1. Advances(p, c, q, d)
            <4>1. SeqLike(p) /\ SeqLike(c) /\ Len(c) \in Nat \ {0} /\ Rest(c, d)
                BY <1>5, <1>8, <1>9, <1>10, <1>15, <2>1
            <4> QED BY <1>14, <4>1 DEF Advances
        <3> QED BY <3>1, MendedNext
    <2> QED BY <1>8, <2>1, <2>2 DEF Mended
<1>18. PICK n \in Nat : n = Len(Scan(l).pending)
    <2>1. WellFormed(Scan(l))
        BY SoundAll DEF Sound
    <2> QED BY <2>1, Holds
<1>19. ASSUME k + 1 <= Len(l) + n
       PROVE  /\ t.turn = Scan(l).turn /\ t.step = Scan(l).step
              /\ Len(t.pending) = n - ((k + 1) - Len(l))
    <2>1. k <= Len(l) + n
        BY <1>1, <1>19
    <2>2. /\ s.turn = Scan(l).turn /\ s.step = Scan(l).step
          /\ Len(s.pending) = n - (k - Len(l))
        BY <1>3, <1>11, <1>18, <2>1 DEF Mending
    <2>3. Len(s.pending) # 0
        <3>1. n - (k - Len(l)) # 0
            BY <1>1, <1>19
        <3> QED BY <2>2, <3>1
    <2>4. s.pending # <<>>
        <3>1. Len(<<>>) = 0
            OBVIOUS
        <3> QED BY <2>3, <3>1
    <2>5. Shifts(s, t)
        BY <1>15, <2>4
    <2>6. t.turn = s.turn /\ t.step = s.step /\ Len(t.pending) = Len(s.pending) - 1
        BY <2>5 DEF Shifts
    <2>7. (n - (k - Len(l))) - 1 = n - ((k + 1) - Len(l))
        BY <1>1
    <2> QED BY <2>2, <2>6, <2>7
<1> QED BY <1>4, <1>13, <1>16, <1>17, <1>18, <1>19 DEF Mending

(* However much of its closers is there, a log that began sound is repaired to
   the same, and at the end of the repair no turn is open. *)
LEMMA Mends ==
    ASSUME NEW l, SoundParts(l), NEW cause, NEW r, r = Mended(l, cause)
    PROVE  /\ SoundParts(r) /\ Scan(r).turn = 0
           /\ Len(l) <= Len(r) /\ Len(l) \in Nat /\ Len(r) \in Nat
           /\ \A k \in Len(l)..Len(r) : Mending(l, r, k, cause)
<1>1. /\ SeqLike(r) /\ Len(r) \in Nat /\ Len(l) \in Nat /\ Len(l) <= Len(r)
      /\ Part(r, Len(l)) = l
    BY MendedIs
<1>2. PICK x \in Nat : x = Len(l)
    BY <1>1
<1>3. PICK y \in Nat : y = Len(r) /\ x <= y
    BY <1>1, <1>2
<1> DEFINE S == {k \in x..y : Mending(l, r, k, cause)}
<1>4. Mending(l, r, x, cause)
    <2>1. Sound(l) /\ Part(r, x) = l
        BY <1>1, <1>2, SoundAll
    <2>2. PICK n \in Nat : n = Len(Scan(l).pending)
        <3>1. WellFormed(Scan(l))
            BY <2>1 DEF Sound
        <3> QED BY <3>1, Holds
    <2>3. n - (x - Len(l)) = n
        BY <1>2
    <2> QED BY <1>2, <2>1, <2>2, <2>3 DEF Mending
<1>5. ASSUME NEW k \in x..(y - 1), k \in S PROVE k + 1 \in S
    <2>1. k \in Nat /\ k < Len(r) /\ Len(l) <= k /\ k + 1 \in x..y
        BY <1>2, <1>3
    <2>2. Mending(l, r, k, cause)
        BY <1>5
    <2>3. Mending(l, r, k + 1, cause)
        BY <2>1, <2>2, MendingNext
    <2> QED BY <2>1, <2>3
<1>6. x \in S /\ S \in SUBSET (x..y)
    BY <1>3, <1>4
<1> HIDE DEF S
<1>7. S = x..y
    BY <1>3, <1>5, <1>6, UpTo
<1>8. \A k \in x..y : Mending(l, r, k, cause)
    BY <1>7 DEF S
<1>9. SoundParts(r)
    <2>1. ASSUME NEW k \in 0..y PROVE Sound(Part(r, k))
        <3>1. CASE k \in x..y
            BY <1>8, <3>1 DEF Mending
        <3>2. CASE k \in 0..x
            <4>1. k \in 0..Len(l) /\ k \in 0..Len(r) /\ \A i \in 1..k : i \in 1..Len(l)
                BY <1>2, <1>3, <3>2
            <4>2. \A i \in 1..Len(l) : r[i] = l[i]
                BY MendedIs
            <4>3. SeqLike(l) /\ \A i \in 1..k : l[i] = r[i]
                BY <4>1, <4>2 DEF SoundParts
            <4>4. Part(l, k) = Part(r, k)
                BY <1>1, <4>1, <4>3, PartSame
            <4> QED BY <4>1, <4>4 DEF SoundParts
        <3> QED BY <3>1, <3>2
    <2> QED BY <1>1, <1>3, <2>1 DEF SoundParts
<1>10. Scan(r).turn = 0
    <2>1. Part(r, y) = r
        BY <1>1, <1>3, PartAll
    <2>2. Mended(r, cause) = r
        BY <1>3, <1>8, <2>1 DEF Mending
    <2>3. PICK c : c = Closers(r, cause)
        OBVIOUS
    <2>4. SeqLike(c)
        BY <1>9, <2>3, SoundAll, ClosersLike
    <2>5. Len(r \o c) = Len(r) + Len(c) /\ Len(c) \in Nat
        BY <1>1, <2>4, LikeConcat
    <2>6. Len(c) = 0
        BY <1>1, <2>2, <2>3, <2>5 DEF Mended
    <2> SUFFICES ASSUME Scan(r).turn # 0 PROVE FALSE
        OBVIOUS
    <2>7. WellFormed(Scan(r))
        BY <1>9, SoundAll DEF Sound
    <2>8. PICK s : s = Scan(r)
        OBVIOUS
    <2>9. Len(c) = 1 \/ \E n \in Nat : Len(c) = n + 2
        BY <2>3, <2>7, <2>8, ClosersAre
    <2> QED BY <2>6, <2>9
<1> QED BY <1>1, <1>2, <1>3, <1>8, <1>9, <1>10

-----------------------------------------------------------------------------
(* What soundness means for a reader of the log. *)

(* A sound log in which no turn is open is balanced. *)
LEMMA BalancedAtRest ==
    ASSUME NEW l, Sound(l), Scan(l).turn = 0
    PROVE  Balanced(l)
<1>1. PICK s : s = Scan(l)
    OBVIOUS
<1>2. s.turn = 0 /\ s.step = 0 /\ s.pending = <<>> /\ DOMAIN s.pending = {}
    <2>1. s.turn = 0 /\ s.step = 0 /\ s.pending = <<>>
        BY <1>1, Holds DEF Sound
    <2> QED BY <2>1
<1>3. BracketsFit(l, s) /\ CallsFit(l, s)
    BY <1>1 DEF Sound
<1>4. ASSUME NEW i \in 1..Len(l), l[i].type = "turn/start"
      PROVE  ClosedBy(l, i, "turn/end", {"turn/start", "turn/end"})
    BY <1>2, <1>3, <1>4 DEF BracketsFit
<1>5. ASSUME NEW i \in 1..Len(l), l[i].type = "step/start"
      PROVE  ClosedBy(l, i, "step/end", {"step/start", "step/end", "turn/end"})
    BY <1>2, <1>3, <1>5 DEF BracketsFit
<1>6. ASSUME NEW i \in 1..Len(l), l[i].type = "assistant/message", NEW c \in 1..Len(l[i].calls)
      PROVE  Settled(l, i, c)
    <2>1. ~Waits(l, s, i, c)
        BY <1>2 DEF Waits
    <2> QED BY <1>3, <1>6, <2>1 DEF CallsFit
<1> QED BY <1>4, <1>5, <1>6 DEF Balanced

-----------------------------------------------------------------------------
(* The scan and the writer of the log. *)

Agrees(s, turn, step, a, c, b) ==
    /\ s.turn = turn /\ s.step = step /\ Len(s.pending) = a - b
    /\ \A k \in 1..(a - b) :
          s.pending[k].call = b + k /\ s.pending[k].started = (b + k <= c)

Awaited(turn, step, a, c, b) ==
    [k \in 1..(a - b) |-> [call |-> b + k, turn |-> turn, step |-> step, started |-> b + k <= c]]

(* The scan is what the writer knows if it agrees call by call. *)
LEMMA AgreesIs ==
    ASSUME NEW s, WellFormed(s), NEW turn, NEW step, NEW lt, NEW ls,
           NEW a \in Nat, NEW b \in 0..a, NEW c \in Nat,
           a # b => turn = lt /\ step = ls
    PROVE  Agrees(s, turn, step, a, c, b) <=> s = At(turn, step, Awaited(lt, ls, a, c, b))
<1>1. PICK n \in Nat : n = a - b
    OBVIOUS
<1>2. PICK w : w = Awaited(lt, ls, a, c, b)
    OBVIOUS
<1>3. ASSUME NEW k \in 1..n
      PROVE  /\ w[k] = [call |-> b + k, turn |-> lt, step |-> ls, started |-> b + k <= c]
             /\ w[k].call = b + k /\ w[k].started = (b + k <= c)
             /\ w[k].turn = lt /\ w[k].step = ls
    BY <1>1, <1>2 DEF Awaited
<1>4. SeqLike(w) /\ Len(w) = n
    <2>1. w = [k \in 1..n |-> w[k]]
        BY <1>1, <1>2 DEF Awaited
    <2>2. w \in Seq({w[k] : k \in 1..n}) /\ Len(w) = n
        BY <2>1
    <2> QED BY <2>2, LikeSeq
<1>5. ASSUME s = At(turn, step, w)
      PROVE  Agrees(s, turn, step, a, c, b)
    <2>1. s.turn = turn /\ s.step = step /\ s.pending = w
        BY <1>5 DEF At
    <2>2. \A k \in 1..n : w[k].call = b + k /\ w[k].started = (b + k <= c)
        BY <1>3
    <2> QED BY <1>1, <1>4, <2>1, <2>2 DEF Agrees
<1>6. ASSUME Agrees(s, turn, step, a, c, b)
      PROVE  s = At(turn, step, w)
    <2>1. PICK p : p = s.pending
        OBVIOUS
    <2>2. s.turn = turn /\ s.step = step /\ Len(p) = n
        BY <1>1, <1>6, <2>1 DEF Agrees
    <2>3. SeqLike(p) /\ s = At(s.turn, s.step, p)
        BY <2>1, Holds
    <2>4. ASSUME NEW k \in 1..n PROVE p[k] = w[k]
        <3>1. /\ p[k] \in Call1(s.turn, s.step)
              /\ p[k].turn = s.turn /\ p[k].step = s.step
            BY <2>1, <2>2, Holds
        <3>2. p[k].call = b + k /\ p[k].started = (b + k <= c)
            BY <1>1, <1>6, <2>1 DEF Agrees
        <3>3. a # b
            BY <1>1
        <3>4. p[k].turn = lt /\ p[k].step = ls
            BY <2>2, <3>1, <3>3
        <3>5. \A q \in Call1(s.turn, s.step) :
                 q = [call |-> q.call, turn |-> q.turn, step |-> q.step, started |-> q.started]
            BY DEF Call1
        <3>6. p[k] = [call |-> p[k].call, turn |-> p[k].turn, step |-> p[k].step, started |-> p[k].started]
            BY <3>1, <3>5
        <3>7. p[k] = [call |-> b + k, turn |-> lt, step |-> ls, started |-> b + k <= c]
            BY <3>2, <3>4, <3>6
        <3> QED BY <1>3, <3>7
    <2>5. p = w
        BY <1>4, <2>2, <2>3, <2>4, SameSeq
    <2> QED BY <2>2, <2>3, <2>5
<1> QED BY <1>2, <1>5, <1>6

(* What holds while the writer is live. *)
OpenTurn == IF turnOpen THEN logTurn ELSE 0
OpenStep == IF stepOpen THEN logStep ELSE 0
Sees == Agrees(Scan(log), OpenTurn, OpenStep, asked, called, answered)
Counts ==
    /\ logTurn = Count(log, "turn/start") /\ (turnOpen => logTurn > 0)
    /\ logStep <= Count(log, "step/start")
Nests ==
    /\ stepOpen => turnOpen /\ logStep > 0
    /\ ~stepOpen => asked = 0 /\ called = 0 /\ answered = 0
Within(l, turn, n) ==
    \A i \in 1..Len(l) :
        l[i].type \in {"tool/call", "tool/result"} /\ l[i].turn = turn => l[i].step \in 1..n
Ordered == turnOpen => Within(log, logTurn, logStep)
Asking == stepOpen /\ asked = 0 => Fresh(log, logTurn, logStep)
Bounded == TypeOK /\ logTurn <= MaxTurns /\ logStep <= MaxSteps
LiveInv == Bounded /\ Sees /\ Counts /\ Nests /\ Ordered /\ Asking

LEMMA AgreesLog ==
    ASSUME TypeOK, WellFormed(Scan(log)), Nests, mode = "live"
    PROVE  ScanAgrees <=> Sees
<1>1. /\ asked \in Nat /\ answered \in 0..asked /\ called \in Nat
      /\ asked # answered => OpenTurn = logTurn /\ OpenStep = logStep
    BY DEF TypeOK, Nests, OpenTurn, OpenStep
<1>2. Sees <=> Scan(log) = At(OpenTurn, OpenStep, Awaited(logTurn, logStep, asked, called, answered))
    BY <1>1, AgreesIs DEF Sees
<1> QED BY <1>2 DEF ScanAgrees, At, Awaited, OpenTurn, OpenStep

LEMMA LiveIs ==
    ASSUME RepairInv, mode = "live"
    PROVE  LiveInv /\ IsPrefix(expected, log)
<1>1. Knows /\ RepairTypeOK
    BY DEF RepairInv
<1>2. Counts /\ Nests /\ Ordered /\ Asking /\ Bounded /\ IsPrefix(expected, log) /\ ScanAgrees
    BY <1>1 DEF Knows, Counts, Nests, Ordered, Within, Asking, Bounded, RepairTypeOK
<1>3. SoundParts(log)
    BY DEF RepairInv, SoundParts, SeqLike, Part
<1>4. WellFormed(Scan(log))
    BY <1>3, SoundAll DEF Sound
<1>5. Sees
    BY <1>2, <1>4, AgreesLog DEF Bounded
<1> QED BY <1>2, <1>5 DEF LiveInv

-----------------------------------------------------------------------------
(* The invariant says that every repair is sound. *)

LEMMA InvLog ==
    ASSUME RepairInv
    PROVE  /\ SoundParts(log) /\ SeqLike(expected) /\ RepairTypeOK
           /\ SeqLike(log) /\ Len(log) \in Nat /\ Sound(log) /\ WellFormed(Scan(log))
<1>1. SoundParts(log) /\ SeqLike(expected) /\ RepairTypeOK
    BY DEF RepairInv, SoundParts, SeqLike, Part
<1> QED BY <1>1, SoundAll DEF Sound

(* The marker of a seed may follow any log. *)
LEMMA SeedFollows ==
    ASSUME NEW l, SoundParts(l), NEW m, m = Append(l, EndSeed)
    PROVE  OneMore(l, m, EndSeed) /\ SoundParts(m) /\ Scan(m) = Scan(l)
<1>1. PICK e : e = EndSeed
    OBVIOUS
<1>2. SeqLike(l) /\ WellFormed(Scan(l))
    BY SoundAll DEF Sound
<1>3. /\ SeqLike(Append(l, e)) /\ Len(Append(l, e)) = Len(l) + 1
      /\ \A i \in 1..Len(l) : Append(l, e)[i] = l[i]
      /\ Append(l, e)[Len(l) + 1] = e
    BY <1>2, LikeAppend
<1>4. OneMore(l, m, e)
    BY <1>1, <1>2, <1>3 DEF OneMore
<1>5. Seeds(e)
    BY <1>1 DEF Seeds, EndSeed
<1>6. Follows(l, Scan(l), e)
    BY <1>5 DEF Follows
<1>7. SoundParts(m) /\ Scan(m) = Observe(Scan(l), e)
    BY <1>4, <1>6, SoundPartsOn
<1>8. Observe(Scan(l), e) = Scan(l)
    BY <1>2, <1>5, Holds, ObserveIs DEF Seeds
<1> QED BY <1>1, <1>4, <1>7, <1>8

(* Wherever it is cut, a log of the invariant is repaired to a balanced one
   with honest results. *)
LEMMA InvSound ==
    ASSUME RepairInv
    PROVE  RepairSound
<1>1. SoundParts(log) /\ RepairTypeOK
    BY InvLog
<1>2. ScanAgrees
    BY DEF RepairInv, Knows, ScanAgrees
<1>3. PICK r : r = Mended(log, "interrupted")
    OBVIOUS
<1>4. SoundParts(r) /\ Scan(r).turn = 0
    BY <1>1, <1>3, Mends
<1>5. Sound(r) /\ Balanced(r)
    BY <1>4, SoundAll, BalancedAtRest
<1>6. r = Repaired(log)
    BY <1>3 DEF Mended, Repaired
<1>7. Balanced(ForkSeed(log))
    <2>1. PICK m : m = Append(log, EndSeed)
        OBVIOUS
    <2>2. SoundParts(m)
        BY <1>1, <2>1, SeedFollows
    <2>3. PICK f : f = Mended(m, "forked")
        OBVIOUS
    <2>4. SoundParts(f) /\ Scan(f).turn = 0
        BY <2>2, <2>3, Mends
    <2>5. Balanced(f)
        BY <2>4, SoundAll, BalancedAtRest
    <2>6. f = ForkSeed(log)
        BY <2>1, <2>3 DEF Mended, ForkSeed
    <2> QED BY <2>5, <2>6
<1>8. EveryCutRepairs
    BY <1>5, <1>6, <1>7 DEF EveryCutRepairs
<1>9. HonestOutcomes
    <2>1. \A i \in 1..Len(r) : r[i].type = "tool/result" => Honest(r, i)
        BY <1>5 DEF Sound
    <2> QED BY <1>6, <2>1 DEF HonestOutcomes
<1>10. RepairConverges
    <2>1. CASE mode = "live"
        BY <2>1 DEF RepairInv, Knows, RepairConverges
    <2>2. CASE mode = "down"
        BY <2>2 DEF RepairInv, RepairConverges
    <2>3. CASE mode = "resuming"
        <3>1. log = expected /\ \A k \in durable..Len(log) : Repaired(SubSeq(log, 1, k)) = expected
            BY <2>3 DEF RepairInv, Converges
        <3>2. Len(log) \in durable..Len(log)
            BY <1>1 DEF RepairTypeOK
        <3>3. SubSeq(log, 1, Len(log)) = log
            BY <1>1, PartAll DEF SoundParts, Part
        <3>4. Repaired(log) = expected
            BY <3>1, <3>2, <3>3
        <3> QED BY <2>3, <3>4 DEF RepairConverges
    <2> QED BY <1>1, <2>1, <2>2, <2>3 DEF RepairTypeOK
<1> QED BY <1>1, <1>2, <1>8, <1>9, <1>10 DEF RepairSound

-----------------------------------------------------------------------------
(* The steps of a live session. *)

(* A log that goes on still begins with the repaired one. *)
LEMMA PrefixOn ==
    ASSUME NEW x, SeqLike(x), NEW l, SeqLike(l), NEW m, SeqLike(m), IsPrefix(x, l),
           Len(l) <= Len(m), \A i \in 1..Len(l) : m[i] = l[i]
    PROVE  IsPrefix(x, m)
<1>1. Len(x) \in Nat /\ Len(l) \in Nat /\ Len(m) \in Nat
    BY LikeSeq DEF SeqLike
<1>2. Len(x) <= Len(l) /\ Part(x, Len(x)) = Part(l, Len(x))
    BY DEF IsPrefix, Part
<1>3. PICK k \in Nat : k = Len(x) /\ k \in 0..Len(l) /\ k \in 0..Len(m)
    BY <1>1, <1>2
<1>4. \A i \in 1..k : i \in 1..Len(l)
    BY <1>1, <1>3
<1>5. Part(l, k) = Part(m, k)
    BY <1>3, <1>4, PartSame
<1> QED BY <1>1, <1>2, <1>3, <1>5 DEF IsPrefix, Part

(* An event that may follow is appended. *)
LEMMA LiveOn ==
    ASSUME RepairInv, NEW e, Append1(e), Follows(log, Scan(log), e)
    PROVE  /\ OneMore(log, log', e) /\ SoundParts(log')
           /\ Onward(log, log', e, Scan(log), Scan(log'))
           /\ WellFormed(Scan(log)) /\ WellFormed(Scan(log'))
<1>1. SoundParts(log) /\ SeqLike(log) /\ Sound(log) /\ WellFormed(Scan(log))
    BY InvLog
<1>2. PICK m : m = log'
    OBVIOUS
<1>3. m = Append(log, e)
    BY <1>2 DEF Append1
<1>4. /\ SeqLike(Append(log, e)) /\ Len(Append(log, e)) = Len(log) + 1
      /\ \A i \in 1..Len(log) : Append(log, e)[i] = log[i]
      /\ Append(log, e)[Len(log) + 1] = e
    BY <1>1, LikeAppend
<1>5. OneMore(log, m, e)
    BY <1>1, <1>3, <1>4 DEF OneMore
<1>6. SoundParts(m) /\ Scan(m) = Observe(Scan(log), e)
    BY <1>1, <1>5, SoundPartsOn
<1>7. Onward(log, m, e, Scan(log), Scan(m))
    BY <1>1, <1>5, <1>6 DEF Onward
<1>8. WellFormed(Scan(m))
    BY <1>6, SoundAll DEF Sound
<1> QED BY <1>1, <1>2, <1>5, <1>6, <1>7, <1>8

(* A writer that sees what the scan finds knows its log. *)
LEMMA Known ==
    ASSUME WellFormed(Scan(log')), LiveInv', IsPrefix(expected', log')
    PROVE  Knows'
<1>1. TypeOK' /\ Nests' /\ Sees'
    BY DEF LiveInv, Bounded
<1>2. PICK s : s = Scan(log')
    OBVIOUS
<1>3. PICK a, b, c, turn, step, lt, ls :
          /\ a = asked' /\ b = answered' /\ c = called' /\ lt = logTurn' /\ ls = logStep'
          /\ turn = OpenTurn' /\ step = OpenStep'
    OBVIOUS
<1>4. a \in Nat /\ b \in 0..a /\ c \in Nat /\ (a # b => turn = lt /\ step = ls)
    BY <1>1, <1>3 DEF TypeOK, Nests, OpenTurn, OpenStep
<1>5. WellFormed(s) /\ Agrees(s, turn, step, a, c, b)
    BY <1>1, <1>2, <1>3 DEF Sees
<1>6. s = At(turn, step, Awaited(lt, ls, a, c, b))
    BY <1>4, <1>5, AgreesIs
<1>7. ScanAgrees'
    BY <1>2, <1>3, <1>6 DEF ScanAgrees, At, Awaited, OpenTurn, OpenStep
<1> QED BY <1>7 DEF Knows, LiveInv, Counts, Nests, Ordered, Within, Asking

(* A live step keeps the invariant if the writer still knows its log. *)
LEMMA LiveKept ==
    ASSUME RepairInv, mode = "live", mode' = mode, SoundParts(log'), Len(log) <= Len(log'),
           \A i \in 1..Len(log) : log'[i] = log[i],
           UNCHANGED <<durable, expected, crashes>>, LiveInv'
    PROVE  RepairInv'
<1>1. SoundParts(log) /\ SeqLike(log) /\ Len(log) \in Nat /\ SeqLike(expected) /\ RepairTypeOK
    BY InvLog
<1>2. SeqLike(log') /\ Len(log') \in Nat /\ Sound(log') /\ WellFormed(Scan(log'))
    BY SoundAll DEF Sound
<1>3. \A i \in 1..Len(log') : log'[i].type = "tool/result" => log'[i].outcome \in Outcomes
    BY <1>2 DEF Sound
<1>4. durable' \in 0..Len(log') /\ crashes' \in 0..MaxCrashes
    BY <1>1, <1>2 DEF RepairTypeOK
<1>5. RepairTypeOK'
    BY <1>1, <1>3, <1>4 DEF RepairTypeOK, LiveInv, Bounded
<1>6. IsPrefix(expected, log)
    BY LiveIs
<1>7. IsPrefix(expected', log')
    <2>1. PICK m : m = log'
        OBVIOUS
    <2>2. IsPrefix(expected, m)
        BY <1>1, <1>2, <1>6, <2>1, PrefixOn
    <2> QED BY <2>1, <2>2
<1>8. Knows'
    BY <1>2, <1>7, Known
<1>9. \A k \in 0..Len(log') : Sound(SubSeq(log', 1, k))
    BY DEF SoundParts, Part
<1>10. Count(log', "turn/start") <= MaxTurns
    BY DEF LiveInv, Bounded, Counts
<1>11. expected' \in Seq(Range(expected')) /\ log' \in Seq(Range(log'))
    BY <1>1, <1>2 DEF SeqLike
<1>12. mode' # "down" /\ mode' # "resuming"
    OBVIOUS
<1> QED BY <1>5, <1>8, <1>9, <1>10, <1>11, <1>12 DEF RepairInv

(* So does one that appends an event. *)
LEMMA AppendKept ==
    ASSUME RepairInv, NEW e, Append1(e), Follows(log, Scan(log), e), LiveInv'
    PROVE  RepairInv'
<1>1. OneMore(log, log', e) /\ SoundParts(log')
    BY LiveOn
<1>2. mode = "live" /\ mode' = mode /\ UNCHANGED <<durable, expected, crashes>>
    BY DEF Append1
<1>3. Len(log) \in Nat
    BY InvLog
<1>4. Len(log) <= Len(log') /\ \A i \in 1..Len(log) : log'[i] = log[i]
    BY <1>1, <1>3 DEF OneMore
<1> QED BY <1>1, <1>2, <1>4, LiveKept


(* The calls and results of the turn stay in its steps. *)
LEMMA WithinOn ==
    ASSUME NEW l, NEW m, NEW e, OneMore(l, m, e), NEW turn, NEW a \in Nat, NEW b \in Nat, a <= b,
           Within(l, turn, a),
           e.type \in {"tool/call", "tool/result"} => e.step \in 1..b
    PROVE  Within(m, turn, b)
<1>1. PICK n \in Nat : /\ n = Len(l) /\ Len(m) = n + 1 /\ m[n + 1] = e
                       /\ \A i \in 1..n : m[i] = l[i]
    BY OneMorePlaces
<1> SUFFICES ASSUME NEW i \in 1..(n + 1), m[i].type \in {"tool/call", "tool/result"}, m[i].turn = turn
             PROVE  m[i].step \in 1..b
    BY <1>1 DEF Within
<1>2. CASE i = n + 1
    BY <1>1, <1>2
<1>3. CASE i # n + 1
    <2>1. i \in 1..n /\ m[i] = l[i]
        BY <1>1, <1>3
    <2>2. l[i].step \in 1..a
        BY <1>1, <2>1 DEF Within
    <2> QED BY <2>1, <2>2
<1> QED BY <1>2, <1>3

(* How many turns and steps begin in a log with an event more. *)
LEMMA CountsOn ==
    ASSUME NEW l, NEW m, NEW e, OneMore(l, m, e)
    PROVE  /\ Count(l, "turn/start") \in Nat /\ Count(l, "step/start") \in Nat
           /\ Count(m, "turn/start") =
                 Count(l, "turn/start") + (IF e.type = "turn/start" THEN 1 ELSE 0)
           /\ Count(m, "step/start") =
                 Count(l, "step/start") + (IF e.type = "step/start" THEN 1 ELSE 0)
<1>1. /\ Count(l, "turn/start") \in Nat /\ Count(m, "turn/start") \in Nat
      /\ e.type = "turn/start" => Count(m, "turn/start") = Count(l, "turn/start") + 1
      /\ e.type # "turn/start" => Count(m, "turn/start") = Count(l, "turn/start")
    BY CountOn
<1>2. /\ Count(l, "step/start") \in Nat /\ Count(m, "step/start") \in Nat
      /\ e.type = "step/start" => Count(m, "step/start") = Count(l, "step/start") + 1
      /\ e.type # "step/start" => Count(m, "step/start") = Count(l, "step/start")
    BY CountOn
<1> QED BY <1>1, <1>2

(* What a live step may rely on. *)
LEMMA LiveFacts ==
    ASSUME RepairInv, mode = "live"
    PROVE  /\ Bounded /\ Counts /\ Nests /\ Ordered /\ Asking /\ Numbered(log)
           /\ WellFormed(Scan(log)) /\ SeqLike(Scan(log).pending)
           /\ Scan(log).turn = OpenTurn /\ Scan(log).step = OpenStep
           /\ Len(Scan(log).pending) = asked - answered
           /\ \A k \in 1..(asked - answered) :
                 /\ Scan(log).pending[k].call = answered + k
                 /\ Scan(log).pending[k].started = (answered + k <= called)
           /\ Len(Scan(log).pending) = 0 => Scan(log).pending = <<>>
           /\ Scan(log).pending = <<>> => Len(Scan(log).pending) = 0
           /\ {MaxTurns, MaxSteps, MaxCrashes} \subseteq Nat
<1>1. LiveInv
    BY LiveIs
<1>2. Sound(log) /\ WellFormed(Scan(log))
    BY InvLog
<1>3. PICK s : s = Scan(log)
    OBVIOUS
<1>4. SeqLike(s.pending) /\ Len(s.pending) \in Nat
    BY <1>2, <1>3, Holds
<1>5. Len(s.pending) = 0 <=> s.pending = <<>>
    BY <1>4 DEF SeqLike
<1>6. Agrees(s, OpenTurn, OpenStep, asked, called, answered)
    BY <1>1, <1>3 DEF LiveInv, Sees
<1>7. Numbered(log)
    BY <1>2 DEF Sound
<1> QED BY <1>1, <1>2, <1>3, <1>4, <1>5, <1>6, <1>7, BoundsAssumption DEF LiveInv, Agrees

(* A turn starts. *)
LEMMA LiveStartTurnInv ==
    ASSUME RepairInv, LiveStartTurn
    PROVE  RepairInv'
<1>1. PICK e : e = TurnStart
    OBVIOUS
<1>2. /\ mode = "live" /\ Append1(e) /\ logTurn < MaxTurns /\ ~turnOpen
      /\ logTurn' = logTurn + 1 /\ turnOpen' = TRUE
      /\ logStep' = 0 /\ stepOpen' = FALSE /\ asked' = 0 /\ called' = 0 /\ answered' = 0
      /\ e.type = "turn/start" /\ e.turn = logTurn + 1
    BY <1>1 DEF LiveStartTurn, StartTurn, Append1, TurnStart
<1>3. /\ Bounded /\ Counts /\ Numbered(log) /\ Scan(log).turn = OpenTurn
      /\ {MaxTurns, MaxSteps, MaxCrashes} \subseteq Nat
    BY <1>2, LiveFacts
<1>4. StartsTurn(log, Scan(log), e)
    BY <1>2, <1>3 DEF StartsTurn, OpenTurn, Counts
<1>5. Follows(log, Scan(log), e)
    BY <1>4 DEF Follows
<1>6. OneMore(log, log', e) /\ Onward(log, log', e, Scan(log), Scan(log'))
    BY <1>2, <1>5, LiveOn
<1>7. Scan(log').turn = logTurn + 1 /\ Scan(log').step = 0 /\ Scan(log').pending = <<>>
    BY <1>2, <1>4, <1>6, ScanMoves DEF Empties
<1>8. Bounded'
    <2>1. logTurn \in Nat /\ MaxTurns \in Nat /\ MaxSteps \in Nat
        BY <1>3 DEF Bounded, TypeOK
    <2>2. logTurn' \in Nat /\ logTurn' <= MaxTurns /\ logStep' \in Nat /\ logStep' <= MaxSteps
        BY <1>2, <2>1
    <2>3. asked' \in Nat /\ called' \in 0..asked' /\ answered' \in 0..asked'
        BY <1>2
    <2> QED BY <1>2, <2>2, <2>3 DEF Bounded, TypeOK
<1>9. Sees'
    BY <1>2, <1>7 DEF Sees, Agrees, OpenTurn, OpenStep
<1>10. Counts'
    <2>1. /\ Count(log, "turn/start") \in Nat /\ Count(log', "step/start") \in Nat
          /\ Count(log', "turn/start") = Count(log, "turn/start") + 1
        BY <1>2, <1>6, CountOn
    <2> QED BY <1>2, <1>3, <2>1 DEF Counts
<1>11. Nests' /\ Asking'
    BY <1>2 DEF Nests, Asking
<1>12. Ordered'
    <2>1. PICK n \in Nat : /\ n = Len(log) /\ Len(log') = n + 1 /\ log'[n + 1] = e
                           /\ \A i \in 1..n : log'[i] = log[i]
        BY <1>6, OneMorePlaces
    <2> SUFFICES ASSUME NEW i \in 1..(n + 1), log'[i].type \in {"tool/call", "tool/result"},
                        log'[i].turn = logTurn + 1
                 PROVE  FALSE
        BY <1>2, <2>1 DEF Ordered, Within
    <2>2. CASE i = n + 1
        BY <1>2, <2>1, <2>2
    <2>3. CASE i # n + 1
        <3>1. i \in 1..n /\ log'[i] = log[i]
            BY <2>1, <2>3
        <3>2. log[i].turn \in 1..Count(log, "turn/start")
            BY <1>3, <2>1, <3>1 DEF Numbered, Timed
        <3> QED BY <1>3, <3>1, <3>2 DEF Counts, Bounded, TypeOK
    <2> QED BY <2>2, <2>3
<1>13. LiveInv'
    BY <1>8, <1>9, <1>10, <1>11, <1>12 DEF LiveInv
<1> QED BY <1>2, <1>5, <1>13, AppendKept

(* A step starts. *)
LEMMA LiveStartStepInv ==
    ASSUME RepairInv, LiveStartStep
    PROVE  RepairInv'
<1>1. PICK e : e = StepStart
    OBVIOUS
<1>2. /\ mode = "live" /\ Append1(e) /\ turnOpen /\ ~stepOpen
      /\ Count(log, "step/start") < MaxSteps
      /\ logStep' = logStep + 1 /\ stepOpen' = TRUE
      /\ logTurn' = logTurn /\ turnOpen' = turnOpen
      /\ asked' = asked /\ called' = called /\ answered' = answered
      /\ e.type = "step/start" /\ e.turn = logTurn /\ e.step = logStep + 1
    BY <1>1 DEF LiveStartStep, StartStep, Append1, StepStart, Count
<1>3. /\ Bounded /\ Counts /\ Nests /\ Ordered /\ Scan(log).turn = OpenTurn /\ Scan(log).step = OpenStep
      /\ {MaxTurns, MaxSteps, MaxCrashes} \subseteq Nat
    BY <1>2, LiveFacts
<1>4. asked = 0 /\ called = 0 /\ answered = 0 /\ logTurn > 0 /\ logTurn \in Nat /\ logStep \in Nat
    BY <1>2, <1>3 DEF Nests, Counts, Bounded, TypeOK
<1>5. StartsStep(Scan(log), e)
    BY <1>2, <1>3, <1>4 DEF StartsStep, OpenTurn, OpenStep
<1>6. Follows(log, Scan(log), e)
    BY <1>5 DEF Follows
<1>7. OneMore(log, log', e) /\ Onward(log, log', e, Scan(log), Scan(log'))
    BY <1>2, <1>6, LiveOn
<1>8. Scan(log').turn = logTurn /\ Scan(log').step = logStep + 1 /\ Scan(log').pending = <<>>
    BY <1>2, <1>3, <1>5, <1>7, ScanMoves DEF Empties, OpenTurn
<1>9. /\ Count(log, "step/start") \in Nat
      /\ Count(log', "turn/start") = Count(log, "turn/start")
      /\ Count(log', "step/start") = Count(log, "step/start") + 1
    BY <1>2, <1>7, CountOn
<1>10. Bounded'
    BY <1>2, <1>3, <1>9 DEF Bounded, TypeOK, Counts
<1>11. Sees'
    BY <1>2, <1>4, <1>8 DEF Sees, Agrees, OpenTurn, OpenStep
<1>12. Counts'
    BY <1>2, <1>3, <1>4, <1>9 DEF Counts
<1>13. Nests'
    BY <1>2, <1>4 DEF Nests
<1>14. Within(log, logTurn, logStep)
    BY <1>2, <1>3 DEF Ordered
<1>15. Ordered'
    <2>1. Within(log', logTurn, logStep + 1)
        BY <1>2, <1>4, <1>7, <1>14, WithinOn
    <2> QED BY <1>2, <2>1 DEF Ordered
<1>16. Asking'
    <2>1. Within(log', logTurn, logStep)
        BY <1>2, <1>4, <1>7, <1>14, WithinOn
    <2>2. Fresh(log', logTurn, logStep + 1)
        BY <1>4, <2>1 DEF Within, Fresh
    <2> QED BY <1>2, <2>2 DEF Asking
<1>17. LiveInv'
    BY <1>10, <1>11, <1>12, <1>13, <1>15, <1>16 DEF LiveInv
<1> QED BY <1>2, <1>6, <1>17, AppendKept

(* A step that moves only the calls: what its end shares with its start. *)
LEMMA LiveCalls ==
    ASSUME RepairInv, mode = "live", stepOpen, NEW e, Append1(e), Follows(log, Scan(log), e),
           UNCHANGED <<logTurn, turnOpen, logStep, stepOpen>>,
           e.type \notin {"turn/start", "step/start"},
           e.type \in {"tool/call", "tool/result"} => e.step = logStep,
           asked' \in Nat \ {0}, called' \in 0..asked', answered' \in 0..asked', Sees'
    PROVE  RepairInv'
<1>1. /\ Bounded /\ Counts /\ Nests /\ Ordered /\ {MaxTurns, MaxSteps, MaxCrashes} \subseteq Nat
    BY LiveFacts
<1>2. OneMore(log, log', e)
    BY LiveOn
<1>3. turnOpen /\ logStep > 0 /\ logTurn \in Nat /\ logStep \in Nat
    BY <1>1 DEF Nests, Bounded, TypeOK
<1>4. /\ Count(log', "turn/start") = Count(log, "turn/start")
      /\ Count(log', "step/start") = Count(log, "step/start")
    BY <1>2, CountOn
<1>5. Bounded'
    BY <1>1 DEF Bounded, TypeOK
<1>6. Counts'
    BY <1>1, <1>4 DEF Counts
<1>7. Nests' /\ Asking'
    BY <1>1 DEF Nests, Asking
<1>8. Ordered'
    <2>1. Within(log, logTurn, logStep)
        BY <1>1, <1>3 DEF Ordered
    <2>2. e.type \in {"tool/call", "tool/result"} => e.step \in 1..logStep
        BY <1>3
    <2>3. logStep <= logStep
        BY <1>3
    <2>4. Within(log', logTurn, logStep)
        BY <1>2, <1>3, <2>1, <2>2, <2>3, WithinOn
    <2> QED BY <2>4 DEF Ordered
<1>9. LiveInv'
    BY <1>5, <1>6, <1>7, <1>8 DEF LiveInv
<1> QED BY <1>9, AppendKept

(* The message of a step asks for its calls. *)
LEMMA LiveAskInv ==
    ASSUME RepairInv, LiveAsk
    PROVE  RepairInv'
<1>1. PICK n, e : n = asked' /\ e = Message([k \in 1..n |-> k])
    OBVIOUS
<1>2. /\ mode = "live" /\ Append1(e) /\ stepOpen /\ asked = 0
      /\ n \in (asked + 1)..(asked + MaxCalls)
      /\ UNCHANGED <<logTurn, turnOpen, logStep, stepOpen>>
      /\ called' = called /\ answered' = answered
      /\ e.type = "assistant/message" /\ e.turn = logTurn /\ e.step = logStep
      /\ e.calls = [k \in 1..n |-> k]
    BY <1>1 DEF LiveAsk, Ask, Append1, Message
<1>3. /\ Bounded /\ Counts /\ Nests /\ Asking
      /\ Scan(log).turn = OpenTurn /\ Scan(log).step = OpenStep
      /\ Len(Scan(log).pending) = asked - answered
      /\ Len(Scan(log).pending) = 0 => Scan(log).pending = <<>>
    BY <1>2, LiveFacts
<1>4. called = 0 /\ answered = 0 /\ turnOpen /\ logStep > 0 /\ n \in Nat \ {0}
    BY <1>2, <1>3, MaxCallsAssumption DEF Nests, Bounded, TypeOK
<1>5. Asks(log, Scan(log), e)
    <2>1. Fresh(log, e.turn, e.step)
        BY <1>2, <1>3 DEF Asking
    <2>2. Of(Scan(log), e)
        BY <1>2, <1>3, <1>4 DEF Of, OpenTurn, OpenStep
    <2>3. Scan(log).pending = <<>>
        BY <1>2, <1>3, <1>4
    <2>4. \E j \in Nat : e.calls = [k \in 1..j |-> k]
        BY <1>2, <1>4
    <2> QED BY <1>2, <2>1, <2>2, <2>3, <2>4 DEF Asks
<1>6. Follows(log, Scan(log), e)
    BY <1>5 DEF Follows
<1>7. Onward(log, log', e, Scan(log), Scan(log'))
    BY <1>2, <1>6, LiveOn
<1>8. Opens(Scan(log'), e)
    BY <1>5, <1>7, ScanMoves
<1>9. Sees'
    <2>1. Len(e.calls) = n
        BY <1>2, <1>4
    <2>2. Len(Scan(log').pending) = n - 0
        BY <1>4, <1>8, <2>1 DEF Opens
    <2>3. ASSUME NEW k \in 1..n
          PROVE  Scan(log').pending[k].call = 0 + k /\ Scan(log').pending[k].started = (0 + k <= 0)
        <3>1. Scan(log').pending[k].call = k /\ Scan(log').pending[k].started = FALSE
            BY <1>8, <2>1 DEF Opens
        <3>2. (0 + k <= 0) = FALSE /\ 0 + k = k
            BY <1>4
        <3>3. Scan(log').pending[k].started = (0 + k <= 0)
            BY <3>1, <3>2, Zenon
        <3> QED BY <3>1, <3>2, <3>3
    <2>4. n - 0 = n
        BY <1>4
    <2>5. Scan(log').turn = OpenTurn' /\ Scan(log').step = OpenStep'
        BY <1>2, <1>4, <1>8 DEF Opens, OpenTurn, OpenStep
    <2>6. asked' = n /\ answered' = 0 /\ called' = 0
        BY <1>1, <1>2, <1>4
    <2> QED BY <2>2, <2>3, <2>4, <2>5, <2>6 DEF Sees, Agrees
<1>10. asked' \in Nat \ {0} /\ called' \in 0..asked' /\ answered' \in 0..asked'
    BY <1>1, <1>2, <1>4
<1>11. e.type \notin {"turn/start", "step/start"} /\ e.type \notin {"tool/call", "tool/result"}
    BY <1>2
<1> QED BY <1>2, <1>6, <1>9, <1>10, <1>11, LiveCalls

(* A call starts. *)
LEMMA LiveCallInv ==
    ASSUME RepairInv, LiveCall
    PROVE  RepairInv'
<1>1. PICK e : e = CallEvent(called + 1)
    OBVIOUS
<1>2. /\ mode = "live" /\ Append1(e) /\ stepOpen /\ called < asked /\ answered < asked
      /\ UNCHANGED <<logTurn, turnOpen, logStep, stepOpen>>
      /\ called' = called + 1 /\ asked' = asked /\ answered' = answered
      /\ e.type = "tool/call" /\ e.turn = logTurn /\ e.step = logStep /\ e.call = called + 1
    BY <1>1 DEF LiveCall, Call, Append1, CallEvent
<1>3. /\ Bounded /\ Nests
      /\ Scan(log).turn = OpenTurn /\ Scan(log).step = OpenStep
      /\ Len(Scan(log).pending) = asked - answered
      /\ \A k \in 1..(asked - answered) :
            /\ Scan(log).pending[k].call = answered + k
            /\ Scan(log).pending[k].started = (answered + k <= called)
    BY <1>2, LiveFacts
<1>4. /\ turnOpen /\ logStep > 0 /\ called \in 0..asked /\ answered \in 0..asked /\ asked \in Nat
    BY <1>2, <1>3 DEF Nests, Bounded, TypeOK
<1>5. Calls(Scan(log), e)
    BY <1>2, <1>3, <1>4 DEF Calls, Of, OpenTurn, OpenStep
<1>6. Follows(log, Scan(log), e)
    BY <1>5 DEF Follows
<1>7. Onward(log, log', e, Scan(log), Scan(log'))
    BY <1>2, <1>6, LiveOn
<1>8. Retains(Scan(log), Scan(log'), e)
    BY <1>5, <1>7, ScanMoves
<1>9. Sees'
    <2>1. Len(Scan(log').pending) = asked - answered
        BY <1>3, <1>8 DEF Retains
    <2>2. ASSUME NEW k \in 1..(asked - answered)
          PROVE  /\ Scan(log').pending[k].call = answered + k
                 /\ Scan(log').pending[k].started = (answered + k <= called + 1)
        <3>1. /\ Scan(log').pending[k].call = Scan(log).pending[k].call
              /\ Scan(log').pending[k].started =
                    (Scan(log).pending[k].started \/ Scan(log).pending[k].call = e.call)
            BY <1>3, <1>8 DEF Retains
        <3>2. /\ Scan(log).pending[k].call = answered + k
              /\ Scan(log).pending[k].started = (answered + k <= called)
            BY <1>3
        <3>3. (answered + k <= called \/ answered + k = called + 1) <=> answered + k <= called + 1
            BY <1>4
        <3>4. Scan(log').pending[k].started = (answered + k <= called \/ answered + k = called + 1)
            BY <1>2, <3>1, <3>2
        <3> QED BY <3>1, <3>2, <3>3, <3>4
    <2>3. Scan(log').turn = OpenTurn' /\ Scan(log').step = OpenStep'
        BY <1>2, <1>3, <1>8 DEF Retains, OpenTurn, OpenStep
    <2> QED BY <1>2, <2>1, <2>2, <2>3 DEF Sees, Agrees
<1>10. asked' \in Nat \ {0} /\ called' \in 0..asked' /\ answered' \in 0..asked'
    BY <1>2, <1>4
<1>11. e.type \notin {"turn/start", "step/start"}
    BY <1>2
<1> QED BY <1>2, <1>6, <1>9, <1>10, <1>11, LiveCalls

(* A call settles. *)
LEMMA LiveSettleInv ==
    ASSUME RepairInv, LiveSettle
    PROVE  RepairInv'
<1>1. PICK e : e = Result(logTurn, logStep, answered + 1, "settled")
    OBVIOUS
<1>2. /\ mode = "live" /\ Append1(e) /\ stepOpen /\ answered < called /\ answered < asked
      /\ UNCHANGED <<logTurn, turnOpen, logStep, stepOpen>>
      /\ called' = called /\ asked' = asked /\ answered' = answered + 1
      /\ e.type = "tool/result" /\ e.turn = logTurn /\ e.step = logStep /\ e.call = answered + 1
      /\ e.outcome = "settled"
    BY <1>1 DEF LiveSettle, Answer, Append1, Result
<1>3. /\ Bounded /\ Nests
      /\ Scan(log).turn = OpenTurn /\ Scan(log).step = OpenStep
      /\ Len(Scan(log).pending) = asked - answered
      /\ Scan(log).pending = <<>> => Len(Scan(log).pending) = 0
      /\ \A k \in 1..(asked - answered) :
            /\ Scan(log).pending[k].call = answered + k
            /\ Scan(log).pending[k].started = (answered + k <= called)
    BY <1>2, LiveFacts
<1>4. /\ turnOpen /\ logStep > 0 /\ called \in 0..asked /\ answered \in 0..asked /\ asked \in Nat
    BY <1>2, <1>3 DEF Nests, Bounded, TypeOK
<1>5. Answers(Scan(log), e)
    <2>1. Of(Scan(log), e)
        BY <1>2, <1>3, <1>4 DEF Of, OpenTurn, OpenStep
    <2>2. Scan(log).pending # <<>>
        BY <1>2, <1>3, <1>4
    <2>3. 1 \in 1..(asked - answered) /\ answered + 1 <= called
        BY <1>2, <1>4
    <2>4. Scan(log).pending[1].call = answered + 1 /\ Scan(log).pending[1].started = TRUE
        BY <1>3, <2>3
    <2>5. e.outcome \in Outcomes /\ (e.outcome = "notStarted") = FALSE
        BY <1>2 DEF Outcomes
    <2> QED BY <1>2, <2>1, <2>2, <2>4, <2>5 DEF Answers
<1>6. Follows(log, Scan(log), e)
    BY <1>5 DEF Follows
<1>7. Onward(log, log', e, Scan(log), Scan(log'))
    BY <1>2, <1>6, LiveOn
<1>8. Shifts(Scan(log), Scan(log'))
    BY <1>5, <1>7, ScanMoves
<1>9. Sees'
    <2>1. Len(Scan(log').pending) = asked - (answered + 1)
        BY <1>3, <1>4, <1>8 DEF Shifts
    <2>2. ASSUME NEW k \in 1..(asked - (answered + 1))
          PROVE  /\ Scan(log').pending[k].call = (answered + 1) + k
                 /\ Scan(log').pending[k].started = ((answered + 1) + k <= called)
        <3>1. /\ k + 1 \in 1..(asked - answered) /\ answered + (k + 1) = (answered + 1) + k
              /\ k \in 1..(Len(Scan(log).pending) - 1)
            BY <1>3, <1>4
        <3>2. Scan(log').pending[k] = Scan(log).pending[k + 1]
            BY <1>8, <3>1 DEF Shifts
        <3>3. /\ Scan(log).pending[k + 1].call = answered + (k + 1)
              /\ Scan(log).pending[k + 1].started = (answered + (k + 1) <= called)
            BY <1>3, <3>1
        <3> QED BY <3>1, <3>2, <3>3
    <2>3. Scan(log').turn = OpenTurn' /\ Scan(log').step = OpenStep'
        BY <1>2, <1>3, <1>8 DEF Shifts, OpenTurn, OpenStep
    <2> QED BY <1>2, <2>1, <2>2, <2>3 DEF Sees, Agrees
<1>10. asked' \in Nat \ {0} /\ called' \in 0..asked' /\ answered' \in 0..asked'
    BY <1>2, <1>4
<1>11. e.type \notin {"turn/start", "step/start"}
    BY <1>2
<1> QED BY <1>2, <1>6, <1>9, <1>10, <1>11, LiveCalls

(* A step ends. *)
LEMMA LiveEndStepInv ==
    ASSUME RepairInv, LiveEndStep
    PROVE  RepairInv'
<1>1. PICK e : e = StepEnd(logTurn, logStep)
    OBVIOUS
<1>2. /\ mode = "live" /\ Append1(e) /\ stepOpen /\ answered = asked
      /\ UNCHANGED <<logTurn, turnOpen, logStep>> /\ stepOpen' = FALSE
      /\ asked' = 0 /\ called' = 0 /\ answered' = 0
      /\ e.type = "step/end" /\ e.turn = logTurn
    BY <1>1 DEF LiveEndStep, EndStep, Append1, StepEnd
<1>3. /\ Bounded /\ Counts /\ Nests /\ Ordered
      /\ Scan(log).turn = OpenTurn /\ Scan(log).step = OpenStep
      /\ Len(Scan(log).pending) = asked - answered
      /\ Len(Scan(log).pending) = 0 => Scan(log).pending = <<>>
    BY <1>2, LiveFacts
<1>4. turnOpen /\ logStep > 0 /\ logStep \in Nat /\ asked \in Nat
    BY <1>2, <1>3 DEF Nests, Bounded, TypeOK
<1>5. EndsStep(Scan(log), e)
    BY <1>2, <1>3, <1>4 DEF EndsStep, OpenTurn, OpenStep
<1>6. Follows(log, Scan(log), e)
    BY <1>5 DEF Follows
<1>7. OneMore(log, log', e) /\ Onward(log, log', e, Scan(log), Scan(log'))
    BY <1>2, <1>6, LiveOn
<1>8. Scan(log').turn = logTurn /\ Scan(log').step = 0 /\ Scan(log').pending = <<>>
    BY <1>3, <1>4, <1>5, <1>7, ScanMoves DEF OpenTurn
<1>9. /\ Count(log', "turn/start") = Count(log, "turn/start")
      /\ Count(log', "step/start") = Count(log, "step/start")
    BY <1>2, <1>7, CountOn
<1>10. Bounded'
    <2>1. asked' \in Nat /\ called' \in 0..asked' /\ answered' \in 0..asked'
        BY <1>2
    <2> QED BY <1>2, <1>3, <2>1 DEF Bounded, TypeOK
<1>11. Sees'
    BY <1>2, <1>4, <1>8 DEF Sees, Agrees, OpenTurn, OpenStep
<1>12. Counts'
    BY <1>2, <1>3, <1>9 DEF Counts
<1>13. Nests' /\ Asking'
    BY <1>2 DEF Nests, Asking
<1>14. Ordered'
    <2>1. Within(log, logTurn, logStep) /\ logStep <= logStep
        BY <1>3, <1>4 DEF Ordered
    <2>2. Within(log', logTurn, logStep)
        BY <1>2, <1>4, <1>7, <2>1, WithinOn
    <2> QED BY <1>2, <2>2 DEF Ordered
<1>15. LiveInv'
    BY <1>10, <1>11, <1>12, <1>13, <1>14 DEF LiveInv
<1> QED BY <1>2, <1>6, <1>15, AppendKept

(* A turn ends. *)
LEMMA LiveEndTurnInv ==
    ASSUME RepairInv, LiveEndTurn
    PROVE  RepairInv'
<1>1. PICK e : e = TurnEnd(logTurn, "done")
    OBVIOUS
<1>2. /\ mode = "live" /\ Append1(e) /\ turnOpen /\ ~stepOpen
      /\ UNCHANGED <<logTurn, stepOpen, asked, called, answered>>
      /\ turnOpen' = FALSE /\ logStep' = 0
      /\ e.type = "turn/end" /\ e.turn = logTurn
    BY <1>1 DEF LiveEndTurn, EndTurn, Append1, TurnEnd
<1>3. /\ Bounded /\ Counts /\ Nests
      /\ Scan(log).turn = OpenTurn /\ Scan(log).step = OpenStep
      /\ {MaxTurns, MaxSteps, MaxCrashes} \subseteq Nat
    BY <1>2, LiveFacts
<1>4. logTurn > 0 /\ logTurn \in Nat /\ asked = 0 /\ called = 0 /\ answered = 0
    BY <1>2, <1>3 DEF Nests, Counts, Bounded, TypeOK
<1>5. EndsTurn(Scan(log), e)
    BY <1>2, <1>3, <1>4 DEF EndsTurn, OpenTurn, OpenStep
<1>6. Follows(log, Scan(log), e)
    BY <1>5 DEF Follows
<1>7. OneMore(log, log', e) /\ Onward(log, log', e, Scan(log), Scan(log'))
    BY <1>2, <1>6, LiveOn
<1>8. Scan(log').turn = 0 /\ Scan(log').step = 0 /\ Scan(log').pending = <<>>
    BY <1>5, <1>7, ScanMoves DEF Empties
<1>9. /\ Count(log', "turn/start") = Count(log, "turn/start")
      /\ Count(log', "step/start") = Count(log, "step/start")
      /\ Count(log, "step/start") \in Nat
    BY <1>2, <1>7, CountOn
<1>10. Bounded'
    <2>1. /\ logTurn' \in Nat /\ turnOpen' \in BOOLEAN /\ stepOpen' \in BOOLEAN
          /\ logTurn' <= MaxTurns
        BY <1>2, <1>3 DEF Bounded, TypeOK
    <2>2. asked' \in Nat /\ called' \in 0..asked' /\ answered' \in 0..asked'
        BY <1>2, <1>3 DEF Bounded, TypeOK
    <2>3. logStep' \in Nat /\ logStep' <= MaxSteps
        BY <1>2, <1>3
    <2> QED BY <2>1, <2>2, <2>3 DEF Bounded, TypeOK
<1>11. Sees'
    BY <1>2, <1>4, <1>8 DEF Sees, Agrees, OpenTurn, OpenStep
<1>12. Counts'
    BY <1>2, <1>3, <1>9 DEF Counts
<1>13. Nests' /\ Asking' /\ Ordered'
    BY <1>2, <1>4 DEF Nests, Asking, Ordered
<1>14. LiveInv'
    BY <1>10, <1>11, <1>12, <1>13 DEF LiveInv
<1> QED BY <1>2, <1>6, <1>14, AppendKept

(* No closer begins a turn or a step. *)
LEMMA ClosersBegin ==
    ASSUME NEW l, SoundParts(l), NEW cause, NEW r, r = Mended(l, cause)
    PROVE  \A i \in 1..Len(r) : i > Len(l) =>
              /\ r[i].type \in {"tool/result", "step/end", "turn/end"}
              /\ r[i].type = "tool/result" => r[i].turn = Scan(l).turn /\ r[i].step = Scan(l).step
<1>1. PICK s, c : s = Scan(l) /\ c = Closers(l, cause)
    OBVIOUS
<1>2. WellFormed(s)
    BY <1>1, SoundAll DEF Sound
<1>3. /\ Len(r) = Len(l) + Len(c) /\ Len(l) \in Nat /\ Len(r) \in Nat
      /\ \A i \in 1..Len(c) : r[Len(l) + i] = c[i]
    BY <1>1, MendedIs
<1>4. ASSUME NEW j \in 1..Len(c)
      PROVE  /\ c[j].type \in {"tool/result", "step/end", "turn/end"}
             /\ c[j].type = "tool/result" => c[j].turn = s.turn /\ c[j].step = s.step
    <2>1. CASE s.turn = 0
        <3>1. c = <<>>
            BY <1>1, <2>1 DEF Closers
        <3>2. Len(c) = 0
            BY <3>1
        <3> QED BY <3>2
    <2>2. CASE s.turn # 0 /\ s.step = 0
        <3>1. Len(c) = 1 /\ c[1] = TurnEnd(s.turn, cause)
            BY <1>1, <1>2, <2>2, ClosersAre
        <3>2. j = 1
            BY <3>1
        <3> QED BY <3>1, <3>2 DEF TurnEnd
    <2>3. CASE s.turn # 0 /\ s.step # 0
        <3>1. PICK n \in Nat :
                    /\ n = Len(s.pending) /\ Len(c) = n + 2
                    /\ \A k \in 1..n : c[k] = Outcome(s.pending[k])
                    /\ c[n + 1] = StepEnd(s.turn, s.step) /\ c[n + 2] = TurnEnd(s.turn, cause)
            BY <1>1, <1>2, <2>3, ClosersAre
        <3>2. CASE j \in 1..n
            <4>1. c[j] = Outcome(s.pending[j]) /\ s.pending[j].turn = s.turn /\ s.pending[j].step = s.step
                BY <1>2, <3>1, <3>2, Holds
            <4> QED BY <4>1 DEF Outcome, Result
        <3>3. CASE j = n + 1
            BY <3>1, <3>3 DEF StepEnd
        <3>4. CASE j = n + 2
            BY <3>1, <3>4 DEF TurnEnd
        <3>5. j \in 1..n \/ j = n + 1 \/ j = n + 2
            BY <3>1
        <3> QED BY <3>2, <3>3, <3>4, <3>5
    <2> QED BY <2>1, <2>2, <2>3
<1> SUFFICES ASSUME NEW i \in 1..Len(r), i > Len(l)
             PROVE  /\ r[i].type \in {"tool/result", "step/end", "turn/end"}
                    /\ r[i].type = "tool/result" => r[i].turn = s.turn /\ r[i].step = s.step
    BY <1>1
<1>5. PICK j \in 1..Len(c) : i = Len(l) + j
    <2>1. i - Len(l) \in 1..(Len(r) - Len(l)) /\ i = Len(l) + (i - Len(l))
        BY <1>3
    <2>2. Len(r) - Len(l) = Len(c)
        <3>1. PICK n : n = Len(c)
            OBVIOUS
        <3>2. n \in Nat
            BY <1>2, <1>1, <3>1, MendedIs, ClosersLike, SoundAll DEF SeqLike
        <3> QED BY <1>3, <3>1, <3>2
    <2> QED BY <2>1, <2>2
<1>6. r[i] = c[j]
    BY <1>3, <1>5
<1> QED BY <1>4, <1>6

(* A log that goes on without beginning a turn or a step counts as many. *)
LEMMA CountKept ==
    ASSUME NEW l, NEW m, Len(l) \in Nat, Len(m) \in Nat, Len(l) <= Len(m), NEW type,
           \A i \in 1..Len(l) : m[i] = l[i],
           \A i \in 1..Len(m) : i > Len(l) => m[i].type # type
    PROVE  Count(m, type) = Count(l, type)
<1>1. \A i \in 1..Len(m) : m[i].type = type <=> i \in 1..Len(l) /\ l[i].type = type
    OBVIOUS
<1>2. \A i \in 1..Len(l) : i \in 1..Len(m)
    OBVIOUS
<1>3. {i \in 1..Len(m) : m[i].type = type} = {i \in 1..Len(l) : l[i].type = type}
    BY <1>1, <1>2, Zenon
<1> QED BY <1>3 DEF Count

(* The calls of a failed step are answered. *)
LEMMA LiveRecoverInv ==
    ASSUME RepairInv, LiveRecover
    PROVE  RepairInv'
<1>1. /\ mode = "live" /\ mode' = mode /\ stepOpen /\ answered < asked /\ answered' = asked
      /\ UNCHANGED <<logTurn, turnOpen, logStep, stepOpen, asked, called>>
      /\ UNCHANGED <<durable, expected, crashes>>
    BY DEF LiveRecover, Answer
<1>2. PICK s, r, m : s = Scan(log) /\ r = Mended(log, "interrupted") /\ m = log'
    OBVIOUS
<1>3. m = log \o Results(s)
    BY <1>2 DEF LiveRecover
<1>4. /\ Bounded /\ Counts /\ Nests /\ Ordered
      /\ s.turn = OpenTurn /\ s.step = OpenStep
    BY <1>1, <1>2, LiveFacts
<1>5. SoundParts(log) /\ SeqLike(log) /\ Len(log) \in Nat /\ WellFormed(s)
    BY <1>2, InvLog
<1>6. /\ turnOpen /\ logStep > 0 /\ logTurn > 0 /\ logTurn \in Nat /\ logStep \in Nat
      /\ asked \in Nat \ {0} /\ called \in 0..asked
    BY <1>1, <1>4 DEF Nests, Counts, Bounded, TypeOK
<1>7. s.turn = logTurn /\ s.step = logStep /\ s.turn # 0 /\ s.step # 0
    BY <1>1, <1>4, <1>6 DEF OpenTurn, OpenStep
<1>8. PICK c : c = Closers(log, "interrupted")
    OBVIOUS
<1>9. PICK n \in Nat : n = Len(s.pending) /\ Len(c) = n + 2
                       /\ \A k \in 1..n : c[k] = Outcome(s.pending[k])
    BY <1>2, <1>5, <1>7, <1>8, ClosersAre
<1>10. SeqLike(Results(s)) /\ Len(Results(s)) = n /\ \A k \in 1..n : Results(s)[k] = c[k]
    <2>1. DOMAIN s.pending = 1..n
        BY <1>5, <1>9, Holds
    <2>2. Results(s) = [k \in 1..n |-> Outcome(s.pending[k])]
        BY <2>1 DEF Results, Outcome
    <2>3. Results(s) \in Seq({Outcome(s.pending[k]) : k \in 1..n}) /\ Len(Results(s)) = n
        BY <2>2
    <2> QED BY <1>9, <2>2, <2>3, LikeSeq
<1>11. /\ SeqLike(r) /\ Len(r) = Len(log) + Len(c) /\ Len(r) \in Nat
       /\ \A i \in 1..Len(log) : r[i] = log[i]
       /\ \A i \in 1..Len(c) : r[Len(log) + i] = c[i]
    BY <1>2, <1>5, <1>8, MendedIs
<1>12. /\ SeqLike(m) /\ Len(m) = Len(log) + n
       /\ \A i \in 1..Len(log) : m[i] = log[i]
       /\ \A i \in 1..n : m[Len(log) + i] = Results(s)[i]
    <2>1. SeqLike(log) /\ SeqLike(Results(s))
        BY <1>5, <1>10
    <2>2. /\ SeqLike(log \o Results(s)) /\ Len(log \o Results(s)) = Len(log) + Len(Results(s))
          /\ \A i \in 1..Len(log) : (log \o Results(s))[i] = log[i]
          /\ \A i \in 1..Len(Results(s)) : (log \o Results(s))[Len(log) + i] = Results(s)[i]
        BY <2>1, LikeConcat
    <2> QED BY <1>3, <1>10, <2>2
<1>13. PICK k \in 0..Len(r) : k = Len(log) + n /\ k \in Len(log)..Len(r)
    <2>1. PICK a, b : a = Len(log) /\ b = Len(r)
        OBVIOUS
    <2>2. a \in Nat /\ b = a + (n + 2)
        BY <1>5, <1>9, <1>11, <2>1
    <2>3. a + n \in 0..b /\ a + n \in a..b
        BY <2>2
    <2> QED BY <2>1, <2>3
<1>14. \A i \in 1..k : m[i] = r[i]
    <2> SUFFICES ASSUME NEW i \in 1..k
                 PROVE  m[i] = r[i]
        OBVIOUS
    <2>1. CASE i \in 1..Len(log)
        BY <1>11, <1>12, <2>1
    <2>2. CASE i \notin 1..Len(log)
        <3>1. PICK j \in 1..n : i = Len(log) + j /\ j \in 1..Len(c)
            <4>1. i - Len(log) \in 1..n /\ i = Len(log) + (i - Len(log))
                BY <1>5, <1>13, <2>2
            <4>2. i - Len(log) \in 1..Len(c)
                BY <1>9, <4>1
            <4> QED BY <4>1, <4>2
        <3>2. m[i] = Results(s)[j] /\ r[i] = c[j] /\ Results(s)[j] = c[j]
            BY <1>10, <1>11, <1>12, <3>1
        <3> QED BY <3>2
    <2> QED BY <2>1, <2>2
<1>15. Part(r, k) = m
    BY <1>11, <1>12, <1>13, <1>14, PartWhole
<1>16. SoundParts(m)
    <2>1. SoundParts(r)
        BY <1>2, <1>5, Mends
    <2> QED BY <1>13, <1>15, <2>1, SoundPartsPart
<1>17. Scan(m).turn = logTurn /\ Scan(m).step = logStep /\ Len(Scan(m).pending) = 0
    <2>1. Mending(log, r, k, "interrupted")
        BY <1>2, <1>5, <1>13, Mends
    <2>2. k <= Len(log) + Len(s.pending) /\ Len(s.pending) - (k - Len(log)) = 0
        BY <1>5, <1>9, <1>13
    <2> QED BY <1>2, <1>7, <1>15, <2>1, <2>2 DEF Mending
<1>18. /\ Len(log) <= Len(m) /\ Len(m) \in Nat
       /\ \A i \in 1..Len(m) : i > Len(log) =>
             /\ m[i].type \in {"tool/result", "step/end", "turn/end"}
             /\ m[i].type = "tool/result" => m[i].turn = logTurn /\ m[i].step = logStep
    <2>1. \A i \in 1..Len(r) : i > Len(log) =>
             /\ r[i].type \in {"tool/result", "step/end", "turn/end"}
             /\ r[i].type = "tool/result" => r[i].turn = s.turn /\ r[i].step = s.step
        BY <1>2, <1>5, ClosersBegin
    <2>2. Len(m) = k /\ Len(log) <= Len(m) /\ Len(m) \in Nat /\ \A i \in 1..Len(m) : i \in 1..Len(r)
        BY <1>5, <1>11, <1>12, <1>13
    <2>3. ASSUME NEW i \in 1..Len(m), i > Len(log)
          PROVE  /\ m[i].type \in {"tool/result", "step/end", "turn/end"}
                 /\ m[i].type = "tool/result" => m[i].turn = logTurn /\ m[i].step = logStep
        <3>1. i \in 1..k /\ i \in 1..Len(r)
            BY <2>2
        <3>2. m[i] = r[i]
            BY <1>14, <3>1
        <3> QED BY <1>7, <2>1, <2>3, <3>1, <3>2
    <2> QED BY <2>2, <2>3
<1>19. Count(m, "turn/start") = Count(log, "turn/start") /\ Count(m, "step/start") = Count(log, "step/start")
    <2>1. /\ \A i \in 1..Len(m) : i > Len(log) => m[i].type # "turn/start"
          /\ \A i \in 1..Len(m) : i > Len(log) => m[i].type # "step/start"
        BY <1>18
    <2>2. /\ Len(log) \in Nat /\ Len(m) \in Nat /\ Len(log) <= Len(m)
          /\ \A i \in 1..Len(log) : m[i] = log[i]
        BY <1>5, <1>12, <1>18
    <2>3. Count(m, "turn/start") = Count(log, "turn/start")
        BY <2>1, <2>2, CountKept
    <2>4. Count(m, "step/start") = Count(log, "step/start")
        BY <2>1, <2>2, CountKept
    <2> QED BY <2>3, <2>4
<1>20. Bounded'
    <2>1. answered' \in 0..asked'
        BY <1>1, <1>6
    <2> QED BY <1>1, <1>4, <2>1 DEF Bounded, TypeOK
<1>21. Sees'
    <2>1. asked' - answered' = 0
        BY <1>1, <1>6
    <2>2. OpenTurn' = logTurn /\ OpenStep' = logStep
        BY <1>1, <1>6 DEF OpenTurn, OpenStep
    <2>3. Agrees(Scan(m), logTurn, logStep, asked', called', answered')
        BY <1>17, <2>1 DEF Agrees
    <2> QED BY <1>2, <2>2, <2>3 DEF Sees
<1>22. Counts'
    BY <1>1, <1>2, <1>4, <1>19 DEF Counts
<1>23. Nests' /\ Asking'
    BY <1>1, <1>4, <1>6 DEF Nests, Asking
<1>24. Ordered'
    <2> SUFFICES ASSUME NEW i \in 1..Len(m), m[i].type \in {"tool/call", "tool/result"},
                        m[i].turn = logTurn
                 PROVE  m[i].step \in 1..logStep
        BY <1>1, <1>2 DEF Ordered, Within
    <2>1. CASE i > Len(log)
        <3>1. m[i].step = logStep
            BY <1>18, <2>1
        <3> QED BY <1>6, <3>1
    <2>2. CASE ~(i > Len(log))
        <3>1. i \in 1..Len(log) /\ m[i] = log[i]
            BY <1>5, <1>12, <2>2
        <3> QED BY <1>4, <1>6, <3>1 DEF Ordered, Within
    <2> QED BY <2>1, <2>2
<1>25. LiveInv'
    BY <1>20, <1>21, <1>22, <1>23, <1>24 DEF LiveInv
<1> QED BY <1>1, <1>2, <1>12, <1>16, <1>18, <1>25, LiveKept

-----------------------------------------------------------------------------
(* Crashes, and the process that comes after them. *)

(* A part of a log counts at most as many. *)
LEMMA CountPart ==
    ASSUME NEW l, SeqLike(l), NEW k \in 0..Len(l), NEW type
    PROVE  Count(Part(l, k), type) <= Count(l, type)
<1>1. /\ Len(Part(l, k)) = k /\ Len(l) \in Nat
      /\ \A i \in 1..k : Part(l, k)[i] = l[i]
    BY PartIs
<1>2. DEFINE A == {i \in 1..k : Part(l, k)[i].type = type}
             B == {i \in 1..Len(l) : l[i].type = type}
<1>3. A \subseteq B
    BY <1>1
<1>4. IsFiniteSet(B)
    <2>1. B \subseteq 1..Len(l) /\ IsFiniteSet(1..Len(l))
        BY <1>1, FS_Interval
    <2> QED BY <2>1, FS_Subset
<1>5. Cardinality(A) <= Cardinality(B)
    BY <1>3, <1>4, FS_Subset
<1> QED BY <1>1, <1>5 DEF Count

(* The process dies. *)
LEMMA CrashInv ==
    ASSUME RepairInv, Crash
    PROVE  RepairInv'
<1>1. /\ mode # "down" /\ crashes < MaxCrashes /\ crashes' = crashes + 1
      /\ durable' \in durable..Len(log) /\ log' = SubSeq(log, 1, durable') /\ mode' = "down"
      /\ expected' = (IF mode = "live" THEN Repaired(log') ELSE expected)
      /\ UNCHANGED logVars
    BY DEF Crash
<1>2. SoundParts(log) /\ SeqLike(log) /\ Len(log) \in Nat /\ RepairTypeOK /\ SeqLike(expected)
    BY InvLog
<1>3. PICK k \in 0..Len(log) : k = durable' /\ k \in durable..Len(log)
    BY <1>1, <1>2 DEF RepairTypeOK
<1>4. PICK m : m = log'
    OBVIOUS
<1>5. m = Part(log, k)
    BY <1>1, <1>3, <1>4 DEF Part
<1>6. SoundParts(m) /\ Len(m) = k /\ SeqLike(m) /\ Sound(m)
    BY <1>2, <1>5, SoundPartsPart, PartIs, SoundAll
<1>7. RepairTypeOK'
    <2>1. \A i \in 1..Len(m) : m[i].type = "tool/result" => m[i].outcome \in Outcomes
        BY <1>6 DEF Sound
    <2>2. durable' \in 0..Len(m)
        BY <1>2, <1>3, <1>6
    <2>3. crashes' \in 0..MaxCrashes
        BY <1>1, <1>2, BoundsAssumption DEF RepairTypeOK
    <2>4. TypeOK' /\ logTurn' <= MaxTurns /\ logStep' <= MaxSteps
        BY <1>1, <1>2 DEF RepairTypeOK, TypeOK, logVars
    <2> QED BY <1>1, <1>4, <2>1, <2>2, <2>3, <2>4 DEF RepairTypeOK
<1>8. SeqLike(expected') /\ Repaired(m) = expected'
    <2>1. CASE mode = "live"
        <3>1. expected' = Mended(m, "interrupted")
            BY <1>1, <1>4, <2>1 DEF Mended, Repaired
        <3>2. PICK r : r = Mended(m, "interrupted")
            OBVIOUS
        <3>3. SeqLike(r)
            BY <1>6, <3>2, MendedIs
        <3> QED BY <3>1, <3>2, <3>3 DEF Mended, Repaired
    <2>2. CASE mode = "resuming"
        <3>1. \A j \in durable..Len(log) : Repaired(SubSeq(log, 1, j)) = expected
            BY <2>2 DEF RepairInv, Converges
        <3>2. Repaired(m) = expected
            BY <1>3, <1>5, <3>1 DEF Part
        <3>3. expected' = expected
            BY <1>1, <2>2
        <3> QED BY <1>2, <3>2, <3>3
    <2> QED BY <1>1, <1>2, <2>1, <2>2 DEF RepairTypeOK
<1>9. Count(m, "turn/start") <= MaxTurns
    <2>1. Count(m, "turn/start") <= Count(log, "turn/start")
        BY <1>2, <1>5, CountPart
    <2>2. Count(m, "turn/start") \in Nat /\ Count(log, "turn/start") \in Nat
        BY <1>2, <1>6, CountType
    <2>3. Count(log, "turn/start") <= MaxTurns
        BY DEF RepairInv
    <2> QED BY <2>1, <2>2, <2>3, BoundsAssumption
<1>10. \A j \in 0..Len(m) : Sound(SubSeq(m, 1, j))
    BY <1>6 DEF SoundParts, Part
<1>11. expected' \in Seq(Range(expected')) /\ m \in Seq(Range(m))
    BY <1>6, <1>8 DEF SeqLike
<1>12. durable' = Len(m)
    BY <1>3, <1>6
<1>13. mode' = "down"
    BY <1>1
<1> QED BY <1>4, <1>7, <1>8, <1>9, <1>10, <1>11, <1>12, <1>13 DEF RepairInv

(* The closers are appended. *)
LEMMA ResumeInv ==
    ASSUME RepairInv, Resume
    PROVE  RepairInv'
<1>1. /\ mode = "down" /\ mode' = "resuming" /\ log' = Repaired(log)
      /\ UNCHANGED <<durable, expected, crashes>> /\ UNCHANGED logVars
    BY DEF Resume
<1>2. SoundParts(log) /\ SeqLike(log) /\ Len(log) \in Nat /\ RepairTypeOK /\ SeqLike(expected)
    BY InvLog
<1>3. durable = Len(log) /\ Repaired(log) = expected
    BY <1>1 DEF RepairInv
<1>4. PICK r : r = Mended(log, "interrupted")
    OBVIOUS
<1>5. log' = r
    BY <1>1, <1>4 DEF Mended, Repaired
<1>6. /\ SoundParts(r) /\ Len(log) <= Len(r) /\ Len(r) \in Nat
      /\ \A k \in Len(log)..Len(r) : Mending(log, r, k, "interrupted")
    BY <1>2, <1>4, Mends
<1>7. Sound(r) /\ SeqLike(r)
    BY <1>6, SoundAll
<1>8. RepairTypeOK'
    <2>1. \A i \in 1..Len(r) : r[i].type = "tool/result" => r[i].outcome \in Outcomes
        BY <1>7 DEF Sound
    <2>2. durable' \in 0..Len(r)
        BY <1>1, <1>2, <1>3, <1>6
    <2>3. TypeOK' /\ logTurn' <= MaxTurns /\ logStep' <= MaxSteps
        BY <1>1, <1>2 DEF RepairTypeOK, TypeOK, logVars
    <2>4. crashes' \in 0..MaxCrashes
        BY <1>1, <1>2 DEF RepairTypeOK
    <2> QED BY <1>1, <1>5, <2>1, <2>2, <2>3, <2>4 DEF RepairTypeOK
<1>9. Count(r, "turn/start") <= MaxTurns
    <2>1. \A i \in 1..Len(r) : i > Len(log) => r[i].type # "turn/start"
        BY <1>2, <1>4, ClosersBegin
    <2>2. \A i \in 1..Len(log) : r[i] = log[i]
        BY <1>2, <1>4, MendedIs
    <2>3. Count(r, "turn/start") = Count(log, "turn/start")
        BY <1>2, <1>6, <2>1, <2>2, CountKept
    <2> QED BY <2>3 DEF RepairInv
<1>10. Converges'
    <2>1. r = expected
        BY <1>1, <1>3, <1>5
    <2>2. ASSUME NEW k \in Len(log)..Len(r)
          PROVE  Repaired(SubSeq(r, 1, k)) = expected
        BY <1>6, <2>1 DEF Mending, Mended, Repaired, Part
    <2> QED BY <1>1, <1>3, <1>5, <2>1, <2>2 DEF Converges
<1>11. \A j \in 0..Len(r) : Sound(SubSeq(r, 1, j))
    BY <1>6 DEF SoundParts, Part
<1>12. expected' \in Seq(Range(expected')) /\ r \in Seq(Range(r))
    BY <1>1, <1>2, <1>7 DEF SeqLike
<1>13. mode' # "live" /\ mode' # "down"
    BY <1>1
<1> QED BY <1>5, <1>8, <1>9, <1>10, <1>11, <1>12, <1>13 DEF RepairInv

(* The session goes on after the repaired log. *)
LEMMA EnterInv ==
    ASSUME RepairInv, Enter
    PROVE  RepairInv'
<1>1. /\ mode = "resuming" /\ mode' = "live" /\ durable' = Len(log')
      /\ log' = log \/ log' = Append(log, EndSeed)
      /\ logTurn' = Count(log, "turn/start") /\ turnOpen' = FALSE
      /\ logStep' = 0 /\ stepOpen' = FALSE /\ asked' = 0 /\ called' = 0 /\ answered' = 0
      /\ UNCHANGED <<expected, crashes>>
    BY DEF Enter, Count
<1>2. /\ SoundParts(log) /\ SeqLike(log) /\ Len(log) \in Nat /\ RepairTypeOK /\ SeqLike(expected)
      /\ Sound(log) /\ WellFormed(Scan(log))
    BY InvLog
<1>3. Scan(log).turn = 0
    <2>1. log = expected /\ \A k \in durable..Len(log) : Repaired(SubSeq(log, 1, k)) = expected
        BY <1>1 DEF RepairInv, Converges
    <2>2. Len(log) \in durable..Len(log)
        BY <1>2 DEF RepairTypeOK
    <2>3. SubSeq(log, 1, Len(log)) = log
        BY <1>2, PartAll DEF Part
    <2>4. log = Mended(log, "interrupted")
        BY <2>1, <2>2, <2>3 DEF Mended, Repaired
    <2>5. PICK r : r = Mended(log, "interrupted")
        OBVIOUS
    <2>6. Scan(r).turn = 0
        BY <1>2, <2>5, Mends
    <2> QED BY <2>4, <2>5, <2>6
<1>4. PICK m : m = log'
    OBVIOUS
<1>5. /\ SoundParts(m) /\ SeqLike(m) /\ Len(log) <= Len(m) /\ Len(m) \in Nat
      /\ \A i \in 1..Len(log) : m[i] = log[i]
      /\ Scan(m) = Scan(log)
      /\ \A i \in 1..Len(m) : i > Len(log) => m[i].type = "session/end-seed"
    <2>1. CASE m = log
        BY <1>2, <2>1
    <2>2. CASE m = Append(log, EndSeed)
        <3>1. OneMore(log, m, EndSeed) /\ SoundParts(m) /\ Scan(m) = Scan(log)
            BY <1>2, <2>2, SeedFollows
        <3>2. PICK n \in Nat : /\ n = Len(log) /\ Len(m) = n + 1 /\ m[n + 1] = EndSeed
                               /\ \A i \in 1..n : m[i] = log[i]
            BY <3>1, OneMorePlaces
        <3>3. \A i \in 1..Len(m) : i > Len(log) => i = n + 1
            BY <3>2
        <3>4. EndSeed.type = "session/end-seed"
            BY DEF EndSeed
        <3> QED BY <3>1, <3>2, <3>3, <3>4 DEF OneMore
    <2> QED BY <1>1, <1>4, <2>1, <2>2
<1>6. Sound(m)
    BY <1>5, SoundAll
<1>7. Count(m, "turn/start") = Count(log, "turn/start") /\ Count(m, "step/start") \in Nat
    <2>1. \A i \in 1..Len(m) : i > Len(log) => m[i].type # "turn/start"
        BY <1>5
    <2> QED BY <1>2, <1>5, <2>1, CountKept, CountType
<1>8. Count(log, "turn/start") \in Nat /\ Count(log, "turn/start") <= MaxTurns /\ MaxSteps \in Nat
    BY <1>2, CountType, BoundsAssumption DEF RepairInv
<1>9. Bounded'
    <2>1. asked' \in Nat /\ called' \in 0..asked' /\ answered' \in 0..asked'
        BY <1>1
    <2>2. logTurn' \in Nat /\ logTurn' <= MaxTurns /\ logStep' \in Nat /\ logStep' <= MaxSteps
        BY <1>1, <1>8
    <2> QED BY <1>1, <2>1, <2>2 DEF Bounded, TypeOK
<1>10. Sees'
    <2>1. PICK s : s = Scan(log)
        OBVIOUS
    <2>2. s.turn = 0 /\ s.step = 0 /\ s.pending = <<>>
        BY <1>2, <1>3, <2>1, Holds
    <2>3. Scan(log') = s
        BY <1>4, <1>5, <2>1
    <2> QED BY <1>1, <2>2, <2>3 DEF Sees, Agrees, OpenTurn, OpenStep
<1>11. Counts'
    BY <1>1, <1>4, <1>7 DEF Counts
<1>12. Nests' /\ Ordered' /\ Asking'
    BY <1>1 DEF Nests, Ordered, Asking
<1>13. LiveInv'
    BY <1>9, <1>10, <1>11, <1>12 DEF LiveInv
<1>14. IsPrefix(expected, m)
    <2>1. log = expected
        BY <1>1 DEF RepairInv, Converges
    <2>2. IsPrefix(log, log)
        BY <1>2 DEF IsPrefix
    <2> QED BY <1>2, <1>5, <2>1, <2>2, PrefixOn
<1>15. Knows'
    <2>1. WellFormed(Scan(log')) /\ IsPrefix(expected', log')
        BY <1>1, <1>2, <1>4, <1>5, <1>14
    <2> QED BY <1>13, <2>1, Known
<1>16. RepairTypeOK'
    <2>1. \A i \in 1..Len(m) : m[i].type = "tool/result" => m[i].outcome \in Outcomes
        BY <1>6 DEF Sound
    <2>2. durable' \in 0..Len(m) /\ crashes' \in 0..MaxCrashes
        BY <1>1, <1>2, <1>4, <1>5 DEF RepairTypeOK
    <2> QED BY <1>1, <1>4, <1>9, <2>1, <2>2 DEF RepairTypeOK, Bounded
<1>17. \A j \in 0..Len(m) : Sound(SubSeq(m, 1, j))
    BY <1>5 DEF SoundParts, Part
<1>18. expected' \in Seq(Range(expected')) /\ m \in Seq(Range(m))
    BY <1>1, <1>2, <1>5 DEF SeqLike
<1>19. Count(m, "turn/start") <= MaxTurns
    BY <1>7, <1>8
<1>20. mode' # "down" /\ mode' # "resuming"
    BY <1>1
<1> QED BY <1>4, <1>15, <1>16, <1>17, <1>18, <1>19, <1>20 DEF RepairInv

-----------------------------------------------------------------------------
(* The specification. *)

(* Nothing is wrong with an empty log. *)
LEMMA SoundNone ==
    /\ SoundParts(<<>>) /\ SeqLike(<<>>) /\ Scan(<<>>) = At(0, 0, <<>>)
    /\ \A type : Count(<<>>, type) = 0
<1>1. PICK l : l = <<>>
    OBVIOUS
<1>2. Len(l) = 0 /\ 1..Len(l) = {} /\ SeqLike(l)
    BY <1>1 DEF SeqLike
<1>3. Scan(l) = At(0, 0, <<>>)
    BY <1>1, ScanNone DEF Idle, At
<1>4. PICK s : s = Scan(l)
    OBVIOUS
<1>5. WellFormed(s) /\ s.turn = 0 /\ s.pending = <<>>
    BY <1>3, <1>4, HoldsNone DEF At
<1>6. ASSUME NEW type
      PROVE  Count(l, type) = 0
    <2>1. {i \in 1..Len(l) : l[i].type = type} = {}
        BY <1>2
    <2> QED BY <2>1, FS_EmptySet DEF Count
<1>7. BracketsFit(l, s) /\ Numbered(l)
    BY <1>2 DEF BracketsFit, Numbered
<1>8. CallsFit(l, s)
    <2>1. DOMAIN s.pending = {}
        BY <1>5
    <2> QED BY <1>2, <2>1 DEF CallsFit
<1>9. s.turn <= Count(l, "turn/start")
    BY <1>5, <1>6
<1>10. Sound(l)
    BY <1>2, <1>4, <1>5, <1>7, <1>8, <1>9 DEF Sound
<1>11. Part(l, 0) = l
    BY <1>2, PartAll
<1>12. SoundParts(l)
    <2>1. \A k \in 0..Len(l) : k = 0
        BY <1>2
    <2> QED BY <1>2, <1>10, <1>11, <2>1 DEF SoundParts
<1> QED BY <1>1, <1>2, <1>3, <1>6, <1>12

LEMMA InitInv ==
    ASSUME RepairInit
    PROVE  RepairInv
<1>1. /\ logTurn = 0 /\ turnOpen = FALSE /\ logStep = 0 /\ stepOpen = FALSE
      /\ asked = 0 /\ called = 0 /\ answered = 0
      /\ log = <<>> /\ durable = 0 /\ mode = "live" /\ expected = <<>> /\ crashes = 0
    BY DEF RepairInit, Init
<1>2. /\ SoundParts(log) /\ SeqLike(log) /\ SeqLike(expected) /\ Scan(log) = At(0, 0, <<>>)
      /\ Count(log, "turn/start") = 0 /\ Count(log, "step/start") = 0
    BY <1>1, SoundNone
<1>3. Len(log) = 0 /\ {MaxTurns, MaxSteps, MaxCrashes} \subseteq Nat
    BY <1>1, BoundsAssumption
<1>4. RepairTypeOK
    <2>1. TypeOK
        <3>1. asked \in Nat /\ called \in 0..asked /\ answered \in 0..asked
            BY <1>1
        <3> QED BY <1>1, <3>1 DEF TypeOK
    <2>2. logTurn <= MaxTurns /\ logStep <= MaxSteps
        BY <1>1, <1>3
    <2>3. durable \in 0..Len(log) /\ crashes \in 0..MaxCrashes
        BY <1>1, <1>3
    <2>4. \A i \in 1..Len(log) : log[i].type = "tool/result" => log[i].outcome \in Outcomes
        BY <1>3
    <2> QED BY <1>1, <2>1, <2>2, <2>3, <2>4 DEF RepairTypeOK
<1>5. ScanAgrees
    <2>1. [k \in 1..(asked - answered) |->
              [call |-> answered + k, turn |-> logTurn, step |-> logStep,
               started |-> answered + k <= called]] = <<>>
        BY <1>1
    <2> QED BY <1>1, <1>2, <2>1 DEF ScanAgrees, At
<1>6. Knows
    <2>1. IsPrefix(expected, log)
        BY <1>1 DEF IsPrefix
    <2> QED BY <1>1, <1>2, <1>5, <2>1 DEF Knows
<1>7. \A k \in 0..Len(log) : Sound(SubSeq(log, 1, k))
    BY <1>2 DEF SoundParts, Part
<1>8. Count(log, "turn/start") <= MaxTurns
    BY <1>2, <1>3
<1>9. log \in Seq(Range(log)) /\ expected \in Seq(Range(expected))
    BY <1>2 DEF SeqLike
<1>10. mode # "down" /\ mode # "resuming"
    BY <1>1
<1> QED BY <1>4, <1>6, <1>7, <1>8, <1>9, <1>10 DEF RepairInv

LEMMA NextInv ==
    ASSUME RepairInv, [RepairNext]_vars
    PROVE  RepairInv'
<1>1. CASE LiveStartTurn
    BY <1>1, LiveStartTurnInv
<1>2. CASE LiveStartStep
    BY <1>2, LiveStartStepInv
<1>3. CASE LiveAsk
    BY <1>3, LiveAskInv
<1>4. CASE LiveCall
    BY <1>4, LiveCallInv
<1>5. CASE LiveSettle
    BY <1>5, LiveSettleInv
<1>6. CASE LiveRecover
    BY <1>6, LiveRecoverInv
<1>7. CASE LiveEndStep
    BY <1>7, LiveEndStepInv
<1>8. CASE LiveEndTurn
    BY <1>8, LiveEndTurnInv
<1>9. CASE Crash
    BY <1>9, CrashInv
<1>10. CASE Resume
    BY <1>10, ResumeInv
<1>11. CASE Enter
    BY <1>11, EnterInv
<1>12. CASE UNCHANGED vars
    <2>1. /\ log' = log /\ durable' = durable /\ mode' = mode /\ expected' = expected
          /\ crashes' = crashes /\ logTurn' = logTurn /\ turnOpen' = turnOpen
          /\ logStep' = logStep /\ stepOpen' = stepOpen
          /\ asked' = asked /\ called' = called /\ answered' = answered
        BY <1>12 DEF vars, logVars
    <2>2. RepairTypeOK'
        BY <2>1 DEF RepairInv, RepairTypeOK, TypeOK
    <2>3. mode' = "live" => Knows'
        BY <2>1 DEF RepairInv, Knows, ScanAgrees
    <2>4. mode' = "resuming" => Converges'
        BY <2>1 DEF RepairInv, Converges
    <2> QED BY <2>1, <2>2, <2>3, <2>4 DEF RepairInv
<1> QED BY <1>1, <1>2, <1>3, <1>4, <1>5, <1>6, <1>7, <1>8, <1>9, <1>10, <1>11, <1>12
        DEF RepairNext, Live

(* Every part of a session's log from its start is sound: its brackets are closed
   or open in the scan, its requested calls are answered or waiting, its turns
   are numbered and its results honest; while the session is live the scan finds
   what the writer did, and from a crash on every resume, however many of the
   closers the ones before it left, comes to the log of the first
   (openTurnClosers and ToolCallRecovery of repair.ts, over the appends of the
   driver and of resumeWith). *)
THEOREM RepairInvariant == RepairSpec => []RepairInv
<1>1. RepairInit => RepairInv
    BY InitInv
<1>2. RepairInv /\ [RepairNext]_vars => RepairInv'
    BY NextInv
<1> QED BY <1>1, <1>2, PTL DEF RepairSpec

(* Repair is sound: wherever a crash, a fork or an interrupted repair cuts the log,
   the closers that repair.ts and fork.ts append balance it, with exactly one
   result for every requested call, in order and before its step ends; each says
   of its call what the events before it say; the scan of a live log is what its
   writer knows; and repairing again changes nothing. *)
THEOREM RepairIsSound == RepairSpec => []RepairSound
<1>1. RepairInv => RepairSound
    BY InvSound
<1> QED BY <1>1, RepairInvariant, PTL

=============================================================================
