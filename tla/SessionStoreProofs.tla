------------------------- MODULE SessionStoreProofs -------------------------
(***************************************************************************)
(* Proofs about the session store for any sessions of an id, any number of *)
(* listeners and any depth of calls from inside a notification.  StoreInv  *)
(* (SessionStore.tla) is the inductive invariant: there is at most one     *)
(* creation or event under way however deep the stack, because append and  *)
(* announce refuse while one is, so the entry it is about cannot go.       *)
(***************************************************************************)
EXTENDS SessionStore, SequenceTheorems, TLAPS

(* A frame on top of the stack leaves those below alone. *)
LEMMA PushFrame ==
    ASSUME NEW st \in Seq(Frame), NEW f \in Frame
    PROVE  /\ Append(st, f) \in Seq(Frame)
           /\ Len(Append(st, f)) = Len(st) + 1 /\ Len(st) \in Nat
           /\ \A i \in 1..Len(st) : Append(st, f)[i] = st[i]
           /\ Append(st, f)[Len(st) + 1] = f
OBVIOUS

(* So does its removal. *)
LEMMA PopFrame ==
    ASSUME NEW st \in Seq(Frame), st # <<>>
    PROVE  /\ Front(st) \in Seq(Frame)
           /\ Len(st) \in Nat \ {0} /\ Len(Front(st)) = Len(st) - 1
           /\ \A i \in 1..Len(st) - 1 : Front(st)[i] = st[i]
           /\ Last(st) = st[Len(st)] /\ Last(st) \in Frame
<1>1. Len(st) \in Nat \ {0} /\ (\A i \in 1..Len(st) : st[i] \in Frame)
    OBVIOUS
<1>2. \A i \in 1..Len(st) - 1 : st[i] \in Frame
    BY <1>1
<1>3. /\ SubSeq(st, 1, Len(st) - 1) \in Seq(Frame)
      /\ Len(SubSeq(st, 1, Len(st) - 1)) = IF 1 <= Len(st) - 1 THEN Len(st) - 1 - 1 + 1 ELSE 0
      /\ \A i \in 1..Len(st) - 1 - 1 + 1 : SubSeq(st, 1, Len(st) - 1)[i] = st[1 + i - 1]
    BY <1>1, <1>2, SubSeqProperties
<1>4. /\ Front(st) = SubSeq(st, 1, Len(st) - 1)
      /\ Last(st) = st[Len(st)]
    BY DEF Front, Last
<1>5. Last(st) \in Frame
    <2>1. Len(st) \in 1..Len(st)
        BY <1>1
    <2> QED BY <2>1, <1>4, ElementOfSeq
<1>6. Len(Front(st)) = Len(st) - 1
    <2> DEFINE n == Len(st)
    <2>1. Len(Front(st)) = IF 1 <= n - 1 THEN n - 1 - 1 + 1 ELSE 0
        BY <1>3, <1>4
    <2>2. n \in Nat \ {0}
        BY <1>1
    <2> HIDE DEF n
    <2>3. (IF 1 <= n - 1 THEN n - 1 - 1 + 1 ELSE 0) = n - 1
        BY <2>2
    <2> QED BY <2>1, <2>3 DEF n
<1>7. \A i \in 1..Len(st) - 1 : Front(st)[i] = st[i]
    <2> TAKE i \in 1..Len(st) - 1
    <2>1. i \in 1..Len(st) - 1 - 1 + 1 /\ 1 + i - 1 = i
        BY <1>1
    <2> QED BY <1>3, <1>4, <2>1
<1> QED BY <1>1, <1>3, <1>4, <1>5, <1>6, <1>7

(* A stack holds frames, of notices about sessions. *)
LEMMA FrameTyped ==
    ASSUME NEW st \in Seq(Frame), NEW i \in 1..Len(st)
    PROVE  /\ st[i] \in Frame /\ st[i].notice \in Notice
           /\ st[i].notice.kind \in {"created", "event", "disposed"}
           /\ st[i].notice.session \in Sessions
<1>1. st[i] \in Frame
    BY ElementOfSeq
<1>2. st[i].notice \in Notice
    BY <1>1 DEF Frame
<1> QED BY <1>1, <1>2 DEF Notice

(* The kinds of frame on a stack after one is pushed. *)
LEMMA HoldsPush ==
    ASSUME NEW st \in Seq(Frame), NEW f \in Frame, NEW kind, NEW s
    PROVE  Holds(Append(st, f), kind, s)
               <=> Holds(st, kind, s) \/ (f.notice.kind = kind /\ f.notice.session = s)
BY PushFrame DEF Holds

(* An idle stack holds neither a creation nor an event. *)
LEMMA IdleHolds ==
    ASSUME NEW st, Idle(st), NEW s
    PROVE  ~Holds(st, "created", s) /\ ~Holds(st, "event", s)
BY DEF Idle, Holds

(* A disposal on top of an idle stack leaves it idle. *)
LEMMA IdlePush ==
    ASSUME NEW st \in Seq(Frame), Idle(st), NEW f \in Frame, f.notice.kind = "disposed"
    PROVE  Idle(Append(st, f))
BY PushFrame DEF Idle

(* A notice is a record of its kind, session, entry and place. *)
LEMMA NoticeTyped ==
    ASSUME TypeOK, NEW s \in Sessions, NEW kind \in {"created", "event", "disposed"}
    PROVE  /\ notice(kind, s) \in Notice
           /\ notice(kind, s).kind = kind /\ notice(kind, s).session = s
BY DEF TypeOK, notice, Notice

(* The first listener is called. *)
LEMMA DispatchTyped ==
    ASSUME seen \in [Listener -> Seq(Notice)],
           NEW n \in Notice, NEW below \in Seq(Frame), Dispatch(n, below)
    PROVE  /\ stack' \in Seq(Frame) /\ seen' \in [Listener -> Seq(Notice)]
           /\ stack' = Append(below, [notice |-> n, at |-> 1])
           /\ [notice |-> n, at |-> 1] \in Frame
<1>1. 1 \in Listener
    BY ListenersAssumption DEF Listener
<1>2. [notice |-> n, at |-> 1] \in Frame
    BY <1>1 DEF Frame
<1>3. stack' \in Seq(Frame)
    BY <1>2, PushFrame DEF Dispatch
<1>4. Append(seen[1], n) \in Seq(Notice)
    BY <1>1
<1> QED BY <1>1, <1>2, <1>3, <1>4 DEF Dispatch

(* The notice of the innermost frame. *)
LEMMA TopTyped ==
    ASSUME TypeOK, stack # <<>>
    PROVE  /\ Top \in Frame /\ Top.notice \in Notice /\ Top.notice.session \in Sessions
           /\ Top = stack[Len(stack)] /\ Len(stack) \in Nat \ {0}
           /\ Front(stack) \in Seq(Frame)
<1>1. stack \in Seq(Frame)
    BY DEF TypeOK
<1>2. Top \in Frame /\ Top = stack[Len(stack)] /\ Len(stack) \in Nat \ {0} /\ Front(stack) \in Seq(Frame)
    BY <1>1, PopFrame DEF Top
<1> QED BY <1>2 DEF Frame, Notice

(* Before an entry is removed: when it is stored and not busy, nothing but
   disposals is under way. *)
LEMMA StoredIdle ==
    ASSUME TypeOK, StoreInv, NEW s \in Sessions, store = s, ~Busy(s)
    PROVE  Idle(stack)
<1>1. ~Holds(stack, "created", s) /\ ~Holds(stack, "event", s)
    BY DEF StoreInv, FlagsAgree, Busy
<1>2. \A i \in 1..Len(stack) : stack[i].notice.kind \in {"created", "event", "disposed"}
    BY FrameTyped DEF TypeOK
<1> QED BY <1>1, <1>2 DEF StoreInv, OneNotice, Holds, Idle

(* While the store is empty nothing but disposals is under way. *)
LEMMA EmptyIdle ==
    ASSUME TypeOK, StoreInv, store = None
    PROVE  Idle(stack)
<1>1. \A i \in 1..Len(stack) : stack[i].notice.session \in Sessions
    BY FrameTyped DEF TypeOK
<1> QED BY <1>1, NoneAssumption DEF StoreInv, OneNotice, Idle

(* When the innermost notification is a creation or an event, the rest of the
   stack are disposals and no other session is busy. *)
LEMMA TopAlone ==
    ASSUME TypeOK, StoreInv, stack # <<>>, Top.notice.kind # "disposed"
    PROVE  /\ store = Top.notice.session /\ Idle(Front(stack))
           /\ \A t \in Sessions : t # store => ~Busy(t) /\ ~detachRequested[t]
           /\ Top.notice.kind = "created" => ~appending[Top.notice.session]
           /\ Top.notice.kind = "event" => announcement[Top.notice.session] = "complete"
<1> DEFINE n == Len(stack)
<1>1. Top \in Frame /\ Top = stack[n] /\ n \in Nat \ {0} /\ Front(stack) \in Seq(Frame)
    BY TopTyped
<1>2. Len(Front(stack)) = n - 1 /\ (\A i \in 1..n - 1 : Front(stack)[i] = stack[i])
    BY PopFrame DEF TypeOK
<1>3. n \in 1..n
    BY <1>1
<1>4. store = Top.notice.session
    BY <1>1, <1>3 DEF StoreInv, OneNotice
<1>5. \A i \in 1..n : stack[i].notice.kind # "disposed" => i = n
    BY <1>1, <1>3 DEF StoreInv, OneNotice
<1>6. Idle(Front(stack))
    BY <1>1, <1>2, <1>5 DEF Idle
<1>7. \A t, k : k # "disposed" /\ Holds(stack, k, t) => t = store /\ k = Top.notice.kind
    BY <1>1, <1>4, <1>5 DEF Holds
<1>8. \A t \in Sessions : t # store => ~Busy(t) /\ ~detachRequested[t]
    BY <1>7 DEF StoreInv, FlagsAgree, Busy
<1>9. Top.notice.kind = "created" => ~appending[Top.notice.session]
    BY <1>7, TopTyped DEF StoreInv, FlagsAgree
<1>10. Top.notice.kind = "event" => announcement[Top.notice.session] = "complete"
    <2> SUFFICES ASSUME Top.notice.kind = "event" PROVE Holds(stack, "event", Top.notice.session)
        BY TopTyped DEF StoreInv, FlagsAgree
    <2> QED BY <1>1, <1>3 DEF Holds
<1> QED BY <1>4, <1>6, <1>8, <1>9, <1>10

-----------------------------------------------------------------------------
(* The entry of s is removed over an idle stack: the state stays typed, no
   creation or event appears, and s has nothing left to wait for. *)
LEMMA Removed ==
    ASSUME TypeOK, StoreInv, NEW s \in Sessions, NEW below \in Seq(Frame),
           Idle(below), store = s, DetachEntered(s, below)
    PROVE  /\ stack' \in Seq(Frame) /\ Idle(stack') /\ seen' \in [Listener -> Seq(Notice)]
           /\ store' = None
           /\ attachment' = [attachment EXCEPT ![s] = "prepared"]
           /\ detachRequested' = [detachRequested EXCEPT ![s] = FALSE]
<1> DEFINE n == notice("disposed", s)
<1>1. seen \in [Listener -> Seq(Notice)]
    BY DEF TypeOK
<1>2. n \in Notice /\ n.kind = "disposed"
    BY NoticeTyped
<1>3. /\ store' = None
      /\ attachment' = [attachment EXCEPT ![s] = "prepared"]
      /\ detachRequested' = [detachRequested EXCEPT ![s] = FALSE]
    BY DEF DetachEntered
<1>4. CASE announcement[s] # "pending"
    <2>1. Dispatch(n, below)
        BY <1>4 DEF DetachEntered
    <2>2. /\ stack' \in Seq(Frame) /\ seen' \in [Listener -> Seq(Notice)]
          /\ stack' = Append(below, [notice |-> n, at |-> 1])
          /\ [notice |-> n, at |-> 1] \in Frame
        BY <1>1, <1>2, <2>1, DispatchTyped
    <2>3. Idle(stack')
        BY <1>2, <2>2, IdlePush
    <2> QED BY <1>3, <2>2, <2>3
<1>5. CASE announcement[s] = "pending"
    BY <1>1, <1>3, <1>5 DEF DetachEntered
<1> QED BY <1>4, <1>5

(* The end of a creation or an event over an idle stack. *)
LEMMA Unwound ==
    ASSUME TypeOK, StoreInv, NEW s \in Sessions, NEW below \in Seq(Frame),
           Idle(below), store = s, Unwind(s, below)
    PROVE  /\ stack' \in Seq(Frame) /\ Idle(stack') /\ seen' \in [Listener -> Seq(Notice)]
           /\ \/ store' = store /\ attachment' = attachment /\ ~detachRequested[s]
              \/ store' = None /\ attachment' = [attachment EXCEPT ![s] = "prepared"]
           /\ detachRequested' \in [Sessions -> BOOLEAN] /\ ~detachRequested'[s]
           /\ \A t \in Sessions : t # s => detachRequested'[t] = detachRequested[t]
<1>1. detachRequested \in [Sessions -> BOOLEAN] /\ seen \in [Listener -> Seq(Notice)]
    BY DEF TypeOK
<1>2. CASE detachRequested[s]
    <2>1. DetachEntered(s, below)
        BY <1>2 DEF Unwind
    <2>2. /\ stack' \in Seq(Frame) /\ Idle(stack') /\ seen' \in [Listener -> Seq(Notice)]
          /\ store' = None
          /\ attachment' = [attachment EXCEPT ![s] = "prepared"]
          /\ detachRequested' = [detachRequested EXCEPT ![s] = FALSE]
        BY <2>1, Removed
    <2> QED BY <1>1, <2>2
<1>3. CASE ~detachRequested[s]
    BY <1>1, <1>3 DEF Unwind
<1> QED BY <1>2, <1>3

(* An idle stack and no request left by any session re-establish StoreInv,
   provided no flag is raised. *)
LEMMA QuietInv ==
    ASSUME stack' \in Seq(Frame), Idle(stack'), EntriesAgree',
           \A t \in Sessions :
               announcement'[t] # "dispatching" /\ ~appending'[t] /\ ~detachRequested'[t]
    PROVE  StoreInv'
<1>1. OneNotice'
    BY DEF OneNotice, Idle
<1>2. FlagsAgree'
    <2>1. \A t : ~Holds(stack', "created", t) /\ ~Holds(stack', "event", t)
        BY IdleHolds
    <2> QED BY <2>1 DEF FlagsAgree, Holds
<1> QED BY <1>1, <1>2 DEF StoreInv

-----------------------------------------------------------------------------
(* The removal that ends a notification of s keeps the invariant, given the
   announcement and the appending flag the end leaves. *)
LEMMA EndedInv ==
    ASSUME TypeOK, StoreInv, stack # <<>>, Top.notice.kind # "disposed",
           Unwind(Top.notice.session, Front(stack)),
           announcement' \in [Sessions -> {"pending", "dispatching", "complete", "failed"}],
           appending' \in [Sessions -> BOOLEAN],
           announcement'[Top.notice.session] # "dispatching", ~appending'[Top.notice.session],
           \A t \in Sessions : t # Top.notice.session =>
               announcement'[t] = announcement[t] /\ appending'[t] = appending[t],
           UNCHANGED <<detachable, enters, log>>
    PROVE  TypeOK' /\ StoreInv'
<1> DEFINE s == Top.notice.session
<1>1. s \in Sessions /\ Front(stack) \in Seq(Frame)
    BY TopTyped
<1>2. /\ store = s /\ Idle(Front(stack))
      /\ \A t \in Sessions : t # s => ~Busy(t) /\ ~detachRequested[t]
    BY TopAlone
<1>3. /\ stack' \in Seq(Frame) /\ Idle(stack') /\ seen' \in [Listener -> Seq(Notice)]
      /\ \/ store' = store /\ attachment' = attachment /\ ~detachRequested[s]
         \/ store' = None /\ attachment' = [attachment EXCEPT ![s] = "prepared"]
      /\ detachRequested' \in [Sessions -> BOOLEAN] /\ ~detachRequested'[s]
      /\ \A t \in Sessions : t # s => detachRequested'[t] = detachRequested[t]
    BY <1>1, <1>2, Unwound
<1>4. TypeOK'
    BY <1>1, <1>3 DEF TypeOK
<1>5. EntriesAgree'
    <2>1. EntriesAgree /\ attachment \in [Sessions -> {"independent", "prepared", "entered"}]
        BY DEF StoreInv, TypeOK
    <2>2. CASE store' = store /\ attachment' = attachment /\ ~detachRequested[s]
        BY <1>2, <2>1, <2>2 DEF EntriesAgree
    <2>3. CASE store' = None /\ attachment' = [attachment EXCEPT ![s] = "prepared"]
        BY <1>1, <1>2, <2>1, <2>3, NoneAssumption DEF EntriesAgree
    <2> QED BY <1>3, <2>2, <2>3
<1>6. \A t \in Sessions :
          announcement'[t] # "dispatching" /\ ~appending'[t] /\ ~detachRequested'[t]
    BY <1>2, <1>3 DEF Busy
<1> QED BY <1>3, <1>4, <1>5, <1>6, QuietInv

(* The last creation listener returned. *)
LEMMA CreatedStep ==
    ASSUME TypeOK, StoreInv, Created
    PROVE  TypeOK' /\ StoreInv'
<1> DEFINE s == Top.notice.session
<1>1. stack # <<>> /\ Top.notice.kind = "created" /\ s \in Sessions
    BY TopTyped DEF Created
<1>2. ~appending[s]
    BY <1>1, TopAlone
<1>3. /\ announcement' = [announcement EXCEPT ![s] = "complete"] /\ appending' = appending
      /\ Unwind(s, Front(stack)) /\ UNCHANGED <<detachable, enters, log>>
    BY DEF Created
<1>4. /\ announcement' \in [Sessions -> {"pending", "dispatching", "complete", "failed"}]
      /\ announcement'[s] = "complete"
      /\ \A t \in Sessions : t # s => announcement'[t] = announcement[t]
    BY <1>1, <1>3 DEF TypeOK
<1>5. appending' \in [Sessions -> BOOLEAN]
    BY <1>3 DEF TypeOK
<1>6. announcement'[s] # "dispatching" /\ ~appending'[s]
    BY <1>2, <1>3, <1>4
<1> QED BY <1>1, <1>3, <1>4, <1>5, <1>6, EndedInv

(* A creation listener threw. *)
LEMMA VetoedStep ==
    ASSUME TypeOK, StoreInv, Vetoed
    PROVE  TypeOK' /\ StoreInv'
<1> DEFINE s == Top.notice.session
<1>1. stack # <<>> /\ Top.notice.kind = "created" /\ s \in Sessions
    BY TopTyped DEF Vetoed
<1>2. ~appending[s]
    BY <1>1, TopAlone
<1>3. /\ announcement' = [announcement EXCEPT ![s] = "failed"] /\ appending' = appending
      /\ Unwind(s, Front(stack)) /\ UNCHANGED <<detachable, enters, log>>
    BY DEF Vetoed
<1>4. /\ announcement' \in [Sessions -> {"pending", "dispatching", "complete", "failed"}]
      /\ announcement'[s] = "failed"
      /\ \A t \in Sessions : t # s => announcement'[t] = announcement[t]
    BY <1>1, <1>3 DEF TypeOK
<1>5. appending' \in [Sessions -> BOOLEAN]
    BY <1>3 DEF TypeOK
<1>6. announcement'[s] # "dispatching" /\ ~appending'[s]
    BY <1>2, <1>3, <1>4
<1> QED BY <1>1, <1>3, <1>4, <1>5, <1>6, EndedInv

(* The last listener of an event returned. *)
LEMMA PublishedStep ==
    ASSUME TypeOK, StoreInv, Published
    PROVE  TypeOK' /\ StoreInv'
<1> DEFINE s == Top.notice.session
<1>1. stack # <<>> /\ Top.notice.kind = "event" /\ s \in Sessions
    BY TopTyped DEF Published
<1>2. announcement[s] = "complete"
    BY <1>1, TopAlone
<1>3. /\ appending' = [appending EXCEPT ![s] = FALSE] /\ announcement' = announcement
      /\ Unwind(s, Front(stack)) /\ UNCHANGED <<detachable, enters, log>>
    BY DEF Published
<1>4. /\ appending' \in [Sessions -> BOOLEAN] /\ ~appending'[s]
      /\ \A t \in Sessions : t # s => appending'[t] = appending[t]
    BY <1>1, <1>3 DEF TypeOK
<1>5. announcement' \in [Sessions -> {"pending", "dispatching", "complete", "failed"}]
    BY <1>3 DEF TypeOK
<1>6. announcement'[s] # "dispatching" /\ ~appending'[s]
    BY <1>2, <1>3, <1>4
<1> QED BY <1>1, <1>3, <1>4, <1>5, <1>6, EndedInv

(* The next listener is called: the frames keep their notices. *)
LEMMA NextListenerStep ==
    ASSUME TypeOK, StoreInv, NextListener
    PROVE  TypeOK' /\ StoreInv'
<1> DEFINE n == Len(stack)
           moved == [stack EXCEPT ![n].at = @ + 1]
<1>1. Top \in Frame /\ Top.notice \in Notice /\ Top = stack[n] /\ n \in Nat \ {0} /\ stack \in Seq(Frame)
    BY TopTyped DEF NextListener, TypeOK
<1>2. Top.at \in Listener /\ Top.at + 1 \in Listener
    BY <1>1, ListenersAssumption DEF NextListener, Frame, Listener
<1>3. \A i \in 1..n : stack[i] \in Frame
    BY <1>1, FrameTyped
<1>4. moved \in Seq(Frame) /\ Len(moved) = n /\ (\A i \in 1..n : moved[i].notice = stack[i].notice)
    <2>1. [stack[n] EXCEPT !.at = @ + 1] = [notice |-> Top.notice, at |-> Top.at + 1]
        BY <1>1 DEF Frame
    <2>2. [notice |-> Top.notice, at |-> Top.at + 1] \in Frame
        BY <1>1, <1>2 DEF Frame
    <2>3. moved = [stack EXCEPT ![n] = [notice |-> Top.notice, at |-> Top.at + 1]]
        BY <1>1, <2>1
    <2> QED BY <1>1, <1>3, <2>2, <2>3
<1>5. stack' = moved /\ UNCHANGED <<store, attachment, entryVars, log>>
    BY DEF NextListener
<1>6. seen' \in [Listener -> Seq(Notice)]
    <2>1. Append(seen[Top.at + 1], Top.notice) \in Seq(Notice)
        BY <1>1, <1>2 DEF TypeOK
    <2> QED BY <1>2, <2>1 DEF NextListener, TypeOK
<1>7. TypeOK'
    BY <1>4, <1>5, <1>6 DEF TypeOK, entryVars
<1>8. Len(stack') = n /\ (\A i \in 1..n : stack'[i].notice = stack[i].notice)
    BY <1>4, <1>5
<1>9. OneNotice'
    BY <1>5, <1>8 DEF StoreInv, OneNotice
<1>10. \A k, s : Holds(stack', k, s) <=> Holds(stack, k, s)
    BY <1>8 DEF Holds
<1>11. FlagsAgree'
    <2>1. \A s \in Sessions : Holds(stack, "created", s)' <=> Holds(stack, "created", s)
        BY <1>10 DEF Holds
    <2>2. \A s \in Sessions : Holds(stack, "event", s)' <=> Holds(stack, "event", s)
        BY <1>10 DEF Holds
    <2> QED BY <1>5, <2>1, <2>2 DEF StoreInv, FlagsAgree, Busy, entryVars
<1>12. EntriesAgree'
    BY <1>5 DEF StoreInv, EntriesAgree, entryVars
<1> QED BY <1>7, <1>9, <1>11, <1>12 DEF StoreInv

(* The last listener of a disposal returned: it was no creation nor event. *)
LEMMA DisposedStep ==
    ASSUME TypeOK, StoreInv, Disposed
    PROVE  TypeOK' /\ StoreInv'
<1> DEFINE n == Len(stack)
<1>1. stack \in Seq(Frame) /\ stack # <<>> /\ UNCHANGED <<store, attachment, entryVars, log, seen>>
    BY DEF Disposed, TypeOK
<1>2. /\ stack' \in Seq(Frame)
      /\ n \in Nat \ {0} /\ Len(stack') = n - 1
      /\ \A i \in 1..n - 1 : stack'[i] = stack[i]
      /\ stack[n].notice.kind = "disposed"
    BY <1>1, PopFrame DEF Disposed, Top
<1>3. TypeOK'
    BY <1>1, <1>2 DEF TypeOK, entryVars
<1>4. OneNotice'
    BY <1>1, <1>2 DEF StoreInv, OneNotice
<1>5. \A k, s : k # "disposed" => (Holds(stack', k, s) <=> Holds(stack, k, s))
    BY <1>2 DEF Holds
<1>6. FlagsAgree'
    <2>1. \A s \in Sessions : Holds(stack, "created", s)' <=> Holds(stack, "created", s)
        BY <1>5 DEF Holds
    <2>2. \A s \in Sessions : Holds(stack, "event", s)' <=> Holds(stack, "event", s)
        BY <1>5 DEF Holds
    <2> QED BY <1>1, <2>1, <2>2 DEF StoreInv, FlagsAgree, Busy, entryVars
<1>7. EntriesAgree'
    BY <1>1 DEF StoreInv, EntriesAgree, entryVars
<1> QED BY <1>3, <1>4, <1>6, <1>7 DEF StoreInv

-----------------------------------------------------------------------------
(* The calls. *)
LEMMA PrepareStep ==
    ASSUME TypeOK, StoreInv, NEW s \in Sessions, Prepare(s)
    PROVE  TypeOK' /\ StoreInv'
<1>1. /\ store = None /\ attachment' = [attachment EXCEPT ![s] = "prepared"]
      /\ UNCHANGED <<store, entryVars, log, stack, seen>>
    BY DEF Prepare
<1>2. TypeOK'
    BY <1>1 DEF TypeOK, entryVars
<1>3. OneNotice' /\ FlagsAgree'
    BY <1>1 DEF StoreInv, OneNotice, FlagsAgree, Holds, Busy, entryVars
<1>4. EntriesAgree'
    BY <1>1, NoneAssumption DEF StoreInv, EntriesAgree, TypeOK, entryVars
<1> QED BY <1>2, <1>3, <1>4 DEF StoreInv

(* The store was empty, so nobody is busy and the entry starts afresh. *)
LEMMA EnterStep ==
    ASSUME TypeOK, StoreInv, NEW s \in Sessions, Enter(s)
    PROVE  TypeOK' /\ StoreInv'
<1>1. /\ store = None /\ store' = s
      /\ attachment' = [attachment EXCEPT ![s] = "entered"]
      /\ announcement' = [announcement EXCEPT ![s] = "pending"]
      /\ detachable' = [detachable EXCEPT ![s] = TRUE]
      /\ enters' = [enters EXCEPT ![s] = @ + 1]
      /\ UNCHANGED <<appending, detachRequested, log, stack, seen>>
    BY DEF Enter
<1>2. TypeOK'
    BY <1>1 DEF TypeOK
<1>3. Idle(stack) /\ stack \in Seq(Frame)
    BY <1>1, EmptyIdle DEF TypeOK
<1>4. \A t \in Sessions : announcement[t] # "dispatching" /\ ~appending[t] /\ ~detachRequested[t]
    BY <1>3, IdleHolds DEF StoreInv, FlagsAgree, Busy
<1>5. \A t \in Sessions : announcement'[t] # "dispatching" /\ ~appending'[t] /\ ~detachRequested'[t]
    BY <1>1, <1>4 DEF TypeOK
<1>6. EntriesAgree'
    BY <1>1, NoneAssumption DEF StoreInv, EntriesAgree, TypeOK
<1> QED BY <1>1, <1>2, <1>3, <1>5, <1>6, QuietInv DEF Idle

(* A creation or an event of the stored session is dispatched over an idle
   stack: it is the one notice of the invariant. *)
LEMMA DispatchInv ==
    ASSUME TypeOK, StoreInv, NEW s \in Sessions, store = s, Idle(stack),
           NEW kind \in {"created", "event"}, Dispatch(notice(kind, s), stack),
           UNCHANGED store
    PROVE  /\ stack' \in Seq(Frame) /\ seen' \in [Listener -> Seq(Notice)]
           /\ OneNotice'
           /\ \A t \in Sessions :
                 /\ Holds(stack', "created", t) <=> t = s /\ kind = "created"
                 /\ Holds(stack', "event", t) <=> t = s /\ kind = "event"
<1> DEFINE f == [notice |-> notice(kind, s), at |-> 1]
<1>1. notice(kind, s) \in Notice /\ notice(kind, s).kind = kind /\ notice(kind, s).session = s
    BY NoticeTyped
<1>2. stack \in Seq(Frame) /\ seen \in [Listener -> Seq(Notice)]
    BY DEF TypeOK
<1>3. /\ stack' \in Seq(Frame) /\ seen' \in [Listener -> Seq(Notice)]
      /\ stack' = Append(stack, f) /\ f \in Frame
    BY <1>1, <1>2, DispatchTyped
<1>4. f.notice.kind = kind /\ f.notice.session = s
    BY <1>1
<1> HIDE DEF f
<1>5. /\ Len(stack') = Len(stack) + 1 /\ Len(stack) \in Nat
      /\ \A i \in 1..Len(stack) : stack'[i] = stack[i]
      /\ stack'[Len(stack) + 1] = f
    BY <1>2, <1>3, PushFrame
<1>6. \A i \in 1..Len(stack') : stack'[i].notice.kind # "disposed" => i = Len(stack) + 1
    BY <1>5 DEF Idle
<1>7. OneNotice'
    BY <1>4, <1>5, <1>6 DEF OneNotice
<1>8. \A t, k : Holds(stack', k, t) <=> Holds(stack, k, t) \/ (k = kind /\ t = s)
    BY <1>2, <1>3, <1>4, HoldsPush
<1>9. \A t : ~Holds(stack, "created", t) /\ ~Holds(stack, "event", t)
    BY IdleHolds
<1> QED BY <1>3, <1>7, <1>8, <1>9

(* The stored entry is announced: the stack was idle. *)
LEMMA AnnounceStep ==
    ASSUME TypeOK, StoreInv, NEW s \in Sessions, Announce(s)
    PROVE  TypeOK' /\ StoreInv'
<1>1. /\ store = s /\ announcement[s] = "pending"
      /\ announcement' = [announcement EXCEPT ![s] = "dispatching"]
      /\ Dispatch(notice("created", s), stack)
      /\ UNCHANGED <<store, attachment, appending, detachRequested, detachable, enters, log>>
    BY DEF Announce
<1>2. ~Busy(s)
    BY <1>1 DEF StoreInv, FlagsAgree, Busy
<1>3. Idle(stack)
    BY <1>1, <1>2, StoredIdle
<1>4. /\ stack' \in Seq(Frame) /\ seen' \in [Listener -> Seq(Notice)]
      /\ OneNotice'
      /\ \A t \in Sessions :
            (Holds(stack', "created", t) <=> t = s) /\ ~Holds(stack', "event", t)
    BY <1>1, <1>3, DispatchInv
<1>5. TypeOK'
    BY <1>1, <1>4 DEF TypeOK
<1>6. \A t \in Sessions : announcement[t] # "dispatching" /\ ~appending[t] /\ ~detachRequested[t]
    BY <1>3, IdleHolds DEF StoreInv, FlagsAgree, Busy
<1>7. \A t \in Sessions :
          (announcement'[t] = "dispatching" <=> t = s) /\ ~appending'[t] /\ ~detachRequested'[t]
    BY <1>1, <1>6 DEF TypeOK
<1>8. FlagsAgree'
    BY <1>4, <1>7 DEF FlagsAgree, Holds
<1>9. EntriesAgree'
    BY <1>1 DEF StoreInv, EntriesAgree
<1> QED BY <1>4, <1>5, <1>8, <1>9 DEF StoreInv

(* An event is appended, in the store or outside. *)
LEMMA AppendEventStep ==
    ASSUME TypeOK, StoreInv, NEW s \in Sessions, AppendEvent(s)
    PROVE  TypeOK' /\ StoreInv'
<1>1. /\ log[s] < MaxEvents /\ Publishable(s)
      /\ log' = [log EXCEPT ![s] = @ + 1]
      /\ UNCHANGED <<store, attachment, announcement, detachRequested, detachable, enters>>
    BY DEF AppendEvent
<1>2. log' \in [Sessions -> 0..MaxEvents]
    BY <1>1, BoundsAssumption DEF TypeOK
<1>3. CASE attachment[s] = "entered"
    <2>1. /\ appending' = [appending EXCEPT ![s] = TRUE]
          /\ Dispatch(notice("event", s), stack)
          /\ announcement[s] = "complete" /\ ~appending[s] /\ store = s
        BY <1>1, <1>3 DEF AppendEvent, Publishable, StoreInv, EntriesAgree
    <2>2. Idle(stack)
        BY <2>1, StoredIdle DEF Busy
    <2>3. /\ stack' \in Seq(Frame) /\ seen' \in [Listener -> Seq(Notice)]
          /\ OneNotice'
          /\ \A t \in Sessions :
                ~Holds(stack', "created", t) /\ (Holds(stack', "event", t) <=> t = s)
        BY <1>1, <2>1, <2>2, DispatchInv
    <2>4. TypeOK'
        BY <1>1, <1>2, <2>1, <2>3 DEF TypeOK
    <2>5. \A t \in Sessions : announcement[t] # "dispatching" /\ ~appending[t] /\ ~detachRequested[t]
        BY <2>2, IdleHolds DEF StoreInv, FlagsAgree, Busy
    <2>6. \A t \in Sessions :
              announcement'[t] # "dispatching" /\ (appending'[t] <=> t = s) /\ ~detachRequested'[t]
        BY <1>1, <2>1, <2>5 DEF TypeOK
    <2>7. FlagsAgree'
        BY <1>1, <2>1, <2>3, <2>6 DEF FlagsAgree, Holds
    <2>8. EntriesAgree'
        BY <1>1 DEF StoreInv, EntriesAgree
    <2> QED BY <2>3, <2>4, <2>7, <2>8 DEF StoreInv
<1>4. CASE attachment[s] # "entered"
    <2>1. UNCHANGED <<appending, stack, seen>>
        BY <1>4 DEF AppendEvent
    <2>2. TypeOK'
        BY <1>1, <1>2, <2>1 DEF TypeOK
    <2>3. StoreInv'
        BY <1>1, <2>1 DEF StoreInv, OneNotice, FlagsAgree, EntriesAgree, Holds, Busy
    <2> QED BY <2>2, <2>3
<1> QED BY <1>3, <1>4

(* A detach waits, removes the entry, or finds it gone. *)
LEMMA DetachStep ==
    ASSUME TypeOK, StoreInv, NEW s \in Sessions, Detach(s)
    PROVE  TypeOK' /\ StoreInv'
<1>1. /\ detachable[s] /\ detachable' = [detachable EXCEPT ![s] = FALSE]
      /\ UNCHANGED <<announcement, appending, enters, log>>
    BY DEF Detach
<1>2. CASE Busy(s)
    <2>1. /\ detachRequested' = [detachRequested EXCEPT ![s] = TRUE]
          /\ UNCHANGED <<store, attachment, stack, seen>>
        BY <1>2 DEF Detach
    <2>2. TypeOK'
        BY <1>1, <2>1 DEF TypeOK
    <2>3. OneNotice'
        BY <2>1 DEF StoreInv, OneNotice
    <2>4. FlagsAgree'
        BY <1>1, <1>2, <2>1 DEF StoreInv, FlagsAgree, Holds, Busy, TypeOK
    <2>5. EntriesAgree'
        BY <1>1, <2>1 DEF StoreInv, EntriesAgree, TypeOK
    <2> QED BY <2>2, <2>3, <2>4, <2>5 DEF StoreInv
<1>3. CASE ~Busy(s) /\ store = s
    <2>1. Idle(stack) /\ stack \in Seq(Frame)
        BY <1>3, StoredIdle DEF TypeOK
    <2>2. DetachEntered(s, stack)
        BY <1>3 DEF Detach
    <2>3. /\ stack' \in Seq(Frame) /\ Idle(stack') /\ seen' \in [Listener -> Seq(Notice)]
          /\ store' = None
          /\ attachment' = [attachment EXCEPT ![s] = "prepared"]
          /\ detachRequested' = [detachRequested EXCEPT ![s] = FALSE]
        BY <1>3, <2>1, <2>2, Removed
    <2>4. TypeOK'
        BY <1>1, <2>3 DEF TypeOK
    <2>5. \A t \in Sessions : announcement[t] # "dispatching" /\ ~appending[t] /\ ~detachRequested[t]
        BY <2>1, IdleHolds DEF StoreInv, FlagsAgree, Busy
    <2>6. \A t \in Sessions :
              announcement'[t] # "dispatching" /\ ~appending'[t] /\ ~detachRequested'[t]
        BY <1>1, <2>3, <2>5 DEF TypeOK
    <2>7. EntriesAgree'
        BY <1>1, <1>3, <2>3, NoneAssumption DEF StoreInv, EntriesAgree, TypeOK
    <2> QED BY <2>3, <2>4, <2>6, <2>7, QuietInv
<1>4. CASE ~Busy(s) /\ store # s
    <2>1. /\ detachRequested' = [detachRequested EXCEPT ![s] = FALSE]
          /\ UNCHANGED <<store, attachment, stack, seen>>
        BY <1>4 DEF Detach, DetachEntered
    <2>2. TypeOK'
        BY <1>1, <2>1 DEF TypeOK
    <2>3. OneNotice'
        BY <2>1 DEF StoreInv, OneNotice
    <2>4. FlagsAgree'
        BY <1>1, <2>1 DEF StoreInv, FlagsAgree, Holds, Busy, TypeOK
    <2>5. EntriesAgree'
        BY <1>1, <1>4, <2>1 DEF StoreInv, EntriesAgree, TypeOK
    <2> QED BY <2>2, <2>3, <2>4, <2>5 DEF StoreInv
<1> QED BY <1>2, <1>3, <1>4

-----------------------------------------------------------------------------
(* An empty store has nothing under way. *)
LEMMA InitEstablishes == Init => TypeOK /\ StoreInv
<1> SUFFICES ASSUME Init PROVE TypeOK /\ StoreInv
    OBVIOUS
<1>1. TypeOK
    BY BoundsAssumption DEF Init, TypeOK
<1>2. StoreInv
    BY NoneAssumption DEF Init, StoreInv, OneNotice, FlagsAgree, EntriesAgree, Holds
<1> QED BY <1>1, <1>2

(* Every step keeps the invariant. *)
LEMMA NextKeeps == TypeOK /\ StoreInv /\ [Next]_vars => TypeOK' /\ StoreInv'
<1> SUFFICES ASSUME TypeOK, StoreInv, [Next]_vars PROVE TypeOK' /\ StoreInv'
    OBVIOUS
<1>1. CASE \E s \in Sessions : Prepare(s) \/ Enter(s) \/ Announce(s) \/ AppendEvent(s) \/ Detach(s)
    BY <1>1, PrepareStep, EnterStep, AnnounceStep, AppendEventStep, DetachStep
<1>2. CASE Unwinding
    BY <1>2, NextListenerStep, CreatedStep, VetoedStep, PublishedStep, DisposedStep DEF Unwinding
<1>3. CASE UNCHANGED vars
    BY <1>3 DEF vars, entryVars, TypeOK, StoreInv, OneNotice, FlagsAgree, EntriesAgree, Holds, Busy
<1> QED BY <1>1, <1>2, <1>3 DEF Next

(* However deep listeners call back into the store, at most one creation or
   event is under way, it is about the stored session, and the flags of every
   entry say so (SessionStore.announce, commit and detach). *)
THEOREM StoreInvariant == Spec => [](TypeOK /\ StoreInv)
BY InitEstablishes, NextKeeps, PTL DEF Spec

(* Every state of the store is well formed: no listener beyond the last one is
   called, and no log outgrows its bound. *)
THEOREM StoreTypeCorrect == Spec => []TypeOK
BY StoreInvariant, PTL

(* An entry stays in the store until the last listener of its creation or of
   its event returned, no detach removes another session's entry, and nothing
   is left waiting when no notification is under way. *)
THEOREM EntriesKept == Spec => []EntryOutlivesNotices
<1>1. TypeOK /\ StoreInv => EntryOutlivesNotices
    <2> SUFFICES ASSUME TypeOK, StoreInv PROVE EntryOutlivesNotices
        OBVIOUS
    <2>1. \A s \in Sessions : stack = <<>> => ~Busy(s) /\ ~detachRequested[s]
        BY DEF StoreInv, FlagsAgree, Busy, Holds
    <2> QED BY <2>1 DEF StoreInv, OneNotice, EntriesAgree, EntryOutlivesNotices
<1> QED BY <1>1, StoreInvariant, PTL

-----------------------------------------------------------------------------
(***************************************************************************)
(* What the listeners were told.  ViewInv says how far each listener is    *)
(* with each entry, by the stage of the entry and by the notices on the    *)
(* call stack that have yet to reach it.                                   *)
(***************************************************************************)


(* Two listeners' accounts q and r agree on the e-th entry of s. *)
Alike(q, r, s, e) ==
    /\ InOrder(q, s, e) => InOrder(r, s, e)
    /\ Fresh(r, s, e) <=> Fresh(q, s, e)
    /\ \A m : Knows(r, s, e, m) <=> Knows(q, s, e, m)
    /\ Closed(r, s, e) <=> Closed(q, s, e)

(* A notice about another entry tells a listener nothing of this one. *)
LEMMA HeardElsewhere ==
    ASSUME NEW q \in Seq(Notice), NEW n \in Notice, NEW s, NEW e, ~(n.session = s /\ n.entry = e)
    PROVE  Alike(q, Append(q, n), s, e)
<1> DEFINE r == Append(q, n)
           A == About(q, s, e)
<1>1. /\ Len(q) \in Nat /\ Len(r) = Len(q) + 1
      /\ \A i \in 1..Len(q) : r[i] = q[i]
      /\ r[Len(q) + 1] = n
    OBVIOUS
<1>2. A \subseteq 1..Len(q) /\ \A i \in A : r[i] = q[i]
    BY <1>1 DEF About
<1>3. About(r, s, e) = A
    BY <1>1 DEF About
<1>4. \A i : Ends(r, s, e, i) <=> Ends(q, s, e, i)
    BY <1>3 DEF Ends
<1>5. \A i : Ends(q, s, e, i) => i \in A
    BY DEF Ends
<1>6. 1..Len(q) \subseteq 1..Len(r)
    BY <1>1
<1> HIDE DEF r, A
<1>7. InOrder(q, s, e) => InOrder(r, s, e)
    <2> SUFFICES ASSUME InOrder(q, s, e), NEW i \in A
                 PROVE  /\ r[i].kind = "created" => \A j \in A : i <= j
                        /\ r[i].kind = "disposed" => Ends(r, s, e, i)
                        /\ r[i].kind = "event" =>
                             \E j \in A : /\ j < i /\ \A k \in A : k < i => k <= j
                                          /\ r[i].seq = After(r[j])
        BY <1>3 DEF InOrder
    <2>1. /\ q[i].kind = "created" => \A j \in A : i <= j
          /\ q[i].kind = "disposed" => Ends(q, s, e, i)
          /\ q[i].kind = "event" =>
               \E j \in A : /\ j < i /\ \A k \in A : k < i => k <= j
                            /\ q[i].seq = After(q[j])
        BY DEF InOrder, A
    <2> QED BY <2>1, <1>2, <1>4
<1>8. Fresh(r, s, e) <=> Fresh(q, s, e)
    BY <1>3 DEF Fresh, A
<1>9. \A i : i \in A => i \in 1..Len(q) /\ i \in 1..Len(r) /\ r[i] = q[i]
    BY <1>2, <1>6
<1>10. \A m : Knows(r, s, e, m) <=> Knows(q, s, e, m)
    BY <1>4, <1>5, <1>9 DEF Knows
<1>11. Closed(r, s, e) <=> Closed(q, s, e)
    BY <1>4, <1>5, <1>9 DEF Closed
<1> QED BY <1>7, <1>8, <1>10, <1>11 DEF r, Alike

(* What a listener knows of an entry after one more notice about it, provided
   the notice is the one that comes next. *)
LEMMA Heard ==
    ASSUME NEW q \in Seq(Notice), NEW n \in Notice, NEW s, NEW e, n.session = s, n.entry = e,
           InOrder(q, s, e),
           n.kind = "created" => Fresh(q, s, e),
           n.kind = "event" => Knows(q, s, e, n.seq),
           ~Closed(q, s, e)
    PROVE  /\ InOrder(Append(q, n), s, e)
           /\ n.kind = "disposed" => Closed(Append(q, n), s, e)
           /\ n.kind # "disposed" => Knows(Append(q, n), s, e, After(n))
<1> DEFINE r == Append(q, n)
           A == About(q, s, e)
           z == Len(q) + 1
<1>1. /\ Len(q) \in Nat /\ Len(r) = z /\ z \in 1..Len(r)
      /\ \A i \in 1..Len(q) : r[i] = q[i]
      /\ r[z] = n
    OBVIOUS
<1>2. A \subseteq 1..Len(q) /\ (\A i \in A : r[i] = q[i] /\ i < z /\ i \in Int) /\ z \in Int
    BY <1>1 DEF About
<1>3. About(r, s, e) = A \cup {z}
    BY <1>1 DEF About
<1> HIDE DEF r, z
<1>4. Ends(r, s, e, z)
    <2>1. \A j \in A \cup {z} : j <= z
        BY <1>2
    <2> QED BY <1>3, <2>1 DEF Ends
<1>5. \A i \in A : q[i].kind # "disposed"
    <2> SUFFICES ASSUME NEW i \in A, q[i].kind = "disposed" PROVE FALSE
        OBVIOUS
    <2>1. Ends(q, s, e, i) /\ i \in 1..Len(q)
        BY <1>2 DEF InOrder
    <2> QED BY <2>1 DEF Closed
<1>6. InOrder(r, s, e)
    <2> SUFFICES ASSUME NEW i \in A \cup {z}
                 PROVE  /\ r[i].kind = "created" => \A j \in A \cup {z} : i <= j
                        /\ r[i].kind = "disposed" => Ends(r, s, e, i)
                        /\ r[i].kind = "event" =>
                             \E j \in A \cup {z} :
                                 /\ j < i /\ \A k \in A \cup {z} : k < i => k <= j
                                 /\ r[i].seq = After(r[j])
        BY <1>3 DEF InOrder
    <2>1. CASE i \in A
        <3>1. /\ q[i].kind = "created" => \A j \in A : i <= j
              /\ q[i].kind = "event" =>
                   \E j \in A : /\ j < i /\ \A k \in A : k < i => k <= j
                                /\ q[i].seq = After(q[j])
            BY <2>1 DEF InOrder
        <3>2. r[i] = q[i] /\ i < z /\ i \in Int
            BY <1>2, <2>1
        <3> HIDE DEF A
        <3>3. q[i].kind = "created" => \A j \in A \cup {z} : i <= j
            BY <3>1, <3>2, <1>2
        <3>4. \A k \in A \cup {z} : k < i => k \in A
            BY <1>2, <3>2
        <3> QED BY <3>1, <3>2, <3>3, <3>4, <1>2, <1>5, <2>1
    <2>2. CASE i = z
        <3>1. n.kind = "created" => \A j \in A \cup {z} : i <= j
            BY <2>2, <1>2 DEF Fresh
        <3>2. n.kind = "event" =>
                  \E j \in A : /\ j < z /\ \A k \in A : k <= j
                               /\ n.seq = After(r[j])
            <4> SUFFICES ASSUME n.kind = "event"
                         PROVE  \E j \in A : /\ j < z /\ \A k \in A : k <= j
                                             /\ n.seq = After(r[j])
                OBVIOUS
            <4>1. PICK j \in 1..Len(q) : Ends(q, s, e, j) /\ After(q[j]) = n.seq
                BY DEF Knows
            <4>2. j \in A /\ \A k \in A : k <= j
                BY <4>1 DEF Ends
            <4> QED BY <4>1, <4>2, <1>2
        <3> HIDE DEF A
        <3>3. \A k \in A \cup {z} : k < z => k \in A
            BY <1>2
        <3> QED BY <3>1, <3>2, <3>3, <2>2, <1>1, <1>4
    <2> QED BY <2>1, <2>2
<1>7. n.kind = "disposed" => Closed(r, s, e)
    BY <1>1, <1>4 DEF Closed
<1>8. n.kind # "disposed" => Knows(r, s, e, After(n))
    BY <1>1, <1>4 DEF Knows
<1> QED BY <1>6, <1>7, <1>8 DEF r

(* Who knows nothing, or an open entry, was not told of its end. *)
LEMMA NotClosed ==
    ASSUME NEW q, NEW s, NEW e
    PROVE  /\ Fresh(q, s, e) => ~Closed(q, s, e)
           /\ \A m : Knows(q, s, e, m) => ~Closed(q, s, e)
<1>1. Fresh(q, s, e) => ~Closed(q, s, e)
    BY DEF Fresh, Closed, Ends
<1>2. ASSUME NEW m, Knows(q, s, e, m), Closed(q, s, e) PROVE FALSE
    <2>1. PICK i \in 1..Len(q) : Ends(q, s, e, i) /\ q[i].kind # "disposed"
        BY <1>2 DEF Knows
    <2>2. PICK j \in 1..Len(q) : Ends(q, s, e, j) /\ q[j].kind = "disposed"
        BY <1>2 DEF Closed
    <2>3. i <= j /\ j <= i /\ i \in Int /\ j \in Int
        BY <2>1, <2>2 DEF Ends
    <2> QED BY <2>1, <2>2, <2>3
<1> QED BY <1>1, <1>2

-----------------------------------------------------------------------------
(* The parts of ViewInv with the state as parameters, to speak of them before
   and after a step: listener l was told q, the stack is st, the store holds
   c, entries and logs are en and lg; the entry is at stage g, its log m long. *)
FollowedIn(q, st, g, m, s, e, l) ==
    /\ InOrder(q, s, e)
    /\ g = "pending" => Fresh(q, s, e)
    /\ g = "dispatching" => IF Owed(st, "created", s, e, l) THEN Fresh(q, s, e) ELSE Knows(q, s, e, m)
    /\ g = "complete" => Knows(q, s, e, IF Owed(st, "event", s, e, l) THEN m - 1 ELSE m)
    /\ g = "failed" => Fresh(q, s, e) \/ Knows(q, s, e, m)
    /\ g = "gone" =>
         IF Owed(st, "disposed", s, e, l) THEN ~Closed(q, s, e) ELSE Fresh(q, s, e) \/ Closed(q, s, e)

StageIn(c, en, an, s, e) == IF c = s /\ e = en[s] THEN an[s] ELSE "gone"

Fits(n, c, en, lg) ==
    /\ n.entry \in 1..en[n.session]
    /\ n.kind = "disposed" => ~(c = n.session /\ n.entry = en[n.session])
    /\ n.kind # "disposed" => n.entry = en[n.session] /\ After(n) = lg[n.session]

ToldOnce(st) ==
    \A i, j \in 1..Len(st) :
        (/\ st[i].notice.kind = "disposed" /\ st[j].notice.kind = "disposed"
         /\ st[i].notice.session = st[j].notice.session
         /\ st[i].notice.entry = st[j].notice.entry) => i = j

AllFit(st, c, en, lg) == ToldOnce(st) /\ \A i \in 1..Len(st) : Fits(st[i].notice, c, en, lg)

BegunIn(q, en) == \A i \in 1..Len(q) : q[i].entry <= en[q[i].session]

(* ViewInv is these parts, before a step and after it. *)
LEMMA ViewParts ==
    /\ ViewInv <=>
         /\ AllFit(stack, store, enters, log)
         /\ \A s \in Sessions : store = s => enters[s] > 0
         /\ \A l \in Listener : BegunIn(seen[l], enters)
         /\ \A l \in Listener, s \in Sessions : \A e \in 1..enters[s] :
               FollowedIn(seen[l], stack, StageIn(store, enters, announcement, s, e), log[s], s, e, l)
    /\ ViewInv' <=>
         /\ AllFit(stack', store', enters', log')
         /\ \A s \in Sessions : store' = s => enters'[s] > 0
         /\ \A l \in Listener : BegunIn(seen'[l], enters')
         /\ \A l \in Listener, s \in Sessions : \A e \in 1..enters'[s] :
               FollowedIn(seen'[l], stack', StageIn(store', enters', announcement', s, e), log'[s], s, e, l)
<1>1. /\ FramesFit <=> AllFit(stack, store, enters, log)
      /\ FramesFit' <=> AllFit(stack', store', enters', log')
    BY DEF FramesFit, AllFit, ToldOnce, FrameFits, Fits, After
<1>2. /\ Begun <=> /\ \A s \in Sessions : store = s => enters[s] > 0
                   /\ \A l \in Listener : BegunIn(seen[l], enters)
      /\ Begun' <=> /\ \A s \in Sessions : store' = s => enters'[s] > 0
                    /\ \A l \in Listener : BegunIn(seen'[l], enters')
    BY DEF Begun, BegunIn
<1>3. \A l, s, e :
          Followed(l, s, e) <=>
              FollowedIn(seen[l], stack, StageIn(store, enters, announcement, s, e), log[s], s, e, l)
    BY DEF Followed, FollowedIn, Told, Stage, StageIn
<1>4. ASSUME NEW l \in Listener, NEW s \in Sessions, NEW e \in 1..enters'[s]
      PROVE  Followed(l, s, e)' <=>
              FollowedIn(seen'[l], stack', StageIn(store', enters', announcement', s, e), log'[s], s, e, l)
    <2>1. /\ InOrder(seen[l], s, e)' <=> InOrder(seen'[l], s, e)
          /\ Fresh(seen[l], s, e)' <=> Fresh(seen'[l], s, e)
          /\ Closed(seen[l], s, e)' <=> Closed(seen'[l], s, e)
        BY DEF InOrder, Fresh, Closed, Ends, About, After
    <2>2. /\ Knows(seen[l], s, e, log[s])' <=> Knows(seen'[l], s, e, log'[s])
          /\ Knows(seen[l], s, e, IF Owed(stack, "event", s, e, l) THEN log[s] - 1 ELSE log[s])'
                <=> Knows(seen'[l], s, e, IF Owed(stack', "event", s, e, l) THEN log'[s] - 1 ELSE log'[s])
        BY DEF Knows, Owed, Ends, About, After
    <2>3. /\ Owed(stack, "created", s, e, l)' <=> Owed(stack', "created", s, e, l)
          /\ Owed(stack, "disposed", s, e, l)' <=> Owed(stack', "disposed", s, e, l)
        BY DEF Owed
    <2>4. Stage(s, e)' = StageIn(store', enters', announcement', s, e)
        BY DEF Stage, StageIn
    <2> QED BY <2>1, <2>2, <2>3, <2>4 DEF Followed, FollowedIn, Told
<1>5. \A l \in Listener, s \in Sessions : \A e \in 1..enters'[s] :
          Followed(l, s, e)' <=>
              FollowedIn(seen'[l], stack', StageIn(store', enters', announcement', s, e), log'[s], s, e, l)
    BY <1>4
<1> QED BY <1>1, <1>2, <1>3, <1>5 DEF ViewInv

(* A frame pushed is owed to every listener but the first. *)
LEMMA OwedPush ==
    ASSUME NEW st \in Seq(Frame), NEW n, [notice |-> n, at |-> 1] \in Frame,
           NEW kind, NEW s, NEW e, NEW l
    PROVE  Owed(Append(st, [notice |-> n, at |-> 1]), kind, s, e, l) <=>
               \/ Owed(st, kind, s, e, l)
               \/ n.kind = kind /\ n.session = s /\ n.entry = e /\ 1 < l
<1> DEFINE f == [notice |-> n, at |-> 1]
<1>1. f.notice = n /\ f.at = 1
    OBVIOUS
<1> HIDE DEF f
<1>2. f \in Frame
    BY DEF f
<1>3. /\ Len(Append(st, f)) = Len(st) + 1 /\ Len(st) \in Nat
      /\ \A i \in 1..Len(st) : Append(st, f)[i] = st[i]
      /\ Append(st, f)[Len(st) + 1] = f
    BY <1>2, PushFrame
<1>4. Owed(Append(st, f), kind, s, e, l) <=>
          \/ Owed(st, kind, s, e, l)
          \/ f.notice.kind = kind /\ f.notice.session = s /\ f.notice.entry = e /\ f.at < l
    BY <1>3 DEF Owed
<1> QED BY <1>1, <1>4 DEF f

(* What the frames below the innermost one owe. *)
LEMMA OwedPop ==
    ASSUME NEW st \in Seq(Frame), st # <<>>, NEW kind, NEW s, NEW e, NEW l
    PROVE  Owed(st, kind, s, e, l) <=>
               \/ Owed(Front(st), kind, s, e, l)
               \/ /\ Last(st).notice.kind = kind /\ Last(st).notice.session = s
                  /\ Last(st).notice.entry = e /\ Last(st).at < l
<1>1. /\ Len(st) \in Nat \ {0} /\ Len(Front(st)) = Len(st) - 1
      /\ \A i \in 1..Len(st) - 1 : Front(st)[i] = st[i]
      /\ Last(st) = st[Len(st)]
    BY PopFrame
<1>2. \A i \in 1..Len(st) : i \in 1..Len(st) - 1 \/ i = Len(st)
    BY <1>1
<1>3. 1..Len(st) - 1 \subseteq 1..Len(st) /\ Len(st) \in 1..Len(st)
    BY <1>1
<1> QED BY <1>1, <1>2, <1>3 DEF Owed

(* An idle stack owes no creation and no event. *)
LEMMA IdleOwed ==
    ASSUME NEW st, Idle(st), NEW s, NEW e, NEW l
    PROVE  ~Owed(st, "created", s, e, l) /\ ~Owed(st, "event", s, e, l)
BY DEF Idle, Owed

(* Nothing that tells an entry apart for listener l changed. *)
LEMMA Undisturbed ==
    ASSUME NEW q, NEW r, NEW st, NEW st2, NEW g, NEW m, NEW k, NEW s, NEW e, NEW l,
           FollowedIn(q, st, g, m, s, e, l), Alike(q, r, s, e),
           g # "gone" => k = m,
           \A kind : Owed(st2, kind, s, e, l) <=> Owed(st, kind, s, e, l)
    PROVE  FollowedIn(r, st2, g, k, s, e, l)
<1>1. CASE g = "gone"
    BY <1>1 DEF FollowedIn, Alike
<1>2. CASE g # "gone"
    <2>1. k = m
        BY <1>2
    <2> QED BY <2>1, <1>2 DEF FollowedIn, Alike
<1> QED BY <1>1, <1>2

(* An account agrees with itself. *)
LEMMA AlikeSelf == ASSUME NEW q, NEW s, NEW e PROVE Alike(q, q, s, e)
BY DEF Alike

(* Listener k hears of n: its account of other entries, and everybody else's
   account, stay as they were. *)
LEMMA OneHears ==
    ASSUME TypeOK, NEW k \in Listener, NEW n \in Notice, seen' = [seen EXCEPT ![k] = Append(@, n)],
           ViewInv, n.entry <= enters[n.session], enters' = enters
    PROVE  /\ \A l \in Listener : BegunIn(seen'[l], enters')
           /\ \A l \in Listener, s \in Sessions : \A e :
                 ~(l = k /\ n.session = s /\ n.entry = e) => Alike(seen[l], seen'[l], s, e)
           /\ seen'[k] = Append(seen[k], n)
<1>1. /\ seen[k] \in Seq(Notice) /\ seen'[k] = Append(seen[k], n)
      /\ \A l \in Listener : l # k => seen'[l] = seen[l]
    BY DEF TypeOK
<1>2. \A l \in Listener : BegunIn(seen[l], enters)
    BY ViewParts
<1>3. BegunIn(seen'[k], enters')
    <2> DEFINE q == seen[k]
    <2>1. /\ Len(Append(q, n)) = Len(q) + 1 /\ Len(q) \in Nat
          /\ \A i \in 1..Len(q) : Append(q, n)[i] = q[i]
          /\ Append(q, n)[Len(q) + 1] = n
        BY <1>1
    <2>2. BegunIn(q, enters)
        BY <1>2
    <2> HIDE DEF q
    <2>3. BegunIn(Append(q, n), enters)
        BY <2>1, <2>2 DEF BegunIn
    <2> QED BY <2>3, <1>1 DEF q
<1>4. \A l \in Listener : BegunIn(seen'[l], enters')
    BY <1>1, <1>2, <1>3
<1>5. \A s, e : ~(n.session = s /\ n.entry = e) => Alike(seen[k], seen'[k], s, e)
    BY <1>1, HeardElsewhere
<1>6. \A l \in Listener : \A s, e : l # k => Alike(seen[l], seen'[l], s, e)
    BY <1>1, AlikeSelf
<1> QED BY <1>1, <1>4, <1>5, <1>6

(* Pushing a notice that fits onto a stack that fits, where no frame tells of
   the same end. *)
LEMMA FitPush ==
    ASSUME NEW st \in Seq(Frame), NEW n, [notice |-> n, at |-> 1] \in Frame, NEW c, NEW en, NEW lg,
           AllFit(st, c, en, lg), Fits(n, c, en, lg),
           n.kind = "disposed" =>
               \A i \in 1..Len(st) : ~(/\ st[i].notice.kind = "disposed"
                                       /\ st[i].notice.session = n.session
                                       /\ st[i].notice.entry = n.entry)
    PROVE  AllFit(Append(st, [notice |-> n, at |-> 1]), c, en, lg)
<1> DEFINE f == [notice |-> n, at |-> 1]
           r == Append(st, f)
<1>1. f.notice = n /\ f \in Frame
    OBVIOUS
<1> HIDE DEF f
<1>2. /\ Len(r) = Len(st) + 1 /\ Len(st) \in Nat
      /\ \A i \in 1..Len(st) : r[i] = st[i]
      /\ r[Len(st) + 1] = f
    BY <1>1, PushFrame
<1> HIDE DEF r
<1>3. \A i \in 1..Len(r) : i \in 1..Len(st) \/ i = Len(st) + 1
    BY <1>2
<1>4. \A i \in 1..Len(r) : Fits(r[i].notice, c, en, lg)
    BY <1>1, <1>2, <1>3 DEF AllFit
<1>5. ToldOnce(r)
    BY <1>1, <1>2, <1>3 DEF AllFit, ToldOnce
<1> QED BY <1>4, <1>5 DEF AllFit, r, f

(* So does a stack without its innermost frame. *)
LEMMA FitPop ==
    ASSUME NEW st \in Seq(Frame), st # <<>>, NEW c, NEW en, NEW lg, AllFit(st, c, en, lg)
    PROVE  AllFit(Front(st), c, en, lg)
<1>1. /\ Len(st) \in Nat \ {0} /\ Len(Front(st)) = Len(st) - 1
      /\ \A i \in 1..Len(st) - 1 : Front(st)[i] = st[i]
    BY PopFrame
<1>2. 1..Len(st) - 1 \subseteq 1..Len(st)
    BY <1>1
<1> QED BY <1>1, <1>2 DEF AllFit, ToldOnce

(* Ends already told do not care for the logs, nor for the stored entry's. *)
LEMMA FitIdle ==
    ASSUME NEW st \in Seq(Frame), Idle(st), NEW c, NEW c2, NEW en, NEW lg, NEW lg2,
           AllFit(st, c, en, lg), c2 \in {c, None}
    PROVE  AllFit(st, c2, en, lg2)
<1>1. \A i \in 1..Len(st) : st[i].notice.session \in Sessions /\ st[i].notice.kind = "disposed"
    BY FrameTyped DEF Idle
<1> QED BY <1>1, NoneAssumption DEF AllFit, Fits

-----------------------------------------------------------------------------
(* What a listener is told is all that ViewInv looks at. *)
LEMMA ViewStill ==
    ASSUME ViewInv, UNCHANGED <<store, announcement, enters, log, stack, seen>>
    PROVE  ViewInv'
<1>1. /\ AllFit(stack, store, enters, log)
      /\ \A s \in Sessions : store = s => enters[s] > 0
      /\ \A l \in Listener : BegunIn(seen[l], enters)
      /\ \A l \in Listener, s \in Sessions : \A e \in 1..enters[s] :
            FollowedIn(seen[l], stack, StageIn(store, enters, announcement, s, e), log[s], s, e, l)
    BY ViewParts
<1>2. /\ AllFit(stack', store', enters', log')
      /\ \A s \in Sessions : store' = s => enters'[s] > 0
      /\ \A l \in Listener : BegunIn(seen'[l], enters')
      /\ \A l \in Listener, s \in Sessions : \A e \in 1..enters'[s] :
            FollowedIn(seen'[l], stack', StageIn(store', enters', announcement', s, e), log'[s], s, e, l)
    BY <1>1
<1> QED BY <1>2, ViewParts

(* A new entry is unheard of. *)
LEMMA EnterView ==
    ASSUME TypeOK, StoreInv, ViewInv, NEW s \in Sessions, Enter(s)
    PROVE  ViewInv'
<1>1. /\ store = None /\ store' = s
      /\ announcement' = [announcement EXCEPT ![s] = "pending"]
      /\ enters' = [enters EXCEPT ![s] = @ + 1]
      /\ UNCHANGED <<log, stack, seen>>
    BY DEF Enter
<1>2. enters \in [Sessions -> Nat] /\ stack \in Seq(Frame) /\ seen \in [Listener -> Seq(Notice)]
    BY DEF TypeOK
<1>3. /\ enters'[s] = enters[s] + 1 /\ enters[s] \in Nat
      /\ \A t \in Sessions : t # s => enters'[t] = enters[t]
      /\ \A t \in Sessions : enters[t] <= enters'[t] /\ enters[t] \in Nat /\ enters'[t] \in Nat
    BY <1>1, <1>2
<1>4. Idle(stack)
    BY <1>1, EmptyIdle
<1>5. /\ AllFit(stack, store, enters, log)
      /\ \A l \in Listener : BegunIn(seen[l], enters)
      /\ \A l \in Listener, t \in Sessions : \A e \in 1..enters[t] :
            FollowedIn(seen[l], stack, StageIn(store, enters, announcement, t, e), log[t], t, e, l)
    BY ViewParts
<1>6. AllFit(stack', store', enters', log')
    <2>1. \A i \in 1..Len(stack) : Fits(stack[i].notice, store', enters', log')
        <3> TAKE i \in 1..Len(stack)
        <3> DEFINE n == stack[i].notice
        <3>1. n \in Notice /\ n.session \in Sessions /\ n.kind = "disposed"
            BY <1>2, <1>4, FrameTyped DEF Idle
        <3>2. n.entry \in 1..enters[n.session]
            BY <1>5 DEF AllFit, Fits
        <3> HIDE DEF n
        <3>3. n.entry \in 1..enters'[n.session] /\ n.entry <= enters[n.session] /\ n.entry \in Int
            BY <3>1, <3>2, <1>3
        <3>4. ~(store' = n.session /\ n.entry = enters'[n.session])
            BY <3>1, <3>3, <1>1, <1>3
        <3>5. Fits(n, store', enters', log')
            BY <3>1, <3>3, <3>4 DEF Fits
        <3> QED BY <3>5 DEF n
    <2> QED BY <2>1, <1>1, <1>5 DEF AllFit
<1>7. \A t \in Sessions : store' = t => enters'[t] > 0
    BY <1>1, <1>3
<1>8. ASSUME NEW l \in Listener PROVE BegunIn(seen'[l], enters')
    <2>1. \A i \in 1..Len(seen[l]) : seen[l][i] \in Notice
        BY <1>2
    <2>2. \A i \in 1..Len(seen[l]) : seen[l][i].entry \in Nat /\ seen[l][i].session \in Sessions
        BY <2>1 DEF Notice
    <2>3. \A i \in 1..Len(seen[l]) : seen[l][i].entry <= enters[seen[l][i].session]
        BY <1>5 DEF BegunIn
    <2>4. \A i \in 1..Len(seen[l]) : seen[l][i].entry <= enters'[seen[l][i].session]
        <3> TAKE i \in 1..Len(seen[l])
        <3> DEFINE t == seen[l][i].session
                   e == seen[l][i].entry
        <3>1. t \in Sessions /\ e \in Nat /\ e <= enters[t]
            BY <2>2, <2>3
        <3> HIDE DEF t, e
        <3>2. e <= enters'[t]
            BY <3>1, <1>3
        <3> QED BY <3>2 DEF t, e
    <2> QED BY <2>4, <1>1 DEF BegunIn
<1>9. ASSUME NEW l \in Listener, NEW t \in Sessions, NEW e \in 1..enters'[t]
      PROVE  FollowedIn(seen'[l], stack', StageIn(store', enters', announcement', t, e), log'[t], t, e, l)
    <2>1. CASE t = s /\ e = enters'[s]
        <3>1. \A i \in 1..Len(seen[l]) : seen[l][i].session = s => seen[l][i].entry <= enters[s]
            BY <1>5 DEF BegunIn
        <3>2. ~(e <= enters[s])
            BY <2>1, <1>3
        <3>3. About(seen[l], t, e) = {}
            BY <3>1, <3>2, <2>1 DEF About
        <3>4. StageIn(store', enters', announcement', t, e) = "pending"
            BY <2>1, <1>1 DEF StageIn, TypeOK
        <3>5. InOrder(seen[l], t, e) /\ Fresh(seen[l], t, e)
            BY <3>3 DEF InOrder, Fresh
        <3> QED BY <3>4, <3>5, <1>1 DEF FollowedIn
    <2>2. CASE ~(t = s /\ e = enters'[s])
        <3>1. e \in 1..enters[t]
            BY <2>2, <1>3
        <3>2. StageIn(store, enters, announcement, t, e) = "gone"
            BY <1>1, NoneAssumption DEF StageIn
        <3>3. StageIn(store', enters', announcement', t, e) = "gone"
            BY <2>2, <1>1 DEF StageIn
        <3>4. FollowedIn(seen[l], stack, "gone", log[t], t, e, l)
            BY <3>1, <3>2, <1>5
        <3> QED BY <3>3, <3>4, <1>1
    <2> QED BY <2>1, <2>2
<1> QED BY <1>6, <1>7, <1>8, <1>9, ViewParts

(* The first listener of n hears of it.  Nothing about n's entry is owed to
   anybody yet, and n is what comes next for all of them; of other entries
   nothing changes. *)
LEMMA DispatchView ==
    ASSUME TypeOK, ViewInv, NEW n \in Notice, NEW below \in Seq(Frame), Dispatch(n, below),
           enters' = enters, \A t \in Sessions : store' = t => enters[t] > 0,
           AllFit(below, store', enters', log'), Fits(n, store', enters', log'),
           \A t \in Sessions : \A e \in 1..enters[t] : ~(t = n.session /\ e = n.entry) =>
               /\ StageIn(store', enters', announcement', t, e) = StageIn(store, enters, announcement, t, e)
               /\ StageIn(store, enters, announcement, t, e) # "gone" => log'[t] = log[t]
               /\ \A kind, l : Owed(below, kind, t, e, l) <=> Owed(stack, kind, t, e, l),
           \A kind, l : ~Owed(below, kind, n.session, n.entry, l),
           \A l \in Listener :
               /\ InOrder(seen[l], n.session, n.entry) /\ ~Closed(seen[l], n.session, n.entry)
               /\ n.kind = "created" => Fresh(seen[l], n.session, n.entry)
               /\ n.kind = "event" => Knows(seen[l], n.session, n.entry, n.seq),
           StageIn(store', enters', announcement', n.session, n.entry) =
               CASE n.kind = "created" -> "dispatching" [] n.kind = "event" -> "complete"
                 [] n.kind = "disposed" -> "gone"
    PROVE  ViewInv'
<1> DEFINE f == [notice |-> n, at |-> 1]
           s == n.session
           e0 == n.entry
<1>1. 1 \in Listener /\ Listener \subseteq Nat
    BY ListenersAssumption DEF Listener
<1>2. f \in Frame /\ stack' = Append(below, f) /\ seen' = [seen EXCEPT ![1] = Append(@, n)]
    BY <1>1 DEF Frame, Dispatch
<1>3. n.kind \in {"created", "event", "disposed"} /\ s \in Sessions /\ n.seq \in Int
    BY BoundsAssumption DEF Notice
<1>4. e0 \in 1..enters[s] /\ enters[s] \in Nat
    BY <1>3 DEF Fits, TypeOK
<1>5. e0 <= enters[s]
    BY <1>4
<1>6. /\ \A l \in Listener : BegunIn(seen'[l], enters')
      /\ \A l \in Listener, t \in Sessions : \A e :
            ~(l = 1 /\ n.session = t /\ n.entry = e) => Alike(seen[l], seen'[l], t, e)
      /\ seen'[1] = Append(seen[1], n)
    BY <1>1, <1>2, <1>5, OneHears
<1>7. AllFit(stack', store', enters', log')
    <2>1. n.kind = "disposed" =>
              \A i \in 1..Len(below) : ~(/\ below[i].notice.kind = "disposed"
                                         /\ below[i].notice.session = n.session
                                         /\ below[i].notice.entry = n.entry)
        <3> SUFFICES ASSUME NEW i \in 1..Len(below), below[i].notice.kind = "disposed",
                            below[i].notice.session = n.session, below[i].notice.entry = n.entry
                     PROVE FALSE
            OBVIOUS
        <3>1. below[i].at \in Nat
            <4>1. below[i] \in Frame
                BY FrameTyped
            <4>2. below[i].at \in Listener
                BY <4>1 DEF Frame
            <4> QED BY <4>2, <1>1
        <3>2. Owed(below, "disposed", n.session, n.entry, below[i].at + 1)
            BY <3>1 DEF Owed
        <3> QED BY <3>2
    <2> QED BY <2>1, <1>2, FitPush
<1>8. \A kind, t, e, l :
          Owed(stack', kind, t, e, l) <=>
              \/ Owed(below, kind, t, e, l)
              \/ n.kind = kind /\ n.session = t /\ n.entry = e /\ 1 < l
    BY <1>2, OwedPush
<1>9. \A l \in Listener, t \in Sessions : \A e \in 1..enters[t] :
          FollowedIn(seen[l], stack, StageIn(store, enters, announcement, t, e), log[t], t, e, l)
    BY ViewParts
<1>10. ASSUME NEW l \in Listener, NEW t \in Sessions, NEW e \in 1..enters'[t]
       PROVE  FollowedIn(seen'[l], stack', StageIn(store', enters', announcement', t, e), log'[t], t, e, l)
    <2>0. e \in 1..enters[t]
        OBVIOUS
    <2>1. CASE ~(t = s /\ e = e0)
        <3>1. /\ StageIn(store', enters', announcement', t, e) = StageIn(store, enters, announcement, t, e)
              /\ StageIn(store, enters, announcement, t, e) # "gone" => log'[t] = log[t]
              /\ \A kind : Owed(below, kind, t, e, l) <=> Owed(stack, kind, t, e, l)
            BY <2>0, <2>1
        <3>2. \A kind : Owed(stack', kind, t, e, l) <=> Owed(stack, kind, t, e, l)
            BY <3>1, <2>1, <1>8
        <3>3. Alike(seen[l], seen'[l], t, e)
            BY <2>1, <1>6
        <3>4. FollowedIn(seen[l], stack, StageIn(store, enters, announcement, t, e), log[t], t, e, l)
            BY <2>0, <1>9
        <3> QED BY <3>1, <3>2, <3>3, <3>4, Undisturbed
    <2>2. CASE t = s /\ e = e0 /\ l = 1
        <3>1. /\ InOrder(seen[1], s, e0) /\ ~Closed(seen[1], s, e0)
              /\ n.kind = "created" => Fresh(seen[1], s, e0)
              /\ n.kind = "event" => Knows(seen[1], s, e0, n.seq)
            BY <1>1
        <3>2. seen[1] \in Seq(Notice)
            BY <1>1 DEF TypeOK
        <3>3. /\ InOrder(seen'[1], s, e0)
              /\ n.kind = "disposed" => Closed(seen'[1], s, e0)
              /\ n.kind # "disposed" => Knows(seen'[1], s, e0, After(n))
            BY <3>1, <3>2, <1>6, Heard
        <3>4. \A kind : ~Owed(stack', kind, s, e0, 1)
            BY <1>8
        <3>5. n.kind # "disposed" => After(n) = log'[s]
            BY DEF Fits
        <3> QED BY <2>2, <3>3, <3>4, <3>5, <1>3 DEF FollowedIn
    <2>3. CASE t = s /\ e = e0 /\ l # 1
        <3>1. Alike(seen[l], seen'[l], s, e0)
            BY <2>3, <1>6, <1>3
        <3>2. /\ InOrder(seen'[l], s, e0) /\ ~Closed(seen'[l], s, e0)
              /\ n.kind = "created" => Fresh(seen'[l], s, e0)
              /\ n.kind = "event" => Knows(seen'[l], s, e0, n.seq)
            BY <3>1 DEF Alike
        <3>3. 1 < l
            BY <2>3 DEF Listener
        <3>4. Owed(stack', n.kind, s, e0, l)
            BY <3>3, <1>8
        <3>5. n.kind = "event" => n.seq = log'[s] - 1
            BY <1>3 DEF Fits, After
        <3> QED BY <2>3, <3>2, <3>4, <3>5, <1>3 DEF FollowedIn
    <2> QED BY <2>1, <2>2, <2>3
<1>11. \A l \in Listener, t \in Sessions : \A e \in 1..enters'[t] :
          FollowedIn(seen'[l], stack', StageIn(store', enters', announcement', t, e), log'[t], t, e, l)
    BY <1>10
<1> QED BY <1>6, <1>7, <1>11, ViewParts

(* The stored session's current entry before anything is under way. *)
LEMMA StoredView ==
    ASSUME TypeOK, ViewInv, NEW s \in Sessions, store = s, Idle(stack)
    PROVE  /\ enters[s] \in 1..enters[s] /\ enters[s] > 0
           /\ \A kind, l : ~Owed(stack, kind, s, enters[s], l)
           /\ \A l \in Listener :
                 /\ InOrder(seen[l], s, enters[s])
                 /\ announcement[s] = "pending" => Fresh(seen[l], s, enters[s])
                 /\ announcement[s] = "complete" => Knows(seen[l], s, enters[s], log[s])
                 /\ announcement[s] # "dispatching" => ~Closed(seen[l], s, enters[s])
<1>1. enters[s] > 0 /\ enters[s] \in Nat /\ enters[s] \in 1..enters[s]
    <2>1. enters[s] > 0 /\ enters[s] \in Nat
        BY ViewParts DEF TypeOK
    <2> QED BY <2>1
<1>2. \A kind, l : ~Owed(stack, kind, s, enters[s], l)
    BY ViewParts DEF AllFit, Fits, Owed, Idle
<1>3. StageIn(store, enters, announcement, s, enters[s]) = announcement[s]
    BY DEF StageIn
<1>4. announcement[s] \in {"pending", "dispatching", "complete", "failed"}
    BY DEF TypeOK
<1>5. ASSUME NEW l \in Listener
      PROVE  /\ InOrder(seen[l], s, enters[s])
             /\ announcement[s] = "pending" => Fresh(seen[l], s, enters[s])
             /\ announcement[s] = "complete" => Knows(seen[l], s, enters[s], log[s])
             /\ announcement[s] # "dispatching" => ~Closed(seen[l], s, enters[s])
    <2>1. FollowedIn(seen[l], stack, announcement[s], log[s], s, enters[s], l)
        BY <1>1, <1>3, ViewParts
    <2>2. /\ InOrder(seen[l], s, enters[s])
          /\ announcement[s] = "pending" => Fresh(seen[l], s, enters[s])
          /\ announcement[s] = "complete" => Knows(seen[l], s, enters[s], log[s])
          /\ announcement[s] = "failed" => Fresh(seen[l], s, enters[s]) \/ Knows(seen[l], s, enters[s], log[s])
        BY <2>1, <1>2 DEF FollowedIn
    <2>3. /\ Fresh(seen[l], s, enters[s]) => ~Closed(seen[l], s, enters[s])
          /\ Knows(seen[l], s, enters[s], log[s]) => ~Closed(seen[l], s, enters[s])
        BY NotClosed
    <2>4. CASE announcement[s] \in {"pending", "dispatching"}
        BY <2>2, <2>3, <2>4
    <2>5. CASE announcement[s] = "complete"
        BY <2>2, <2>3, <2>5
    <2>6. CASE announcement[s] = "failed"
        BY <2>2, <2>3, <2>6
    <2> QED BY <1>4, <2>4, <2>5, <2>6
<1> QED BY <1>1, <1>2, <1>5

(* The creation is next for every listener. *)
LEMMA AnnounceView ==
    ASSUME TypeOK, StoreInv, ViewInv, NEW s \in Sessions, Announce(s)
    PROVE  ViewInv'
<1> DEFINE n == notice("created", s)
<1>1. /\ store = s /\ announcement[s] = "pending"
      /\ announcement' = [announcement EXCEPT ![s] = "dispatching"]
      /\ Dispatch(n, stack)
      /\ UNCHANGED <<store, enters, log>>
    BY DEF Announce
<1>2. Idle(stack) /\ stack \in Seq(Frame)
    BY <1>1, StoredIdle DEF StoreInv, FlagsAgree, Busy, TypeOK
<1>3. /\ n \in Notice /\ n.kind = "created" /\ n.session = s /\ n.entry = enters[s] /\ n.seq = log[s]
    BY NoticeTyped DEF notice
<1> HIDE DEF n
<1>4. /\ enters[s] \in 1..enters[s]
      /\ \A kind, l : ~Owed(stack, kind, s, enters[s], l)
      /\ \A l \in Listener : /\ InOrder(seen[l], s, enters[s]) /\ Fresh(seen[l], s, enters[s])
                             /\ ~Closed(seen[l], s, enters[s])
    BY <1>1, <1>2, StoredView
<1>5. AllFit(stack, store', enters', log') /\ \A t \in Sessions : store' = t => enters[t] > 0
    BY <1>1, ViewParts
<1>6. Fits(n, store', enters', log')
    BY <1>1, <1>3, <1>4 DEF Fits, After
<1>7. \A t \in Sessions : \A e \in 1..enters[t] : ~(t = n.session /\ e = n.entry) =>
          /\ StageIn(store', enters', announcement', t, e) = StageIn(store, enters, announcement, t, e)
          /\ StageIn(store, enters, announcement, t, e) # "gone" => log'[t] = log[t]
          /\ \A kind, l : Owed(stack, kind, t, e, l) <=> Owed(stack, kind, t, e, l)
    BY <1>1, <1>3 DEF StageIn
<1>8. StageIn(store', enters', announcement', n.session, n.entry) = "dispatching"
    BY <1>1, <1>3 DEF StageIn, TypeOK
<1>9. \A kind, l : ~Owed(stack, kind, n.session, n.entry, l)
    BY <1>3, <1>4
<1>10. \A l \in Listener :
          /\ InOrder(seen[l], n.session, n.entry) /\ ~Closed(seen[l], n.session, n.entry)
          /\ n.kind = "created" => Fresh(seen[l], n.session, n.entry)
          /\ n.kind = "event" => Knows(seen[l], n.session, n.entry, n.seq)
    BY <1>3, <1>4
<1> QED BY <1>1, <1>2, <1>3, <1>5, <1>6, <1>7, <1>8, <1>9, <1>10, DispatchView

(* The event is next for every listener, the log is one ahead of them. *)
LEMMA AppendEventView ==
    ASSUME TypeOK, StoreInv, ViewInv, NEW s \in Sessions, AppendEvent(s)
    PROVE  ViewInv'
<1> DEFINE n == notice("event", s)
<1>1. /\ Publishable(s) /\ log' = [log EXCEPT ![s] = @ + 1]
      /\ UNCHANGED <<store, announcement, enters>>
    BY DEF AppendEvent
<1>2. /\ log'[s] = log[s] + 1 /\ log[s] \in Int
      /\ \A t \in Sessions : t # s => log'[t] = log[t]
    BY <1>1, BoundsAssumption DEF TypeOK
<1>3. CASE attachment[s] = "entered"
    <2>1. /\ Dispatch(n, stack) /\ announcement[s] = "complete" /\ ~appending[s] /\ store = s
        BY <1>1, <1>3 DEF AppendEvent, Publishable, StoreInv, EntriesAgree
    <2>2. Idle(stack) /\ stack \in Seq(Frame)
        BY <2>1, StoredIdle DEF Busy, TypeOK
    <2>3. n \in Notice /\ n.kind = "event" /\ n.session = s /\ n.entry = enters[s] /\ n.seq = log[s]
        BY NoticeTyped DEF notice
    <2> HIDE DEF n
    <2>4. /\ enters[s] \in 1..enters[s]
          /\ \A kind, l : ~Owed(stack, kind, s, enters[s], l)
          /\ \A l \in Listener : /\ InOrder(seen[l], s, enters[s])
                                 /\ Knows(seen[l], s, enters[s], log[s])
                                 /\ ~Closed(seen[l], s, enters[s])
        BY <2>1, <2>2, StoredView
    <2>5. \A t \in Sessions : store' = t => enters[t] > 0
        BY <1>1, ViewParts
    <2>6. AllFit(stack, store', enters', log')
        BY <1>1, <2>2, ViewParts, FitIdle
    <2>7. Fits(n, store', enters', log')
        BY <1>1, <1>2, <2>3, <2>4 DEF Fits, After
    <2>8. \A t \in Sessions : \A e \in 1..enters[t] : ~(t = n.session /\ e = n.entry) =>
              /\ StageIn(store', enters', announcement', t, e) = StageIn(store, enters, announcement, t, e)
              /\ StageIn(store, enters, announcement, t, e) # "gone" => log'[t] = log[t]
              /\ \A kind, l : Owed(stack, kind, t, e, l) <=> Owed(stack, kind, t, e, l)
        BY <1>1, <1>2, <2>1, <2>3 DEF StageIn
    <2>9. StageIn(store', enters', announcement', n.session, n.entry) = "complete"
        BY <1>1, <2>1, <2>3 DEF StageIn
    <2>10. \A kind, l : ~Owed(stack, kind, n.session, n.entry, l)
        BY <2>3, <2>4
    <2>11. \A l \in Listener :
              /\ InOrder(seen[l], n.session, n.entry) /\ ~Closed(seen[l], n.session, n.entry)
              /\ n.kind = "created" => Fresh(seen[l], n.session, n.entry)
              /\ n.kind = "event" => Knows(seen[l], n.session, n.entry, n.seq)
        BY <2>3, <2>4
    <2> QED BY <1>1, <2>1, <2>2, <2>3, <2>5, <2>6, <2>7, <2>8, <2>9, <2>10, <2>11, DispatchView
<1>4. CASE attachment[s] # "entered"
    <2>1. UNCHANGED <<stack, seen>> /\ store # s
        BY <1>4 DEF AppendEvent, StoreInv, EntriesAgree
    <2>2. \A i \in 1..Len(stack) : stack[i].notice.kind # "disposed" => stack[i].notice.session # s
        BY <2>1 DEF StoreInv, OneNotice
    <2>3. \A i \in 1..Len(stack) : stack[i].notice.session \in Sessions
        BY FrameTyped DEF TypeOK
    <2>4. AllFit(stack, store, enters, log)
        BY ViewParts
    <2>5. AllFit(stack', store', enters', log')
        <3>1. \A i \in 1..Len(stack) :
                  stack[i].notice.kind # "disposed" =>
                      log'[stack[i].notice.session] = log[stack[i].notice.session]
            BY <1>2, <2>2, <2>3
        <3>2. \A i \in 1..Len(stack) : Fits(stack[i].notice, store, enters, log')
            BY <2>4, <3>1 DEF AllFit, Fits
        <3> QED BY <1>1, <2>1, <2>4, <3>2 DEF AllFit
    <2>6. \A l \in Listener, t \in Sessions : \A e \in 1..enters[t] :
              FollowedIn(seen[l], stack, StageIn(store, enters, announcement, t, e), log[t], t, e, l)
        BY ViewParts
    <2>7. \A t \in Sessions : \A e : StageIn(store, enters, announcement, t, e) # "gone" => log'[t] = log[t]
        BY <1>2, <2>1 DEF StageIn
    <2>8. ASSUME NEW l \in Listener, NEW t \in Sessions, NEW e \in 1..enters'[t]
          PROVE  FollowedIn(seen'[l], stack', StageIn(store', enters', announcement', t, e), log'[t], t, e, l)
        <3>1. FollowedIn(seen[l], stack, StageIn(store, enters, announcement, t, e), log[t], t, e, l)
            BY <1>1, <2>6
        <3>2. StageIn(store, enters, announcement, t, e) # "gone" => log'[t] = log[t]
            BY <2>7
        <3>3. FollowedIn(seen[l], stack, StageIn(store, enters, announcement, t, e), log'[t], t, e, l)
            BY <3>1, <3>2, AlikeSelf, Undisturbed
        <3> QED BY <1>1, <2>1, <3>3
    <2>9. /\ \A l \in Listener : BegunIn(seen'[l], enters')
          /\ \A t \in Sessions : store' = t => enters'[t] > 0
        BY <1>1, <2>1, ViewParts
    <2> QED BY <2>5, <2>8, <2>9, ViewParts
<1> QED BY <1>3, <1>4

(* The stored entry of s is removed above frames that are left: whoever heard
   of it is owed its end. *)
LEMMA RemovedView ==
    ASSUME TypeOK, ViewInv, NEW s \in Sessions, NEW below \in Seq(Frame), Idle(below), store = s,
           DetachEntered(s, below), UNCHANGED <<enters, log>>,
           AllFit(below, store, enters, log),
           \A kind, t, e, l : ~(t = s /\ e = enters[s]) =>
               (Owed(below, kind, t, e, l) <=> Owed(stack, kind, t, e, l)),
           \A l \in Listener :
               /\ InOrder(seen[l], s, enters[s]) /\ ~Closed(seen[l], s, enters[s])
               /\ announcement[s] = "pending" => Fresh(seen[l], s, enters[s])
    PROVE  ViewInv'
<1>1. store' = None
    BY DEF DetachEntered
<1>2. enters[s] > 0 /\ enters[s] \in Nat /\ enters[s] \in 1..enters[s]
    <2>1. enters[s] > 0 /\ enters[s] \in Nat
        BY ViewParts DEF TypeOK
    <2> QED BY <2>1
<1>3. \A kind, l : ~Owed(below, kind, s, enters[s], l)
    BY DEF AllFit, Fits, Owed, Idle
<1>4. AllFit(below, store', enters', log')
    BY <1>1, FitIdle
<1>5. \A t \in Sessions : \A e : StageIn(store', enters', announcement', t, e) = "gone"
    BY <1>1, NoneAssumption DEF StageIn
<1>6. \A t \in Sessions : \A e :
          ~(t = s /\ e = enters[s]) => StageIn(store, enters, announcement, t, e) = "gone"
    BY DEF StageIn
<1>7. \A t \in Sessions : store' = t => enters[t] > 0
    BY <1>1, NoneAssumption
<1>8. CASE announcement[s] # "pending"
    <2> DEFINE n == notice("disposed", s)
    <2>1. Dispatch(n, below)
        BY <1>8 DEF DetachEntered
    <2>2. n \in Notice /\ n.kind = "disposed" /\ n.session = s /\ n.entry = enters[s]
        BY NoticeTyped DEF notice
    <2> HIDE DEF n
    <2>3. Fits(n, store', enters', log')
        BY <1>1, <1>2, <2>2, NoneAssumption DEF Fits
    <2>4. \A t \in Sessions : \A e \in 1..enters[t] : ~(t = n.session /\ e = n.entry) =>
              /\ StageIn(store', enters', announcement', t, e) = StageIn(store, enters, announcement, t, e)
              /\ StageIn(store, enters, announcement, t, e) # "gone" => log'[t] = log[t]
              /\ \A kind, l : Owed(below, kind, t, e, l) <=> Owed(stack, kind, t, e, l)
        BY <1>5, <1>6, <2>2
    <2>5. StageIn(store', enters', announcement', n.session, n.entry) = "gone"
        BY <1>5, <2>2
    <2>6. \A kind, l : ~Owed(below, kind, n.session, n.entry, l)
        BY <1>3, <2>2
    <2>7. \A l \in Listener :
              /\ InOrder(seen[l], n.session, n.entry) /\ ~Closed(seen[l], n.session, n.entry)
              /\ n.kind = "created" => Fresh(seen[l], n.session, n.entry)
              /\ n.kind = "event" => Knows(seen[l], n.session, n.entry, n.seq)
        BY <2>2
    <2> QED BY <1>4, <1>7, <2>1, <2>2, <2>3, <2>4, <2>5, <2>6, <2>7, DispatchView
<1>9. CASE announcement[s] = "pending"
    <2>1. stack' = below /\ seen' = seen
        BY <1>9 DEF DetachEntered
    <2>2. \A l \in Listener, t \in Sessions : \A e \in 1..enters[t] :
              FollowedIn(seen[l], stack, StageIn(store, enters, announcement, t, e), log[t], t, e, l)
        BY ViewParts
    <2>3. ASSUME NEW l \in Listener, NEW t \in Sessions, NEW e \in 1..enters'[t]
          PROVE  FollowedIn(seen'[l], stack', StageIn(store', enters', announcement', t, e), log'[t], t, e, l)
        <3>1. CASE t = s /\ e = enters[s]
            <4>1. InOrder(seen[l], s, enters[s]) /\ Fresh(seen[l], s, enters[s])
                BY <1>9
            <4> QED BY <3>1, <4>1, <1>3, <1>5, <2>1 DEF FollowedIn
        <3>2. CASE ~(t = s /\ e = enters[s])
            <4>1. FollowedIn(seen[l], stack, "gone", log[t], t, e, l)
                BY <3>2, <1>6, <2>2
            <4>2. \A kind : Owed(below, kind, t, e, l) <=> Owed(stack, kind, t, e, l)
                BY <3>2
            <4>3. FollowedIn(seen[l], below, "gone", log[t], t, e, l)
                BY <4>1, <4>2, AlikeSelf, Undisturbed
            <4> QED BY <4>3, <1>5, <2>1
        <3> QED BY <3>1, <3>2
    <2>4. \A l \in Listener : BegunIn(seen'[l], enters')
        BY <2>1, ViewParts
    <2> QED BY <1>4, <1>7, <2>1, <2>3, <2>4, ViewParts
<1> QED BY <1>8, <1>9

(* A removal outside a notification of the entry. *)
LEMMA DetachView ==
    ASSUME TypeOK, StoreInv, ViewInv, NEW s \in Sessions, Detach(s)
    PROVE  ViewInv'
<1>1. UNCHANGED <<announcement, enters, log>>
    BY DEF Detach
<1>2. CASE Busy(s)
    BY <1>1, <1>2, ViewStill DEF Detach
<1>3. CASE ~Busy(s) /\ store # s
    BY <1>1, <1>3, ViewStill DEF Detach, DetachEntered
<1>4. CASE ~Busy(s) /\ store = s
    <2>1. Idle(stack) /\ stack \in Seq(Frame)
        BY <1>4, StoredIdle DEF TypeOK
    <2>2. DetachEntered(s, stack) /\ announcement[s] # "dispatching"
        BY <1>4 DEF Detach, Busy
    <2>3. \A l \in Listener :
              /\ InOrder(seen[l], s, enters[s]) /\ ~Closed(seen[l], s, enters[s])
              /\ announcement[s] = "pending" => Fresh(seen[l], s, enters[s])
        BY <1>4, <2>1, <2>2, StoredView
    <2>4. AllFit(stack, store, enters, log)
        BY ViewParts
    <2> QED BY <1>1, <1>4, <2>1, <2>2, <2>3, <2>4, RemovedView
<1> QED BY <1>2, <1>3, <1>4

(* The innermost notice has reached its last listener, or reaches no more of
   them: the frames below owe what the stack owed. *)
LEMMA TopLeaves ==
    ASSUME TypeOK, stack # <<>>, NEW t, NEW e, NEW l \in Listener, NEW kind,
           \/ Top.at = Listeners
           \/ ~(kind = Top.notice.kind /\ t = Top.notice.session /\ e = Top.notice.entry)
    PROVE  Owed(Front(stack), kind, t, e, l) <=> Owed(stack, kind, t, e, l)
<1>1. Owed(stack, kind, t, e, l) <=>
          \/ Owed(Front(stack), kind, t, e, l)
          \/ Top.notice.kind = kind /\ Top.notice.session = t /\ Top.notice.entry = e /\ Top.at < l
    BY OwedPop DEF TypeOK, Top
<1>2. Top.at = Listeners => ~(Top.at < l)
    BY ListenersAssumption DEF Listener
<1> QED BY <1>1, <1>2

(* A creation or an event is over, and so is the call in which it happened:
   every listener knows the whole log, or the creation failed. *)
LEMMA EndedView ==
    ASSUME TypeOK, StoreInv, ViewInv, stack # <<>>, Top.notice.kind # "disposed",
           Unwind(Top.notice.session, Front(stack)), UNCHANGED <<enters, log>>,
           announcement[Top.notice.session] # "pending",
           \A t \in Sessions : t # Top.notice.session => announcement'[t] = announcement[t],
           \A l \in Listener : InOrder(seen[l], Top.notice.session, enters[Top.notice.session]),
           \/ /\ announcement'[Top.notice.session] = "complete"
              /\ \A l \in Listener :
                    Knows(seen[l], Top.notice.session, enters[Top.notice.session], log[Top.notice.session])
           \/ /\ announcement'[Top.notice.session] = "failed"
              /\ \A l \in Listener :
                    \/ Fresh(seen[l], Top.notice.session, enters[Top.notice.session])
                    \/ Knows(seen[l], Top.notice.session, enters[Top.notice.session], log[Top.notice.session])
    PROVE  ViewInv'
<1> DEFINE s == Top.notice.session
           below == Front(stack)
<1>1. s \in Sessions /\ below \in Seq(Frame) /\ store = s /\ Idle(below)
    BY TopTyped, TopAlone
<1>2. AllFit(stack, store, enters, log) /\ AllFit(below, store, enters, log)
    BY ViewParts, FitPop DEF TypeOK
<1>3. Top.notice.entry = enters[s]
    <2>1. Top = stack[Len(stack)] /\ Len(stack) \in 1..Len(stack)
        BY TopTyped
    <2> QED BY <2>1, <1>2 DEF AllFit, Fits
<1>4. \A kind, t, e, l : ~(t = s /\ e = enters[s]) =>
          (Owed(below, kind, t, e, l) <=> Owed(stack, kind, t, e, l))
    BY <1>3, OwedPop DEF TypeOK, Top
<1>5. \A l \in Listener : ~Closed(seen[l], s, enters[s])
    <2> TAKE l \in Listener
    <2>1. Fresh(seen[l], s, enters[s]) \/ Knows(seen[l], s, enters[s], log[s])
        OBVIOUS
    <2>2. /\ Fresh(seen[l], s, enters[s]) => ~Closed(seen[l], s, enters[s])
          /\ Knows(seen[l], s, enters[s], log[s]) => ~Closed(seen[l], s, enters[s])
        BY NotClosed
    <2> QED BY <2>1, <2>2
<1>6. CASE detachRequested[s]
    <2>1. DetachEntered(s, below)
        BY <1>6 DEF Unwind
    <2> HIDE DEF s, below
    <2>2. \A l \in Listener :
              /\ InOrder(seen[l], s, enters[s]) /\ ~Closed(seen[l], s, enters[s])
              /\ announcement[s] = "pending" => Fresh(seen[l], s, enters[s])
        BY <1>5 DEF s
    <2> QED BY <1>1, <1>2, <1>4, <2>1, <2>2, RemovedView
<1>7. CASE ~detachRequested[s]
    <2>1. stack' = below /\ UNCHANGED <<store, seen>>
        BY <1>7 DEF Unwind
    <2>2. \A l \in Listener, t \in Sessions : \A e \in 1..enters[t] :
              FollowedIn(seen[l], stack, StageIn(store, enters, announcement, t, e), log[t], t, e, l)
        BY ViewParts
    <2>3. \A kind, l : kind # "disposed" => ~Owed(below, kind, s, enters[s], l)
        BY <1>1 DEF Idle, Owed
    <2>4. ASSUME NEW l \in Listener, NEW t \in Sessions, NEW e \in 1..enters'[t]
          PROVE  FollowedIn(seen'[l], stack', StageIn(store', enters', announcement', t, e), log'[t], t, e, l)
        <3>1. CASE t = s /\ e = enters[s]
            <4>1. /\ InOrder(seen[l], s, enters[s])
                  /\ \/ announcement'[s] = "complete" /\ Knows(seen[l], s, enters[s], log[s])
                     \/ /\ announcement'[s] = "failed"
                        /\ Fresh(seen[l], s, enters[s]) \/ Knows(seen[l], s, enters[s], log[s])
                OBVIOUS
            <4>2. StageIn(store', enters', announcement', s, enters[s]) = announcement'[s]
                BY <1>1, <2>1 DEF StageIn
            <4>3. ~Owed(below, "event", s, enters[s], l)
                BY <2>3
            <4> HIDE DEF s, below
            <4>4. FollowedIn(seen[l], below, announcement'[s], log[s], s, enters[s], l)
                BY <4>1, <4>3 DEF FollowedIn
            <4> QED BY <3>1, <4>2, <4>4, <2>1
        <3>2. CASE ~(t = s /\ e = enters[s])
            <4>1. /\ StageIn(store, enters, announcement, t, e) = "gone"
                  /\ StageIn(store', enters', announcement', t, e) = "gone"
                BY <3>2, <1>1, <2>1 DEF StageIn
            <4>2. FollowedIn(seen[l], stack, "gone", log[t], t, e, l)
                BY <4>1, <2>2
            <4>3. \A kind : Owed(below, kind, t, e, l) <=> Owed(stack, kind, t, e, l)
                BY <3>2, <1>4
            <4> HIDE DEF below
            <4>4. FollowedIn(seen[l], below, "gone", log[t], t, e, l)
                BY <4>2, <4>3, AlikeSelf, Undisturbed
            <4> QED BY <4>1, <4>4, <2>1
        <3> QED BY <3>1, <3>2
    <2>5. /\ \A l \in Listener : BegunIn(seen'[l], enters')
          /\ \A t \in Sessions : store' = t => enters'[t] > 0
        BY <2>1, ViewParts
    <2>6. AllFit(stack', store', enters', log')
        BY <1>2, <2>1
    <2> QED BY <2>4, <2>5, <2>6, ViewParts
<1> QED BY <1>6, <1>7

(* What the innermost notice tells of: the stored entry, and how far each
   listener is with it. *)
LEMMA TopView ==
    ASSUME TypeOK, StoreInv, ViewInv, stack # <<>>, Top.notice.kind # "disposed"
    PROVE  /\ Top.notice.entry = enters[Top.notice.session]
           /\ \A l \in Listener :
                 LET s == Top.notice.session IN
                 FollowedIn(seen[l], stack, announcement[s], log[s], s, enters[s], l)
<1> DEFINE s == Top.notice.session
<1>1. s \in Sessions /\ store = s /\ Top = stack[Len(stack)] /\ Len(stack) \in 1..Len(stack)
    BY TopTyped, TopAlone
<1>2. AllFit(stack, store, enters, log)
    BY ViewParts
<1>3. Top.notice.entry = enters[s] /\ enters[s] \in 1..enters[s]
    BY <1>1, <1>2 DEF AllFit, Fits
<1>4. StageIn(store, enters, announcement, s, enters[s]) = announcement[s]
    BY <1>1 DEF StageIn
<1>5. \A l \in Listener, t \in Sessions : \A e \in 1..enters[t] :
          FollowedIn(seen[l], stack, StageIn(store, enters, announcement, t, e), log[t], t, e, l)
    BY ViewParts
<1> QED BY <1>1, <1>3, <1>4, <1>5

(* Every listener heard of the creation. *)
LEMMA CreatedView ==
    ASSUME TypeOK, StoreInv, ViewInv, Created
    PROVE  ViewInv'
<1> DEFINE s == Top.notice.session
<1>1. /\ stack # <<>> /\ Top.notice.kind = "created" /\ Top.at = Listeners
      /\ announcement' = [announcement EXCEPT ![s] = "complete"]
      /\ Unwind(s, Front(stack)) /\ UNCHANGED <<enters, log>>
    BY DEF Created
<1>2. s \in Sessions
    BY <1>1, TopTyped
<1>3. announcement[s] = "dispatching"
    <2>1. Top = stack[Len(stack)] /\ Len(stack) \in 1..Len(stack)
        BY <1>1, TopTyped
    <2> QED BY <1>1, <1>2, <2>1 DEF StoreInv, FlagsAgree, Holds
<1>4. announcement'[s] = "complete" /\ \A t \in Sessions : t # s => announcement'[t] = announcement[t]
    BY <1>1, <1>2 DEF TypeOK
<1>5. ASSUME NEW l \in Listener
      PROVE  InOrder(seen[l], s, enters[s]) /\ Knows(seen[l], s, enters[s], log[s])
    <2>1. FollowedIn(seen[l], stack, "dispatching", log[s], s, enters[s], l)
        BY <1>1, <1>3, TopView
    <2>2. ~Owed(stack, "created", s, enters[s], l)
        <3>1. ~Owed(Front(stack), "created", s, enters[s], l)
            BY <1>1, TopAlone DEF Idle, Owed
        <3> QED BY <1>1, <3>1, TopLeaves
    <2> QED BY <2>1, <2>2 DEF FollowedIn
<1> QED BY <1>1, <1>3, <1>4, <1>5, EndedView

(* Those before the one that threw heard of the creation, the others of nothing. *)
LEMMA VetoedView ==
    ASSUME TypeOK, StoreInv, ViewInv, Vetoed
    PROVE  ViewInv'
<1> DEFINE s == Top.notice.session
<1>1. /\ stack # <<>> /\ Top.notice.kind = "created"
      /\ announcement' = [announcement EXCEPT ![s] = "failed"]
      /\ Unwind(s, Front(stack)) /\ UNCHANGED <<enters, log>>
    BY DEF Vetoed
<1>2. s \in Sessions
    BY <1>1, TopTyped
<1>3. announcement[s] = "dispatching"
    <2>1. Top = stack[Len(stack)] /\ Len(stack) \in 1..Len(stack)
        BY <1>1, TopTyped
    <2> QED BY <1>1, <1>2, <2>1 DEF StoreInv, FlagsAgree, Holds
<1>4. announcement'[s] = "failed" /\ \A t \in Sessions : t # s => announcement'[t] = announcement[t]
    BY <1>1, <1>2 DEF TypeOK
<1>5. ASSUME NEW l \in Listener
      PROVE  /\ InOrder(seen[l], s, enters[s])
             /\ Fresh(seen[l], s, enters[s]) \/ Knows(seen[l], s, enters[s], log[s])
    <2>1. FollowedIn(seen[l], stack, "dispatching", log[s], s, enters[s], l)
        BY <1>1, <1>3, TopView
    <2>2. /\ InOrder(seen[l], s, enters[s])
          /\ Owed(stack, "created", s, enters[s], l) => Fresh(seen[l], s, enters[s])
          /\ ~Owed(stack, "created", s, enters[s], l) => Knows(seen[l], s, enters[s], log[s])
        BY <2>1 DEF FollowedIn
    <2> QED BY <2>2
<1> QED BY <1>1, <1>3, <1>4, <1>5, EndedView

(* Every listener heard of the event. *)
LEMMA PublishedView ==
    ASSUME TypeOK, StoreInv, ViewInv, Published
    PROVE  ViewInv'
<1> DEFINE s == Top.notice.session
<1>1. /\ stack # <<>> /\ Top.notice.kind = "event" /\ Top.at = Listeners
      /\ Unwind(s, Front(stack)) /\ UNCHANGED <<announcement, enters, log>>
    BY DEF Published
<1>2. s \in Sessions /\ announcement[s] = "complete"
    BY <1>1, TopTyped, TopAlone
<1>3. ASSUME NEW l \in Listener
      PROVE  InOrder(seen[l], s, enters[s]) /\ Knows(seen[l], s, enters[s], log[s])
    <2>1. FollowedIn(seen[l], stack, "complete", log[s], s, enters[s], l)
        BY <1>1, <1>2, TopView
    <2>2. ~Owed(stack, "event", s, enters[s], l)
        <3>1. ~Owed(Front(stack), "event", s, enters[s], l)
            BY <1>1, TopAlone DEF Idle, Owed
        <3> QED BY <1>1, <3>1, TopLeaves
    <2> QED BY <2>1, <2>2 DEF FollowedIn
<1> QED BY <1>1, <1>2, <1>3, EndedView

(* The last listener of a disposal returned: nothing was owed by its frame. *)
LEMMA DisposedView ==
    ASSUME TypeOK, StoreInv, ViewInv, Disposed
    PROVE  ViewInv'
<1>1. /\ stack # <<>> /\ Top.at = Listeners /\ stack' = Front(stack)
      /\ UNCHANGED <<store, announcement, enters, log, seen>>
    BY DEF Disposed, entryVars
<1>2. AllFit(stack', store', enters', log')
    BY <1>1, ViewParts, FitPop DEF TypeOK
<1>3. \A l \in Listener, t \in Sessions : \A e \in 1..enters[t] :
          FollowedIn(seen[l], stack, StageIn(store, enters, announcement, t, e), log[t], t, e, l)
    BY ViewParts
<1>4. ASSUME NEW l \in Listener, NEW t \in Sessions, NEW e \in 1..enters'[t]
      PROVE  FollowedIn(seen'[l], stack', StageIn(store', enters', announcement', t, e), log'[t], t, e, l)
    <2>1. FollowedIn(seen[l], stack, StageIn(store, enters, announcement, t, e), log[t], t, e, l)
        BY <1>1, <1>3
    <2>2. \A kind : Owed(stack', kind, t, e, l) <=> Owed(stack, kind, t, e, l)
        BY <1>1, TopLeaves
    <2>3. FollowedIn(seen[l], stack', StageIn(store, enters, announcement, t, e), log[t], t, e, l)
        BY <2>1, <2>2, AlikeSelf, Undisturbed
    <2> QED BY <1>1, <2>3
<1>5. /\ \A l \in Listener : BegunIn(seen'[l], enters')
      /\ \A t \in Sessions : store' = t => enters'[t] > 0
    BY <1>1, ViewParts
<1> QED BY <1>2, <1>4, <1>5, ViewParts

(* The next listener hears of the innermost notice: it was owed to it, and is
   no longer. *)
LEMMA NextListenerView ==
    ASSUME TypeOK, StoreInv, ViewInv, NextListener
    PROVE  ViewInv'
<1> DEFINE k == Top.at + 1
           n == Top.notice
           z == Len(stack)
           s == n.session
           e0 == n.entry
<1>1. /\ stack # <<>> /\ Top.at < Listeners /\ stack' = [stack EXCEPT ![z].at = @ + 1]
      /\ seen' = [seen EXCEPT ![k] = Append(@, n)]
      /\ UNCHANGED <<store, announcement, enters, log>>
    BY DEF NextListener, entryVars
<1>2. /\ Top \in Frame /\ Top = stack[z] /\ z \in Nat \ {0} /\ z \in 1..z /\ stack \in Seq(Frame)
      /\ n \in Notice /\ s \in Sessions
    BY <1>1, TopTyped DEF TypeOK
<1>3. Top.at \in Nat /\ k \in Nat /\ k \in Listener /\ k # 1 /\ Top.at \in Listener /\ Listener \subseteq Nat
    <2>1. Top.at \in Listener
        BY <1>2 DEF Frame
    <2> QED BY <2>1, <1>1, ListenersAssumption DEF Listener
<1>4. /\ Len(stack') = z
      /\ \A i \in 1..z : stack'[i].notice = stack[i].notice
      /\ \A i \in 1..z : i # z => stack'[i] = stack[i]
      /\ stack'[z].at = k
    BY <1>1, <1>2
<1> HIDE DEF k, z
<1>5. ASSUME NEW kind, NEW t, NEW e, NEW l \in Listener,
             ~(l = k /\ kind = n.kind /\ t = s /\ e = e0)
      PROVE  Owed(stack', kind, t, e, l) <=> Owed(stack, kind, t, e, l)
    <2>1. l # k => (Top.at < l <=> k < l)
        BY <1>3 DEF k
    <2>2. \A i \in 1..z :
              (/\ stack'[i].notice.kind = kind /\ stack'[i].notice.session = t
               /\ stack'[i].notice.entry = e /\ stack'[i].at < l)
                <=> (/\ stack[i].notice.kind = kind /\ stack[i].notice.session = t
                     /\ stack[i].notice.entry = e /\ stack[i].at < l)
        <3> TAKE i \in 1..z
        <3>1. CASE i # z
            BY <3>1, <1>4
        <3>2. CASE i = z /\ l # k
            BY <3>2, <2>1, <1>2, <1>4
        <3>3. CASE i = z /\ l = k
            <4>1. ~(stack[i].notice.kind = kind /\ stack[i].notice.session = t /\ stack[i].notice.entry = e)
                BY <3>3, <1>2, <1>5
            <4> QED BY <3>3, <4>1, <1>4
        <3> QED BY <3>1, <3>2, <3>3
    <2> QED BY <2>2, <1>4 DEF Owed, z
<1>6. AllFit(stack, store, enters, log)
    BY ViewParts
<1>7. AllFit(stack', store', enters', log')
    <2>1. \A i \in 1..z : Fits(stack[i].notice, store, enters, log)
        BY <1>6 DEF AllFit, z
    <2>2. ToldOnce(stack')
        BY <1>4, <1>6 DEF AllFit, ToldOnce, z
    <2> QED BY <2>1, <2>2, <1>1, <1>4 DEF AllFit
<1>8. Fits(n, store, enters, log)
    BY <1>2, <1>6 DEF AllFit, z
<1>9. e0 \in 1..enters[s] /\ e0 <= enters[s]
    <2>1. enters[s] \in Nat /\ e0 \in 1..enters[s]
        BY <1>2, <1>8 DEF Fits, TypeOK
    <2> QED BY <2>1
<1>10. /\ \A l \in Listener : BegunIn(seen'[l], enters')
       /\ \A l \in Listener, t \in Sessions : \A e :
             ~(l = k /\ n.session = t /\ n.entry = e) => Alike(seen[l], seen'[l], t, e)
       /\ seen'[k] = Append(seen[k], n)
    BY <1>1, <1>2, <1>3, <1>9, OneHears
<1>11. \A l \in Listener, t \in Sessions : \A e \in 1..enters[t] :
          FollowedIn(seen[l], stack, StageIn(store, enters, announcement, t, e), log[t], t, e, l)
    BY ViewParts
<1>12. Owed(stack, n.kind, s, e0, k)
    <2>1. stack[z].at < k
        BY <1>2, <1>3 DEF k
    <2> QED BY <2>1, <1>2 DEF Owed, z
<1>13. ~Owed(stack', n.kind, s, e0, k)
    <2> SUFFICES ASSUME NEW i \in 1..z,
                        stack'[i].notice.kind = n.kind, stack'[i].notice.session = s,
                        stack'[i].notice.entry = e0, stack'[i].at < k
                 PROVE FALSE
        BY <1>4 DEF Owed
    <2>1. i # z
        BY <1>3, <1>4
    <2>2. /\ stack[i].notice.kind = n.kind /\ stack[i].notice.session = s /\ stack[i].notice.entry = e0
        BY <1>4
    <2>3. CASE n.kind = "disposed"
        BY <2>1, <2>2, <2>3, <1>2, <1>6 DEF AllFit, ToldOnce, z
    <2>4. CASE n.kind # "disposed"
        BY <2>1, <2>2, <2>4, <1>2 DEF StoreInv, OneNotice, z
    <2> QED BY <2>3, <2>4
<1>14. FollowedIn(seen'[k], stack', StageIn(store, enters, announcement, s, e0), log[s], s, e0, k)
    <2>1. n.kind \in {"created", "event", "disposed"} /\ n.seq \in Int
        BY <1>2, BoundsAssumption DEF Notice
    <2>2. StageIn(store, enters, announcement, s, e0) =
              CASE n.kind = "created" -> "dispatching" [] n.kind = "event" -> "complete"
                [] n.kind = "disposed" -> "gone"
        <3>1. CASE n.kind = "disposed"
            BY <3>1, <1>8 DEF Fits, StageIn
        <3>2. CASE n.kind # "disposed"
            <4>1. store = s /\ e0 = enters[s]
                BY <3>2, <1>1, <1>8, TopAlone DEF Fits
            <4>2. n.kind = "created" => announcement[s] = "dispatching"
                BY <1>2 DEF StoreInv, FlagsAgree, Holds, z
            <4>3. n.kind = "event" => announcement[s] = "complete"
                BY <1>1, TopAlone
            <4> QED BY <3>2, <4>1, <4>2, <4>3, <2>1 DEF StageIn
        <3> QED BY <3>1, <3>2
    <2>3. FollowedIn(seen[k], stack, StageIn(store, enters, announcement, s, e0), log[s], s, e0, k)
        BY <1>2, <1>3, <1>9, <1>11
    <2>4. seen[k] \in Seq(Notice)
        BY <1>3 DEF TypeOK
    <2>5. /\ n.kind = "event" => n.seq = log[s] - 1 /\ After(n) = log[s]
          /\ n.kind = "created" => After(n) = log[s]
        <3>1. n.kind # "disposed" => After(n) = log[s]
            BY <1>8 DEF Fits
        <3>2. n.kind = "event" => After(n) = n.seq + 1
            BY DEF After
        <3> QED BY <3>1, <3>2, <2>1
    <2> HIDE DEF n, s, e0
    <2>6. /\ InOrder(seen[k], s, e0)
          /\ n.kind = "created" => Fresh(seen[k], s, e0)
          /\ n.kind = "event" => Knows(seen[k], s, e0, n.seq)
          /\ n.kind = "disposed" => ~Closed(seen[k], s, e0)
        BY <2>1, <2>2, <2>3, <2>5, <1>12 DEF FollowedIn
    <2>7. ~Closed(seen[k], s, e0)
        <3>1. /\ Fresh(seen[k], s, e0) => ~Closed(seen[k], s, e0)
              /\ Knows(seen[k], s, e0, n.seq) => ~Closed(seen[k], s, e0)
            BY NotClosed
        <3>2. CASE n.kind = "created"
            BY <3>1, <3>2, <2>6
        <3>3. CASE n.kind = "event"
            BY <3>1, <3>3, <2>6
        <3>4. CASE n.kind = "disposed"
            BY <3>4, <2>6
        <3> QED BY <2>1, <3>2, <3>3, <3>4
    <2>8. n.session = s /\ n.entry = e0 /\ n \in Notice
        BY <1>2 DEF s, e0
    <2>9. /\ InOrder(Append(seen[k], n), s, e0)
          /\ n.kind = "disposed" => Closed(Append(seen[k], n), s, e0)
          /\ n.kind # "disposed" => Knows(Append(seen[k], n), s, e0, After(n))
        BY <2>4, <2>6, <2>7, <2>8, Heard
    <2>10. seen'[k] = Append(seen[k], n)
        BY <1>10
    <2> QED BY <2>1, <2>2, <2>5, <2>9, <2>10, <1>13 DEF FollowedIn
<1>15. ASSUME NEW l \in Listener, NEW t \in Sessions, NEW e \in 1..enters'[t]
       PROVE  FollowedIn(seen'[l], stack', StageIn(store', enters', announcement', t, e), log'[t], t, e, l)
    <2>1. CASE l = k /\ t = s /\ e = e0
        BY <2>1, <1>1, <1>14
    <2>2. CASE ~(l = k /\ t = s /\ e = e0)
        <3>1. FollowedIn(seen[l], stack, StageIn(store, enters, announcement, t, e), log[t], t, e, l)
            BY <1>1, <1>11
        <3>2. Alike(seen[l], seen'[l], t, e)
            BY <2>2, <1>10
        <3>3. \A kind : Owed(stack', kind, t, e, l) <=> Owed(stack, kind, t, e, l)
            BY <2>2, <1>5
        <3>4. FollowedIn(seen'[l], stack', StageIn(store, enters, announcement, t, e), log[t], t, e, l)
            BY <3>1, <3>2, <3>3, Undisturbed
        <3> QED BY <1>1, <3>4
    <2> QED BY <2>1, <2>2
<1>16. \A t \in Sessions : store' = t => enters'[t] > 0
    BY <1>1, ViewParts
<1> QED BY <1>7, <1>10, <1>15, <1>16, ViewParts

(* Nobody was told anything. *)
LEMMA InitView == Init => ViewInv
<1> SUFFICES ASSUME Init PROVE ViewInv
    OBVIOUS
<1>1. FramesFit
    BY DEF Init, FramesFit
<1>2. Begun
    BY NoneAssumption DEF Init, Begun
<1>3. \A s \in Sessions : enters[s] = 0
    BY DEF Init
<1>4. \A l \in Listener, s \in Sessions : \A e \in 1..enters[s] : Followed(l, s, e)
    BY <1>3
<1> QED BY <1>1, <1>2, <1>4 DEF ViewInv

(* Every step keeps what the listeners were told in step. *)
LEMMA NextView == TypeOK /\ StoreInv /\ ViewInv /\ [Next]_vars => ViewInv'
<1> SUFFICES ASSUME TypeOK, StoreInv, ViewInv, [Next]_vars PROVE ViewInv'
    OBVIOUS
<1>1. CASE \E s \in Sessions : Prepare(s) \/ Enter(s) \/ Announce(s) \/ AppendEvent(s) \/ Detach(s)
    <2>1. PICK s \in Sessions : Prepare(s) \/ Enter(s) \/ Announce(s) \/ AppendEvent(s) \/ Detach(s)
        BY <1>1
    <2>2. CASE Prepare(s)
        BY <2>2, ViewStill DEF Prepare, entryVars
    <2> QED BY <2>1, <2>2, EnterView, AnnounceView, AppendEventView, DetachView
<1>2. CASE Unwinding
    BY <1>2, NextListenerView, CreatedView, VetoedView, PublishedView, DisposedView DEF Unwinding
<1>3. CASE UNCHANGED vars
    BY <1>3, ViewStill DEF vars, entryVars
<1> QED BY <1>1, <1>2, <1>3 DEF Next

(* What each listener was told of each entry is what happened to it so far,
   but for the notices on the call stack that have yet to reach it. *)
THEOREM ViewInvariant == Spec => []ViewInv
<1>1. TypeOK /\ StoreInv /\ ViewInv /\ [Next]_vars => (TypeOK /\ StoreInv /\ ViewInv)'
    BY NextKeeps, NextView
<1> QED BY <1>1, InitEstablishes, InitView, PTL DEF Spec

(* Every listener hears of the creation of a session, of each of its events
   once and in log order, and of its end last, however listeners append,
   detach, enter the session again and throw from inside a notification
   (commit, announce and emitDisposed of SessionStore). *)
THEOREM ObserversInStep == Spec => []ObserversAgree
<1>1. TypeOK /\ ViewInv => ObserversAgree
    <2> SUFFICES ASSUME TypeOK, ViewInv, NEW l \in Listener, NEW s \in Sessions, NEW e \in 1..enters[s]
                 PROVE  /\ InOrder(seen[l], s, e)
                        /\ (stack = <<>> /\ store = s /\ e = enters[s] /\ announcement[s] = "complete")
                             => Knows(seen[l], s, e, log[s])
                        /\ (stack = <<>> /\ (store # s \/ e # enters[s]))
                             => Fresh(seen[l], s, e) \/ Closed(seen[l], s, e)
        BY DEF ObserversAgree
    <2>1. FollowedIn(seen[l], stack, StageIn(store, enters, announcement, s, e), log[s], s, e, l)
        BY ViewParts
    <2>2. stack = <<>> => \A kind : ~Owed(stack, kind, s, e, l)
        BY DEF Owed
    <2>3. (store # s \/ e # enters[s]) => StageIn(store, enters, announcement, s, e) = "gone"
        BY DEF StageIn
    <2>4. (store = s /\ e = enters[s])
              => StageIn(store, enters, announcement, s, e) = announcement[s]
        BY DEF StageIn
    <2> QED BY <2>1, <2>2, <2>3, <2>4 DEF FollowedIn
<1> QED BY <1>1, StoreInvariant, ViewInvariant, PTL
=============================================================================
