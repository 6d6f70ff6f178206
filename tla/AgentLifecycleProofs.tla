----------------------- MODULE AgentLifecycleProofs -----------------------
(***************************************************************************)
(* Theorems about AgentLifecycle, for any set of lifecycles and any bound  *)
(* on the log.  TypeOK /\ LifeInv is inductive: Placed ties the place      *)
(* where a lifecycle waits to the persistence call, handle and teardown it *)
(* holds, Named ties the shared writer, store and registry entries to      *)
(* that, Ending says who may be left once the factory's disposal began.    *)
(* Each action gets a lemma; the first lemmas say what an action may do to *)
(* one lifecycle's entry, so that the actions' lemmas need not look into   *)
(* the updates.  LogInv, relative to that invariant, is what makes LogKept *)
(* inductive: what a session on its way into the store still has to store  *)
(* continues the stored log, and a closed handle's share of it stays.      *)
(***************************************************************************)
EXTENDS AgentLifecycle, SequenceTheorems, TLAPS

(* The values of op, handle and teardown. *)
Calls == {"none", "create", "open", "claimed"}
Handles == {"none", "open", "closing", "closed"}
Teardowns == {"none", "publication", "quiescing", "closing", "done"}

-----------------------------------------------------------------------------
(* One lifecycle's entries. *)

(* A lifecycle that sets its own place, call, handle or log keeps their types. *)
LEMMA OwnTyped ==
    ASSUME Typed, NEW t \in Lifecycles
    PROVE  /\ (\E place \in Place : Go(t, place)) \/ UNCHANGED pc
                  => pc' \in [Lifecycles -> Place]
           /\ (\E call \in Calls : op' = [op EXCEPT ![t] = call]) \/ UNCHANGED op
                  => op' \in [Lifecycles -> Calls]
           /\ (\E h \in Handles : handle' = [handle EXCEPT ![t] = h]) \/ UNCHANGED handle
                  => handle' \in [Lifecycles -> Handles]
           /\ (\E l \in Seq(Lifecycles) : log' = [log EXCEPT ![t] = l]) \/ UNCHANGED log
                  => log' \in [Lifecycles -> Seq(Lifecycles)]
BY DEF Typed, Go, Calls, Handles

(* The memoised teardown: whoever begins it aborts the lifecycle, and only the
   first call moves it. *)
LEMMA TeardownTyped ==
    ASSUME Typed, NEW ts, BeginTeardown(ts)
    PROVE  /\ aborted' \in [Lifecycles -> BOOLEAN]
           /\ teardown' \in [Lifecycles -> Teardowns]
           /\ \A u \in Lifecycles : u \notin ts =>
                 aborted'[u] = aborted[u] /\ teardown'[u] = teardown[u]
           /\ \A u \in Lifecycles : u \in ts =>
                 /\ aborted'[u]
                 /\ teardown'[u] = IF teardown[u] = "none" THEN "publication" ELSE teardown[u]
BY DEF Typed, BeginTeardown, Teardowns

(* An event extends its session's log, and the stored log by it or not at all. *)
LEMMA RecordTyped ==
    ASSUME Typed, NEW t \in Lifecycles, Record(t)
    PROVE  disk' \in Seq(Lifecycles) /\ log' \in [Lifecycles -> Seq(Lifecycles)]
<1>1. Append(disk, t) \in Seq(Lifecycles) /\ Append(log[t], t) \in Seq(Lifecycles)
    BY DEF Typed
<1>2. disk' \in {disk, Append(disk, t)}
    BY DEF Record, Routed
<1>3. log' \in [Lifecycles -> Seq(Lifecycles)]
    BY <1>1 DEF Record, Typed
<1> QED BY <1>1, <1>2, <1>3 DEF Typed

(* A lifecycle's own step cannot bring anybody back behind a disposal. *)
LEMMA EndingKept ==
    ASSUME Typed, LifeInv, NEW t \in Lifecycles, UNCHANGED factoryVars,
           pc' \in [Lifecycles -> Place],
           \A u \in Lifecycles : u # t => pc'[u] = pc[u] /\ teardown'[u] = teardown[u],
           pc[t] = "start" => factory = "active" \/ pc'[t] = "start",
           Over(t) => pc'[t] = pc[t] /\ teardown'[t] = teardown[t]
    PROVE  \A u \in Lifecycles : Ending(u)'
BY DEF LifeInv, Ending, Over, factoryVars

-----------------------------------------------------------------------------
(* Acquiring the session. *)

(* A lifecycle starts only while the factory is active. *)
LEMMA StartStep ==
    ASSUME TypeOK, LifeInv, NEW t \in Lifecycles, Start(t)
    PROVE  TypeOK' /\ LifeInv'
<1>1. Typed'
    <2>1. (\E place \in Place : Go(t, place)) \/ UNCHANGED pc
        BY DEF worldVars, factoryVars, Place, Start, BeginCreate
    <2>2. (\E call \in Calls : op' = [op EXCEPT ![t] = call]) \/ UNCHANGED op
        BY DEF worldVars, factoryVars, Calls, Start, BeginCreate
    <2>3. (\E h \in Handles : handle' = [handle EXCEPT ![t] = h]) \/ UNCHANGED handle
        BY DEF worldVars, factoryVars, Handles, Start, BeginCreate
    <2>4. (\E l \in Seq(Lifecycles) : log' = [log EXCEPT ![t] = l]) \/ UNCHANGED log
        <3>1. <<>> \in Seq(Lifecycles) /\ <<t>> \in Seq(Lifecycles)
            OBVIOUS
        <3> QED BY <3>1 DEF Start, BeginCreate
    <2>5. /\ disk' \in Seq(Lifecycles) /\ writer' \in Lifecycles \cup {None}
          /\ UNCHANGED <<mounted, store, agents, factory, awaited, kind, aborted, called, unloaded,
                        writable, busy, teardown, closedAt>>
        BY DEF TypeOK, Typed, worldVars, factoryVars, Start, BeginCreate
    <2>6. pc' \in [Lifecycles -> Place] /\ op' \in [Lifecycles -> Calls]
          /\ handle' \in [Lifecycles -> Handles] /\ log' \in [Lifecycles -> Seq(Lifecycles)]
        BY <2>1, <2>2, <2>3, <2>4, OwnTyped DEF TypeOK
    <2> QED BY <2>5, <2>6 DEF TypeOK, Typed, Calls, Handles
<1>2. \A u \in Lifecycles : Placed(u)'
    <2>1. /\ UNCHANGED <<mounted, handle, teardown>>
          /\ \A u \in Lifecycles : u # t => pc'[u] = pc[u] /\ op'[u] = op[u]
        BY DEF TypeOK, Typed, worldVars, Start, BeginCreate, Go
    <2>2. op[t] = "none" /\ handle[t] = "none" /\ teardown[t] = "none"
        BY DEF LifeInv, Placed, Start
    <2>3. \/ op'[t] = "none" /\ pc'[t] = "settled"
          \/ op'[t] = "none" /\ pc'[t] = "creating" /\ ~mounted
          \/ op'[t] = "none" /\ pc'[t] = "draining" /\ mounted
          \/ op'[t] = "create" /\ pc'[t] = "creating" /\ mounted
          \/ op'[t] = "open" /\ pc'[t] = "opening" /\ mounted
        BY <2>2 DEF TypeOK, Typed, Start, BeginCreate, Go
    <2>4. Placed(t)'
        BY <2>1, <2>2, <2>3 DEF Placed, Tracked, Publishing
    <2>5. \A u \in Lifecycles \ {t} : Placed(u)'
        BY <2>1 DEF LifeInv, Placed, Tracked, Publishing
    <2> QED BY <2>4, <2>5
<1>3. \A u \in Lifecycles : Named(u)'
    <2>1. /\ UNCHANGED <<writer, store, agents, handle, teardown, busy>>
          /\ \A u \in Lifecycles : u # t => pc'[u] = pc[u] /\ op'[u] = op[u]
        BY DEF TypeOK, Typed, worldVars, factoryVars, Start, BeginCreate, Go
    <2>2. pc[t] = "start" /\ op[t] = "none" /\ op'[t] # "claimed"
        BY DEF TypeOK, Typed, LifeInv, Placed, Start, BeginCreate
    <2>3. pc'[t] \in {"creating", "opening", "draining", "settled"}
        BY DEF TypeOK, Typed, Start, BeginCreate, Go
    <2> QED BY <2>1, <2>2, <2>3 DEF LifeInv, Named
<1>4. \A u \in Lifecycles : Ending(u)'
    <2>1. UNCHANGED factoryVars /\ pc' \in [Lifecycles -> Place]
        BY <1>1 DEF Typed, factoryVars, Start, BeginCreate, Go
    <2>2. /\ \A u \in Lifecycles : u # t => pc'[u] = pc[u] /\ teardown'[u] = teardown[u]
          /\ pc[t] = "start" => factory = "active" \/ pc'[t] = "start"
          /\ Over(t) => pc'[t] = pc[t] /\ teardown'[t] = teardown[t]
        BY DEF TypeOK, Typed, LifeInv, Placed, Over, Tracked, Publishing, worldVars,
           factoryVars, Start, BeginCreate, Go
    <2> QED BY <2>1, <2>2, EndingKept DEF TypeOK
<1>5. \A u \in Lifecycles : teardown'[u] # "none" => aborted'[u]
    BY DEF TypeOK, Typed, Start, BeginCreate, Go
<1>6. \A u \in Lifecycles : teardown'[u] # "none" => (Tracked(u) \/ pc[u] = "settled")'
    BY <1>1, <1>2 DEF Typed, Placed, Tracked, Publishing, Place
<1> QED BY <1>1, <1>2, <1>3, <1>4, <1>5, <1>6 DEF TypeOK, LifeInv

(* A configured agent stops waiting for its predecessor. *)
LEMMA DrainedStep ==
    ASSUME TypeOK, LifeInv, NEW t \in Lifecycles, Drained(t)
    PROVE  TypeOK' /\ LifeInv'
<1>1. Typed'
    <2>1. (\E place \in Place : Go(t, place)) \/ UNCHANGED pc
        BY DEF worldVars, factoryVars, Place, Drained
    <2>2. (\E call \in Calls : op' = [op EXCEPT ![t] = call]) \/ UNCHANGED op
        BY DEF worldVars, factoryVars, Calls, Drained
    <2>3. (\E h \in Handles : handle' = [handle EXCEPT ![t] = h]) \/ UNCHANGED handle
        BY DEF worldVars, factoryVars, Handles, Drained
    <2>4. (\E l \in Seq(Lifecycles) : log' = [log EXCEPT ![t] = l]) \/ UNCHANGED log
        BY DEF TypeOK, Typed, worldVars, factoryVars, Drained
    <2>5. /\ disk' \in Seq(Lifecycles) /\ writer' \in Lifecycles \cup {None}
          /\ UNCHANGED <<mounted, store, agents, factory, awaited, kind, aborted, called, unloaded,
                        writable, busy, teardown, closedAt>>
        BY DEF TypeOK, Typed, worldVars, factoryVars, Drained
    <2>6. pc' \in [Lifecycles -> Place] /\ op' \in [Lifecycles -> Calls]
          /\ handle' \in [Lifecycles -> Handles] /\ log' \in [Lifecycles -> Seq(Lifecycles)]
        BY <2>1, <2>2, <2>3, <2>4, OwnTyped DEF TypeOK
    <2> QED BY <2>5, <2>6 DEF TypeOK, Typed, Calls, Handles
<1>2. \A u \in Lifecycles : Placed(u)'
    BY DEF TypeOK, Typed, LifeInv, Placed, Tracked, Publishing, worldVars, factoryVars,
       Drained, Go
<1>3. \A u \in Lifecycles : Named(u)'
    BY NoneAssumption DEF TypeOK, Typed, LifeInv, Placed, Named, Tracked, Publishing,
       worldVars, factoryVars, Drained, Go
<1>4. \A u \in Lifecycles : Ending(u)'
    <2>1. UNCHANGED factoryVars /\ pc' \in [Lifecycles -> Place]
        BY <1>1 DEF Typed, factoryVars, Drained, Go
    <2>2. /\ \A u \in Lifecycles : u # t => pc'[u] = pc[u] /\ teardown'[u] = teardown[u]
          /\ pc[t] = "start" => factory = "active" \/ pc'[t] = "start"
          /\ Over(t) => pc'[t] = pc[t] /\ teardown'[t] = teardown[t]
        BY DEF TypeOK, Typed, LifeInv, Placed, Over, Tracked, Publishing, worldVars,
           factoryVars, Drained, Go
    <2> QED BY <2>1, <2>2, EndingKept DEF TypeOK
<1>5. \A u \in Lifecycles : teardown'[u] # "none" => aborted'[u]
    BY DEF TypeOK, Typed, Drained, Go
<1>6. \A u \in Lifecycles : teardown'[u] # "none" => (Tracked(u) \/ pc[u] = "settled")'
    BY <1>1, <1>2 DEF Typed, Placed, Tracked, Publishing, Place
<1> QED BY <1>1, <1>2, <1>3, <1>4, <1>5, <1>6 DEF TypeOK, LifeInv

(* persistence.create claims the id; an abandoned one closes its handle. *)
LEMMA CreateClaimsStep ==
    ASSUME TypeOK, LifeInv, NEW t \in Lifecycles, CreateClaims(t)
    PROVE  TypeOK' /\ LifeInv'
<1>1. Typed'
    <2>1. (\E place \in Place : Go(t, place)) \/ UNCHANGED pc
        BY DEF worldVars, factoryVars, Place, CreateClaims, Initialize
    <2>2. (\E call \in Calls : op' = [op EXCEPT ![t] = call]) \/ UNCHANGED op
        BY DEF worldVars, factoryVars, Calls, CreateClaims, Initialize
    <2>3. (\E h \in Handles : handle' = [handle EXCEPT ![t] = h]) \/ UNCHANGED handle
        BY DEF worldVars, factoryVars, Handles, CreateClaims, Initialize
    <2>4. (\E l \in Seq(Lifecycles) : log' = [log EXCEPT ![t] = l]) \/ UNCHANGED log
        BY DEF TypeOK, Typed, worldVars, factoryVars, CreateClaims, Initialize
    <2>5. /\ disk' \in Seq(Lifecycles) /\ writer' \in Lifecycles \cup {None}
          /\ UNCHANGED <<mounted, store, agents, factory, awaited, kind, aborted, called, unloaded,
                        writable, busy, teardown, closedAt>>
        BY DEF TypeOK, Typed, worldVars, factoryVars, CreateClaims, Initialize
    <2>6. pc' \in [Lifecycles -> Place] /\ op' \in [Lifecycles -> Calls]
          /\ handle' \in [Lifecycles -> Handles] /\ log' \in [Lifecycles -> Seq(Lifecycles)]
        BY <2>1, <2>2, <2>3, <2>4, OwnTyped DEF TypeOK
    <2> QED BY <2>5, <2>6 DEF TypeOK, Typed, Calls, Handles
<1>2. \A u \in Lifecycles : Placed(u)'
    BY DEF TypeOK, Typed, LifeInv, Placed, Tracked, Publishing, worldVars, factoryVars,
       CreateClaims, Initialize, Go
<1>3. \A u \in Lifecycles : Named(u)'
    BY NoneAssumption DEF TypeOK, Typed, LifeInv, Placed, Named, Tracked, Publishing,
       worldVars, factoryVars, CreateClaims, Initialize, Go
<1>4. \A u \in Lifecycles : Ending(u)'
    <2>1. UNCHANGED factoryVars /\ pc' \in [Lifecycles -> Place]
        BY <1>1 DEF Typed, factoryVars, CreateClaims, Initialize, Go
    <2>2. /\ \A u \in Lifecycles : u # t => pc'[u] = pc[u] /\ teardown'[u] = teardown[u]
          /\ pc[t] = "start" => factory = "active" \/ pc'[t] = "start"
          /\ Over(t) => pc'[t] = pc[t] /\ teardown'[t] = teardown[t]
        BY DEF TypeOK, Typed, LifeInv, Placed, Over, Tracked, Publishing, worldVars,
           factoryVars, CreateClaims, Initialize, Go
    <2> QED BY <2>1, <2>2, EndingKept DEF TypeOK
<1>5. \A u \in Lifecycles : teardown'[u] # "none" => aborted'[u]
    BY DEF TypeOK, Typed, CreateClaims, Initialize, Go
<1>6. \A u \in Lifecycles : teardown'[u] # "none" => (Tracked(u) \/ pc[u] = "settled")'
    BY <1>1, <1>2 DEF Typed, Placed, Tracked, Publishing, Place
<1> QED BY <1>1, <1>2, <1>3, <1>4, <1>5, <1>6 DEF TypeOK, LifeInv

(* persistence.create refuses and nothing is held. *)
LEMMA CreateRefusedStep ==
    ASSUME TypeOK, LifeInv, NEW t \in Lifecycles, CreateRefused(t)
    PROVE  TypeOK' /\ LifeInv'
<1>1. Typed'
    <2>1. (\E place \in Place : Go(t, place)) \/ UNCHANGED pc
        BY DEF worldVars, factoryVars, Place, CreateRefused
    <2>2. (\E call \in Calls : op' = [op EXCEPT ![t] = call]) \/ UNCHANGED op
        BY DEF worldVars, factoryVars, Calls, CreateRefused
    <2>3. (\E h \in Handles : handle' = [handle EXCEPT ![t] = h]) \/ UNCHANGED handle
        BY DEF worldVars, factoryVars, Handles, CreateRefused
    <2>4. (\E l \in Seq(Lifecycles) : log' = [log EXCEPT ![t] = l]) \/ UNCHANGED log
        BY DEF TypeOK, Typed, worldVars, factoryVars, CreateRefused
    <2>5. /\ disk' \in Seq(Lifecycles) /\ writer' \in Lifecycles \cup {None}
          /\ UNCHANGED <<mounted, store, agents, factory, awaited, kind, aborted, called, unloaded,
                        writable, busy, teardown, closedAt>>
        BY DEF TypeOK, Typed, worldVars, factoryVars, CreateRefused
    <2>6. pc' \in [Lifecycles -> Place] /\ op' \in [Lifecycles -> Calls]
          /\ handle' \in [Lifecycles -> Handles] /\ log' \in [Lifecycles -> Seq(Lifecycles)]
        BY <2>1, <2>2, <2>3, <2>4, OwnTyped DEF TypeOK
    <2> QED BY <2>5, <2>6 DEF TypeOK, Typed, Calls, Handles
<1>2. \A u \in Lifecycles : Placed(u)'
    BY DEF TypeOK, Typed, LifeInv, Placed, Tracked, Publishing, worldVars, factoryVars,
       CreateRefused, Go
<1>3. \A u \in Lifecycles : Named(u)'
    BY NoneAssumption DEF TypeOK, Typed, LifeInv, Placed, Named, Tracked, Publishing,
       worldVars, factoryVars, CreateRefused, Go
<1>4. \A u \in Lifecycles : Ending(u)'
    <2>1. UNCHANGED factoryVars /\ pc' \in [Lifecycles -> Place]
        BY <1>1 DEF Typed, factoryVars, CreateRefused, Go
    <2>2. /\ \A u \in Lifecycles : u # t => pc'[u] = pc[u] /\ teardown'[u] = teardown[u]
          /\ pc[t] = "start" => factory = "active" \/ pc'[t] = "start"
          /\ Over(t) => pc'[t] = pc[t] /\ teardown'[t] = teardown[t]
        <3>1. UNCHANGED teardown /\ (UNCHANGED pc \/ (pc[t] = "creating" /\ Go(t, "settled")))
            BY DEF CreateRefused
        <3> QED BY <3>1 DEF TypeOK, Typed, Over, Go
    <2> QED BY <2>1, <2>2, EndingKept DEF TypeOK
<1>5. \A u \in Lifecycles : teardown'[u] # "none" => aborted'[u]
    BY DEF TypeOK, Typed, CreateRefused, Go
<1>6. \A u \in Lifecycles : teardown'[u] # "none" => (Tracked(u) \/ pc[u] = "settled")'
    BY <1>1, <1>2 DEF Typed, Placed, Tracked, Publishing, Place
<1> QED BY <1>1, <1>2, <1>3, <1>4, <1>5, <1>6 DEF TypeOK, LifeInv

(* Without persistence a machine owns no handle. *)
LEMMA CreateUnstoredStep ==
    ASSUME TypeOK, LifeInv, NEW t \in Lifecycles, CreateUnstored(t)
    PROVE  TypeOK' /\ LifeInv'
<1>1. Typed'
    <2>1. (\E place \in Place : Go(t, place)) \/ UNCHANGED pc
        BY DEF worldVars, factoryVars, Place, CreateUnstored, Initialize
    <2>2. (\E call \in Calls : op' = [op EXCEPT ![t] = call]) \/ UNCHANGED op
        BY DEF worldVars, factoryVars, Calls, CreateUnstored, Initialize
    <2>3. (\E h \in Handles : handle' = [handle EXCEPT ![t] = h]) \/ UNCHANGED handle
        BY DEF worldVars, factoryVars, Handles, CreateUnstored, Initialize
    <2>4. (\E l \in Seq(Lifecycles) : log' = [log EXCEPT ![t] = l]) \/ UNCHANGED log
        BY DEF TypeOK, Typed, worldVars, factoryVars, CreateUnstored, Initialize
    <2>5. /\ disk' \in Seq(Lifecycles) /\ writer' \in Lifecycles \cup {None}
          /\ UNCHANGED <<mounted, store, agents, factory, awaited, kind, aborted, called, unloaded,
                        writable, busy, teardown, closedAt>>
        BY DEF TypeOK, Typed, worldVars, factoryVars, CreateUnstored, Initialize
    <2>6. pc' \in [Lifecycles -> Place] /\ op' \in [Lifecycles -> Calls]
          /\ handle' \in [Lifecycles -> Handles] /\ log' \in [Lifecycles -> Seq(Lifecycles)]
        BY <2>1, <2>2, <2>3, <2>4, OwnTyped DEF TypeOK
    <2> QED BY <2>5, <2>6 DEF TypeOK, Typed, Calls, Handles
<1>2. \A u \in Lifecycles : Placed(u)'
    BY DEF TypeOK, Typed, LifeInv, Placed, Tracked, Publishing, worldVars, factoryVars,
       CreateUnstored, Initialize, Go
<1>3. \A u \in Lifecycles : Named(u)'
    BY NoneAssumption DEF TypeOK, Typed, LifeInv, Placed, Named, Tracked, Publishing,
       worldVars, factoryVars, CreateUnstored, Initialize, Go
<1>4. \A u \in Lifecycles : Ending(u)'
    <2>1. UNCHANGED factoryVars /\ pc' \in [Lifecycles -> Place]
        BY <1>1 DEF Typed, factoryVars, CreateUnstored, Initialize, Go
    <2>2. /\ \A u \in Lifecycles : u # t => pc'[u] = pc[u] /\ teardown'[u] = teardown[u]
          /\ pc[t] = "start" => factory = "active" \/ pc'[t] = "start"
          /\ Over(t) => pc'[t] = pc[t] /\ teardown'[t] = teardown[t]
        BY DEF TypeOK, Typed, LifeInv, Placed, Over, Tracked, Publishing, worldVars,
           factoryVars, CreateUnstored, Initialize, Go
    <2> QED BY <2>1, <2>2, EndingKept DEF TypeOK
<1>5. \A u \in Lifecycles : teardown'[u] # "none" => aborted'[u]
    BY DEF TypeOK, Typed, CreateUnstored, Initialize, Go
<1>6. \A u \in Lifecycles : teardown'[u] # "none" => (Tracked(u) \/ pc[u] = "settled")'
    BY <1>1, <1>2 DEF Typed, Placed, Tracked, Publishing, Place
<1> QED BY <1>1, <1>2, <1>3, <1>4, <1>5, <1>6 DEF TypeOK, LifeInv

(* The caller leaves, the call of create stays out. *)
LEMMA AbandonCreateStep ==
    ASSUME TypeOK, LifeInv, NEW t \in Lifecycles, AbandonCreate(t)
    PROVE  TypeOK' /\ LifeInv'
<1>1. Typed'
    <2>1. (\E place \in Place : Go(t, place)) \/ UNCHANGED pc
        BY DEF worldVars, factoryVars, Place, AbandonCreate
    <2>2. (\E call \in Calls : op' = [op EXCEPT ![t] = call]) \/ UNCHANGED op
        BY DEF worldVars, factoryVars, Calls, AbandonCreate
    <2>3. (\E h \in Handles : handle' = [handle EXCEPT ![t] = h]) \/ UNCHANGED handle
        BY DEF worldVars, factoryVars, Handles, AbandonCreate
    <2>4. (\E l \in Seq(Lifecycles) : log' = [log EXCEPT ![t] = l]) \/ UNCHANGED log
        BY DEF TypeOK, Typed, worldVars, factoryVars, AbandonCreate
    <2>5. /\ disk' \in Seq(Lifecycles) /\ writer' \in Lifecycles \cup {None}
          /\ UNCHANGED <<mounted, store, agents, factory, awaited, kind, aborted, called, unloaded,
                        writable, busy, teardown, closedAt>>
        BY DEF TypeOK, Typed, worldVars, factoryVars, AbandonCreate
    <2>6. pc' \in [Lifecycles -> Place] /\ op' \in [Lifecycles -> Calls]
          /\ handle' \in [Lifecycles -> Handles] /\ log' \in [Lifecycles -> Seq(Lifecycles)]
        BY <2>1, <2>2, <2>3, <2>4, OwnTyped DEF TypeOK
    <2> QED BY <2>5, <2>6 DEF TypeOK, Typed, Calls, Handles
<1>2. \A u \in Lifecycles : Placed(u)'
    BY DEF TypeOK, Typed, LifeInv, Placed, Tracked, Publishing, worldVars, factoryVars,
       AbandonCreate, Go
<1>3. \A u \in Lifecycles : Named(u)'
    BY NoneAssumption DEF TypeOK, Typed, LifeInv, Placed, Named, Tracked, Publishing,
       worldVars, factoryVars, AbandonCreate, Go
<1>4. \A u \in Lifecycles : Ending(u)'
    <2>1. UNCHANGED factoryVars /\ pc' \in [Lifecycles -> Place]
        BY <1>1 DEF Typed, factoryVars, AbandonCreate, Go
    <2>2. /\ \A u \in Lifecycles : u # t => pc'[u] = pc[u] /\ teardown'[u] = teardown[u]
          /\ pc[t] = "start" => factory = "active" \/ pc'[t] = "start"
          /\ Over(t) => pc'[t] = pc[t] /\ teardown'[t] = teardown[t]
        BY DEF TypeOK, Typed, LifeInv, Placed, Over, Tracked, Publishing, worldVars,
           factoryVars, AbandonCreate, Go
    <2> QED BY <2>1, <2>2, EndingKept DEF TypeOK
<1>5. \A u \in Lifecycles : teardown'[u] # "none" => aborted'[u]
    BY DEF TypeOK, Typed, AbandonCreate, Go
<1>6. \A u \in Lifecycles : teardown'[u] # "none" => (Tracked(u) \/ pc[u] = "settled")'
    BY <1>1, <1>2 DEF Typed, Placed, Tracked, Publishing, Place
<1> QED BY <1>1, <1>2, <1>3, <1>4, <1>5, <1>6 DEF TypeOK, LifeInv

(* An open that claims the id is named as its writer. *)
LEMMA OpenClaimsStep ==
    ASSUME TypeOK, LifeInv, NEW t \in Lifecycles, OpenClaims(t)
    PROVE  TypeOK' /\ LifeInv'
<1>1. Typed'
    <2>1. (\E place \in Place : Go(t, place)) \/ UNCHANGED pc
        BY DEF worldVars, factoryVars, Place, OpenClaims
    <2>2. (\E call \in Calls : op' = [op EXCEPT ![t] = call]) \/ UNCHANGED op
        BY DEF worldVars, factoryVars, Calls, OpenClaims
    <2>3. (\E h \in Handles : handle' = [handle EXCEPT ![t] = h]) \/ UNCHANGED handle
        BY DEF worldVars, factoryVars, Handles, OpenClaims
    <2>4. (\E l \in Seq(Lifecycles) : log' = [log EXCEPT ![t] = l]) \/ UNCHANGED log
        BY DEF TypeOK, Typed, worldVars, factoryVars, OpenClaims
    <2>5. /\ disk' \in Seq(Lifecycles) /\ writer' \in Lifecycles \cup {None}
          /\ UNCHANGED <<mounted, store, agents, factory, awaited, kind, aborted, called, unloaded,
                        writable, busy, teardown, closedAt>>
        BY DEF TypeOK, Typed, worldVars, factoryVars, OpenClaims
    <2>6. pc' \in [Lifecycles -> Place] /\ op' \in [Lifecycles -> Calls]
          /\ handle' \in [Lifecycles -> Handles] /\ log' \in [Lifecycles -> Seq(Lifecycles)]
        BY <2>1, <2>2, <2>3, <2>4, OwnTyped DEF TypeOK
    <2> QED BY <2>5, <2>6 DEF TypeOK, Typed, Calls, Handles
<1>2. \A u \in Lifecycles : Placed(u)'
    BY DEF TypeOK, Typed, LifeInv, Placed, Tracked, Publishing, worldVars, factoryVars,
       OpenClaims
<1>3. \A u \in Lifecycles : Named(u)'
    BY NoneAssumption DEF TypeOK, Typed, LifeInv, Placed, Named, Tracked, Publishing,
       worldVars, factoryVars, OpenClaims
<1>4. \A u \in Lifecycles : Ending(u)'
    <2>1. UNCHANGED factoryVars /\ pc' \in [Lifecycles -> Place]
        BY <1>1 DEF Typed, factoryVars, OpenClaims
    <2>2. /\ \A u \in Lifecycles : u # t => pc'[u] = pc[u] /\ teardown'[u] = teardown[u]
          /\ pc[t] = "start" => factory = "active" \/ pc'[t] = "start"
          /\ Over(t) => pc'[t] = pc[t] /\ teardown'[t] = teardown[t]
        BY DEF TypeOK, Typed, LifeInv, Placed, Over, Tracked, Publishing, worldVars,
           factoryVars, OpenClaims
    <2> QED BY <2>1, <2>2, EndingKept DEF TypeOK
<1>5. \A u \in Lifecycles : teardown'[u] # "none" => aborted'[u]
    BY DEF TypeOK, Typed, OpenClaims
<1>6. \A u \in Lifecycles : teardown'[u] # "none" => (Tracked(u) \/ pc[u] = "settled")'
    BY <1>1, <1>2 DEF Typed, Placed, Tracked, Publishing, Place
<1> QED BY <1>1, <1>2, <1>3, <1>4, <1>5, <1>6 DEF TypeOK, LifeInv

(* A claim turns into a handle, open or closing at once. *)
LEMMA OpenAdoptsStep ==
    ASSUME TypeOK, LifeInv, NEW t \in Lifecycles, OpenAdopts(t)
    PROVE  TypeOK' /\ LifeInv'
<1>1. Typed'
    <2>1. (\E place \in Place : Go(t, place)) \/ UNCHANGED pc
        BY DEF worldVars, factoryVars, Place, OpenAdopts
    <2>2. (\E call \in Calls : op' = [op EXCEPT ![t] = call]) \/ UNCHANGED op
        BY DEF worldVars, factoryVars, Calls, OpenAdopts
    <2>3. (\E h \in Handles : handle' = [handle EXCEPT ![t] = h]) \/ UNCHANGED handle
        BY DEF worldVars, factoryVars, Handles, OpenAdopts
    <2>4. (\E l \in Seq(Lifecycles) : log' = [log EXCEPT ![t] = l]) \/ UNCHANGED log
        BY DEF TypeOK, Typed, worldVars, factoryVars, OpenAdopts
    <2>5. /\ disk' \in Seq(Lifecycles) /\ writer' \in Lifecycles \cup {None}
          /\ UNCHANGED <<mounted, store, agents, factory, awaited, kind, aborted, called, unloaded,
                        writable, busy, teardown, closedAt>>
        BY DEF TypeOK, Typed, worldVars, factoryVars, OpenAdopts
    <2>6. pc' \in [Lifecycles -> Place] /\ op' \in [Lifecycles -> Calls]
          /\ handle' \in [Lifecycles -> Handles] /\ log' \in [Lifecycles -> Seq(Lifecycles)]
        BY <2>1, <2>2, <2>3, <2>4, OwnTyped DEF TypeOK
    <2> QED BY <2>5, <2>6 DEF TypeOK, Typed, Calls, Handles
<1>2. \A u \in Lifecycles : Placed(u)'
    <2>1. Placed(t) /\ mounted /\ teardown[t] = "none" /\ pc[t] \in {"opening", "settled"}
        BY DEF LifeInv, OpenAdopts, Placed
    <2>2. /\ op' = [op EXCEPT ![t] = "none"] /\ UNCHANGED <<mounted, teardown>>
          /\ \/ Go(t, "reading") /\ handle' = [handle EXCEPT ![t] = "open"]
             \/ UNCHANGED pc /\ pc[t] = "settled" /\ handle' = [handle EXCEPT ![t] = "closing"]
        BY <2>1 DEF OpenAdopts, worldVars, factoryVars
    <2>3. Placed(t)'
        BY <2>1, <2>2 DEF TypeOK, Typed, Placed, Tracked, Publishing, Go
    <2>4. \A u \in Lifecycles \ {t} : Placed(u)'
        BY <2>2 DEF TypeOK, Typed, LifeInv, Placed, Tracked, Publishing, Go
    <2> QED BY <2>3, <2>4
<1>3. \A u \in Lifecycles : Named(u)'
    BY NoneAssumption DEF TypeOK, Typed, LifeInv, Placed, Named, Tracked, Publishing,
       worldVars, factoryVars, OpenAdopts, Go
<1>4. \A u \in Lifecycles : Ending(u)'
    <2>1. UNCHANGED factoryVars /\ pc' \in [Lifecycles -> Place]
        BY <1>1 DEF Typed, factoryVars, OpenAdopts, Go
    <2>2. /\ \A u \in Lifecycles : u # t => pc'[u] = pc[u] /\ teardown'[u] = teardown[u]
          /\ pc[t] = "start" => factory = "active" \/ pc'[t] = "start"
          /\ Over(t) => pc'[t] = pc[t] /\ teardown'[t] = teardown[t]
        BY SMTT(30) DEF TypeOK, Typed, LifeInv, Placed, Over, Tracked, Publishing, worldVars,
           factoryVars, OpenAdopts, Go
    <2> QED BY <2>1, <2>2, EndingKept DEF TypeOK
<1>5. \A u \in Lifecycles : teardown'[u] # "none" => aborted'[u]
    BY DEF TypeOK, Typed, OpenAdopts, Go
<1>6. \A u \in Lifecycles : teardown'[u] # "none" => (Tracked(u) \/ pc[u] = "settled")'
    BY <1>1, <1>2 DEF Typed, Placed, Tracked, Publishing, Place
<1> QED BY <1>1, <1>2, <1>3, <1>4, <1>5, <1>6 DEF TypeOK, LifeInv

(* A failed open gives its claim back, also on the way to a creation. *)
LEMMA OpenFailsStep ==
    ASSUME TypeOK, LifeInv, NEW t \in Lifecycles, OpenFails(t)
    PROVE  TypeOK' /\ LifeInv'
<1>1. Typed'
    <2>1. (\E place \in Place : Go(t, place)) \/ UNCHANGED pc
        BY DEF worldVars, factoryVars, Place, OpenFails, BeginCreate
    <2>2. (\E call \in Calls : op' = [op EXCEPT ![t] = call]) \/ UNCHANGED op
        BY DEF worldVars, factoryVars, Calls, OpenFails, BeginCreate
    <2>3. (\E h \in Handles : handle' = [handle EXCEPT ![t] = h]) \/ UNCHANGED handle
        BY DEF worldVars, factoryVars, Handles, OpenFails, BeginCreate
    <2>4. (\E l \in Seq(Lifecycles) : log' = [log EXCEPT ![t] = l]) \/ UNCHANGED log
        BY DEF TypeOK, Typed, worldVars, factoryVars, OpenFails, BeginCreate
    <2>5. /\ disk' \in Seq(Lifecycles) /\ writer' \in Lifecycles \cup {None}
          /\ UNCHANGED <<mounted, store, agents, factory, awaited, kind, aborted, called, unloaded,
                        writable, busy, teardown, closedAt>>
        BY DEF TypeOK, Typed, worldVars, factoryVars, OpenFails, BeginCreate
    <2>6. pc' \in [Lifecycles -> Place] /\ op' \in [Lifecycles -> Calls]
          /\ handle' \in [Lifecycles -> Handles] /\ log' \in [Lifecycles -> Seq(Lifecycles)]
        BY <2>1, <2>2, <2>3, <2>4, OwnTyped DEF TypeOK
    <2> QED BY <2>5, <2>6 DEF TypeOK, Typed, Calls, Handles
<1>2. \A u \in Lifecycles : Placed(u)'
    <2>1. /\ Placed(t) /\ mounted /\ teardown[t] = "none" /\ handle[t] = "none"
          /\ pc[t] \in {"opening", "settled"}
        BY DEF LifeInv, OpenFails, Placed
    <2>2. UNCHANGED <<mounted, handle, teardown>>
        BY DEF OpenFails, worldVars, factoryVars
    <2>3. \/ op' = [op EXCEPT ![t] = "none"] /\
             ((UNCHANGED pc /\ pc[t] # "opening") \/ Go(t, "settled"))
          \/ op' = [op EXCEPT ![t] = "create"] /\ Go(t, "creating")
        BY <2>1 DEF OpenFails, BeginCreate
    <2>4. Placed(t)'
        <3>1. CASE pc'[t] = "settled" /\ op'[t] = "none"
            BY <3>1, <2>1, <2>2 DEF Placed, Tracked, Publishing
        <3>2. CASE pc'[t] = "creating" /\ op'[t] = "create"
            BY <3>2, <2>1, <2>2 DEF Placed, Tracked, Publishing
        <3> QED BY <3>1, <3>2, <2>1, <2>3 DEF TypeOK, Typed, Go
    <2>5. \A u \in Lifecycles \ {t} : Placed(u)'
        BY <2>2, <2>3 DEF TypeOK, Typed, LifeInv, Placed, Tracked, Publishing, Go
    <2> QED BY <2>4, <2>5
<1>3. \A u \in Lifecycles : Named(u)'
    <2>1. /\ UNCHANGED <<store, agents, handle, teardown, busy>>
          /\ \A u \in Lifecycles : u # t => pc'[u] = pc[u] /\ op'[u] = op[u]
          /\ op'[t] \in {"none", "create"}
        BY DEF TypeOK, Typed, OpenFails, BeginCreate, Go
    <2>2. /\ pc[t] \in {"opening", "settled"} /\ pc'[t] \in {"creating", "opening", "settled"}
          /\ handle[t] = "none"
        BY DEF TypeOK, Typed, LifeInv, Placed, OpenFails, BeginCreate, Go
    <2>3. writer' = IF writer = t THEN None ELSE writer
        BY <2>2 DEF LifeInv, Named, OpenFails
    <2> QED BY NoneAssumption, <2>1, <2>2, <2>3 DEF LifeInv, Named
<1>4. \A u \in Lifecycles : Ending(u)'
    <2>1. UNCHANGED factoryVars /\ pc' \in [Lifecycles -> Place]
        BY <1>1 DEF Typed, factoryVars, OpenFails, BeginCreate, Go
    <2>2. /\ \A u \in Lifecycles : u # t => pc'[u] = pc[u] /\ teardown'[u] = teardown[u]
          /\ pc[t] = "start" => factory = "active" \/ pc'[t] = "start"
          /\ Over(t) => pc'[t] = pc[t] /\ teardown'[t] = teardown[t]
        <3>1. UNCHANGED teardown /\ pc[t] \in {"opening", "settled"}
            BY DEF LifeInv, Placed, OpenFails
        <3>2. (\E place \in Place : Go(t, place) /\ pc[t] = "opening") \/ UNCHANGED pc
            BY DEF OpenFails, BeginCreate, Place
        <3> QED BY <3>1, <3>2 DEF TypeOK, Typed, Over, Go
    <2> QED BY <2>1, <2>2, EndingKept DEF TypeOK
<1>5. \A u \in Lifecycles : teardown'[u] # "none" => aborted'[u]
    BY DEF TypeOK, Typed, OpenFails, BeginCreate, Go
<1>6. \A u \in Lifecycles : teardown'[u] # "none" => (Tracked(u) \/ pc[u] = "settled")'
    BY <1>1, <1>2 DEF Typed, Placed, Tracked, Publishing, Place
<1> QED BY <1>1, <1>2, <1>3, <1>4, <1>5, <1>6 DEF TypeOK, LifeInv

(* The wait for an open ends, its call stays out. *)
LEMMA AbandonOpenStep ==
    ASSUME TypeOK, LifeInv, NEW t \in Lifecycles, AbandonOpen(t)
    PROVE  TypeOK' /\ LifeInv'
<1>1. Typed'
    <2>1. (\E place \in Place : Go(t, place)) \/ UNCHANGED pc
        BY DEF worldVars, factoryVars, Place, AbandonOpen
    <2>2. (\E call \in Calls : op' = [op EXCEPT ![t] = call]) \/ UNCHANGED op
        BY DEF worldVars, factoryVars, Calls, AbandonOpen
    <2>3. (\E h \in Handles : handle' = [handle EXCEPT ![t] = h]) \/ UNCHANGED handle
        BY DEF worldVars, factoryVars, Handles, AbandonOpen
    <2>4. (\E l \in Seq(Lifecycles) : log' = [log EXCEPT ![t] = l]) \/ UNCHANGED log
        BY DEF TypeOK, Typed, worldVars, factoryVars, AbandonOpen
    <2>5. /\ disk' \in Seq(Lifecycles) /\ writer' \in Lifecycles \cup {None}
          /\ UNCHANGED <<mounted, store, agents, factory, awaited, kind, aborted, called, unloaded,
                        writable, busy, teardown, closedAt>>
        BY DEF TypeOK, Typed, worldVars, factoryVars, AbandonOpen
    <2>6. pc' \in [Lifecycles -> Place] /\ op' \in [Lifecycles -> Calls]
          /\ handle' \in [Lifecycles -> Handles] /\ log' \in [Lifecycles -> Seq(Lifecycles)]
        BY <2>1, <2>2, <2>3, <2>4, OwnTyped DEF TypeOK
    <2> QED BY <2>5, <2>6 DEF TypeOK, Typed, Calls, Handles
<1>2. \A u \in Lifecycles : Placed(u)'
    BY DEF TypeOK, Typed, LifeInv, Placed, Tracked, Publishing, worldVars, factoryVars,
       AbandonOpen, Go
<1>3. \A u \in Lifecycles : Named(u)'
    BY NoneAssumption DEF TypeOK, Typed, LifeInv, Placed, Named, Tracked, Publishing,
       worldVars, factoryVars, AbandonOpen, Go
<1>4. \A u \in Lifecycles : Ending(u)'
    <2>1. UNCHANGED factoryVars /\ pc' \in [Lifecycles -> Place]
        BY <1>1 DEF Typed, factoryVars, AbandonOpen, Go
    <2>2. /\ \A u \in Lifecycles : u # t => pc'[u] = pc[u] /\ teardown'[u] = teardown[u]
          /\ pc[t] = "start" => factory = "active" \/ pc'[t] = "start"
          /\ Over(t) => pc'[t] = pc[t] /\ teardown'[t] = teardown[t]
        BY DEF TypeOK, Typed, LifeInv, Placed, Over, Tracked, Publishing, worldVars,
           factoryVars, AbandonOpen, Go
    <2> QED BY <2>1, <2>2, EndingKept DEF TypeOK
<1>5. \A u \in Lifecycles : teardown'[u] # "none" => aborted'[u]
    BY DEF TypeOK, Typed, AbandonOpen, Go
<1>6. \A u \in Lifecycles : teardown'[u] # "none" => (Tracked(u) \/ pc[u] = "settled")'
    BY <1>1, <1>2 DEF Typed, Placed, Tracked, Publishing, Place
<1> QED BY <1>1, <1>2, <1>3, <1>4, <1>5, <1>6 DEF TypeOK, LifeInv

(* A read that fails, or comes too late, closes its handle. *)
LEMMA ReadStep ==
    ASSUME TypeOK, LifeInv, NEW t \in Lifecycles, Read(t)
    PROVE  TypeOK' /\ LifeInv'
<1>1. Typed'
    <2>1. (\E place \in Place : Go(t, place)) \/ UNCHANGED pc
        BY DEF worldVars, factoryVars, Place, Read
    <2>2. (\E call \in Calls : op' = [op EXCEPT ![t] = call]) \/ UNCHANGED op
        BY DEF worldVars, factoryVars, Calls, Read
    <2>3. (\E h \in Handles : handle' = [handle EXCEPT ![t] = h]) \/ UNCHANGED handle
        BY DEF worldVars, factoryVars, Handles, Read
    <2>4. (\E l \in Seq(Lifecycles) : log' = [log EXCEPT ![t] = l]) \/ UNCHANGED log
        <3>1. Append(disk, t) \in Seq(Lifecycles)
            BY DEF TypeOK, Typed
        <3> QED BY <3>1 DEF Read
    <2>5. /\ disk' \in Seq(Lifecycles) /\ writer' \in Lifecycles \cup {None}
          /\ UNCHANGED <<mounted, store, agents, factory, awaited, kind, aborted, called, unloaded,
                        writable, busy, teardown, closedAt>>
        BY DEF TypeOK, Typed, worldVars, factoryVars, Read
    <2>6. pc' \in [Lifecycles -> Place] /\ op' \in [Lifecycles -> Calls]
          /\ handle' \in [Lifecycles -> Handles] /\ log' \in [Lifecycles -> Seq(Lifecycles)]
        BY <2>1, <2>2, <2>3, <2>4, OwnTyped DEF TypeOK
    <2> QED BY <2>5, <2>6 DEF TypeOK, Typed, Calls, Handles
<1>2. \A u \in Lifecycles : Placed(u)'
    BY DEF TypeOK, Typed, LifeInv, Placed, Tracked, Publishing, worldVars, factoryVars, Read,
       Go
<1>3. \A u \in Lifecycles : Named(u)'
    BY NoneAssumption DEF TypeOK, Typed, LifeInv, Placed, Named, Tracked, Publishing,
       worldVars, factoryVars, Read, Go
<1>4. \A u \in Lifecycles : Ending(u)'
    <2>1. UNCHANGED factoryVars /\ pc' \in [Lifecycles -> Place]
        BY <1>1 DEF Typed, factoryVars, Read, Go
    <2>2. /\ \A u \in Lifecycles : u # t => pc'[u] = pc[u] /\ teardown'[u] = teardown[u]
          /\ pc[t] = "start" => factory = "active" \/ pc'[t] = "start"
          /\ Over(t) => pc'[t] = pc[t] /\ teardown'[t] = teardown[t]
        BY DEF TypeOK, Typed, LifeInv, Placed, Over, Tracked, Publishing, worldVars,
           factoryVars, Read, Go
    <2> QED BY <2>1, <2>2, EndingKept DEF TypeOK
<1>5. \A u \in Lifecycles : teardown'[u] # "none" => aborted'[u]
    BY DEF TypeOK, Typed, Read, Go
<1>6. \A u \in Lifecycles : teardown'[u] # "none" => (Tracked(u) \/ pc[u] = "settled")'
    BY <1>1, <1>2 DEF Typed, Placed, Tracked, Publishing, Place
<1> QED BY <1>1, <1>2, <1>3, <1>4, <1>5, <1>6 DEF TypeOK, LifeInv

(* The marker is stored, then the lifecycle owns a machine or releases. *)
LEMMA MarkStep ==
    ASSUME TypeOK, LifeInv, NEW t \in Lifecycles, Mark(t)
    PROVE  TypeOK' /\ LifeInv'
<1>1. Typed'
    <2>1. (\E place \in Place : Go(t, place)) \/ UNCHANGED pc
        BY DEF worldVars, factoryVars, Place, Mark, Initialize
    <2>2. (\E call \in Calls : op' = [op EXCEPT ![t] = call]) \/ UNCHANGED op
        BY DEF worldVars, factoryVars, Calls, Mark, Initialize
    <2>3. (\E h \in Handles : handle' = [handle EXCEPT ![t] = h]) \/ UNCHANGED handle
        BY DEF worldVars, factoryVars, Handles, Mark, Initialize
    <2>4. (\E l \in Seq(Lifecycles) : log' = [log EXCEPT ![t] = l]) \/ UNCHANGED log
        BY DEF TypeOK, Typed, worldVars, factoryVars, Mark, Initialize
    <2>5. /\ disk' \in Seq(Lifecycles) /\ writer' \in Lifecycles \cup {None}
          /\ UNCHANGED <<mounted, store, agents, factory, awaited, kind, aborted, called, unloaded,
                        writable, busy, teardown, closedAt>>
        BY DEF TypeOK, Typed, worldVars, factoryVars, Mark, Initialize
    <2>6. pc' \in [Lifecycles -> Place] /\ op' \in [Lifecycles -> Calls]
          /\ handle' \in [Lifecycles -> Handles] /\ log' \in [Lifecycles -> Seq(Lifecycles)]
        BY <2>1, <2>2, <2>3, <2>4, OwnTyped DEF TypeOK
    <2> QED BY <2>5, <2>6 DEF TypeOK, Typed, Calls, Handles
<1>2. \A u \in Lifecycles : Placed(u)'
    <2>1. UNCHANGED <<mounted, op, teardown>>
        BY DEF Mark
    <2>2. \/ Go(t, "storing") /\ handle' = [handle EXCEPT ![t] = "open"]
          \/ Go(t, "releasing") /\ handle' = [handle EXCEPT ![t] = "closing"]
        BY DEF Mark, Initialize
    <2>3. mounted /\ op[t] = "none" /\ teardown[t] = "none"
        BY DEF LifeInv, Placed, Mark
    <2>4. Placed(t)'
        BY <2>1, <2>2, <2>3 DEF TypeOK, Typed, Placed, Tracked, Publishing, Go
    <2>5. \A u \in Lifecycles \ {t} : Placed(u)'
        BY <2>1, <2>2 DEF TypeOK, Typed, LifeInv, Placed, Tracked, Publishing, Go
    <2> QED BY <2>4, <2>5
<1>3. \A u \in Lifecycles : Named(u)'
    BY NoneAssumption DEF TypeOK, Typed, LifeInv, Placed, Named, Tracked, Publishing,
       worldVars, factoryVars, Mark, Initialize, Go
<1>4. \A u \in Lifecycles : Ending(u)'
    <2>1. UNCHANGED factoryVars /\ pc' \in [Lifecycles -> Place]
        BY <1>1 DEF Typed, factoryVars, Mark, Initialize, Go
    <2>2. /\ \A u \in Lifecycles : u # t => pc'[u] = pc[u] /\ teardown'[u] = teardown[u]
          /\ pc[t] = "start" => factory = "active" \/ pc'[t] = "start"
          /\ Over(t) => pc'[t] = pc[t] /\ teardown'[t] = teardown[t]
        BY DEF TypeOK, Typed, LifeInv, Placed, Over, Tracked, Publishing, worldVars,
           factoryVars, Mark, Initialize, Go
    <2> QED BY <2>1, <2>2, EndingKept DEF TypeOK
<1>5. \A u \in Lifecycles : teardown'[u] # "none" => aborted'[u]
    BY DEF TypeOK, Typed, Mark, Initialize, Go
<1>6. \A u \in Lifecycles : teardown'[u] # "none" => (Tracked(u) \/ pc[u] = "settled")'
    BY <1>1, <1>2 DEF Typed, Placed, Tracked, Publishing, Place
<1> QED BY <1>1, <1>2, <1>3, <1>4, <1>5, <1>6 DEF TypeOK, LifeInv

(* A handle closes without a machine and the claim ends. *)
LEMMA ReleasedStep ==
    ASSUME TypeOK, LifeInv, NEW t \in Lifecycles, Released(t)
    PROVE  TypeOK' /\ LifeInv'
<1>1. Typed'
    <2>1. (\E place \in Place : Go(t, place)) \/ UNCHANGED pc
        BY DEF worldVars, factoryVars, Place, Released
    <2>2. (\E call \in Calls : op' = [op EXCEPT ![t] = call]) \/ UNCHANGED op
        BY DEF worldVars, factoryVars, Calls, Released
    <2>3. (\E h \in Handles : handle' = [handle EXCEPT ![t] = h]) \/ UNCHANGED handle
        BY DEF worldVars, factoryVars, Handles, Released
    <2>4. (\E l \in Seq(Lifecycles) : log' = [log EXCEPT ![t] = l]) \/ UNCHANGED log
        BY DEF TypeOK, Typed, worldVars, factoryVars, Released
    <2>5. /\ disk' \in Seq(Lifecycles) /\ writer' \in Lifecycles \cup {None}
          /\ UNCHANGED <<mounted, store, agents, factory, awaited, kind, aborted, called, unloaded,
                        writable, busy, teardown, closedAt>>
        BY DEF TypeOK, Typed, worldVars, factoryVars, Released
    <2>6. pc' \in [Lifecycles -> Place] /\ op' \in [Lifecycles -> Calls]
          /\ handle' \in [Lifecycles -> Handles] /\ log' \in [Lifecycles -> Seq(Lifecycles)]
        BY <2>1, <2>2, <2>3, <2>4, OwnTyped DEF TypeOK
    <2> QED BY <2>5, <2>6 DEF TypeOK, Typed, Calls, Handles
<1>2. \A u \in Lifecycles : Placed(u)'
    BY DEF TypeOK, Typed, LifeInv, Placed, Tracked, Publishing, worldVars, factoryVars,
       Released, Go
<1>3. \A u \in Lifecycles : Named(u)'
    BY NoneAssumption DEF TypeOK, Typed, LifeInv, Placed, Named, Tracked, Publishing,
       worldVars, factoryVars, Released, Go
<1>4. \A u \in Lifecycles : Ending(u)'
    <2>1. UNCHANGED factoryVars /\ pc' \in [Lifecycles -> Place]
        BY <1>1 DEF Typed, factoryVars, Released, Go
    <2>2. /\ \A u \in Lifecycles : u # t => pc'[u] = pc[u] /\ teardown'[u] = teardown[u]
          /\ pc[t] = "start" => factory = "active" \/ pc'[t] = "start"
          /\ Over(t) => pc'[t] = pc[t] /\ teardown'[t] = teardown[t]
        BY DEF TypeOK, Typed, LifeInv, Placed, Over, Tracked, Publishing, worldVars,
           factoryVars, Released, Go
    <2> QED BY <2>1, <2>2, EndingKept DEF TypeOK
<1>5. \A u \in Lifecycles : teardown'[u] # "none" => aborted'[u]
    BY DEF TypeOK, Typed, Released, Go
<1>6. \A u \in Lifecycles : teardown'[u] # "none" => (Tracked(u) \/ pc[u] = "settled")'
    BY <1>1, <1>2 DEF Typed, Placed, Tracked, Publishing, Place
<1> QED BY <1>1, <1>2, <1>3, <1>4, <1>5, <1>6 DEF TypeOK, LifeInv

-----------------------------------------------------------------------------
(* Publishing the agent. *)

(* The session enters the store, or the publication fails. *)
LEMMA StoreStep ==
    ASSUME TypeOK, LifeInv, NEW t \in Lifecycles, Store(t)
    PROVE  TypeOK' /\ LifeInv'
<1>1. Typed'
    <2>1. (\E place \in Place : Go(t, place)) \/ UNCHANGED pc
        BY DEF worldVars, factoryVars, Place, Store, Fail
    <2>2. BeginTeardown({t}) \/ UNCHANGED <<aborted, teardown>>
        BY DEF worldVars, factoryVars, Store, Fail
    <2>3. /\ UNCHANGED <<mounted, writer, factory, awaited, kind, op, handle, log, called, unloaded,
                        busy, closedAt>>
          /\ disk' \in {disk, log[t]} /\ store' \in {store, t} /\ agents' \in {agents, t}
          /\ writable' = [writable EXCEPT ![t] = TRUE] \/ UNCHANGED writable
        BY DEF worldVars, factoryVars, Store, Fail
    <2>4. pc' \in [Lifecycles -> Place] /\ writable' \in [Lifecycles -> BOOLEAN]
        BY <2>1, <2>3, OwnTyped DEF TypeOK, Typed
    <2>5. aborted' \in [Lifecycles -> BOOLEAN] /\ teardown' \in [Lifecycles -> Teardowns]
        BY <2>2, TeardownTyped DEF TypeOK, Typed, Teardowns
    <2> QED BY <2>3, <2>4, <2>5, SMTT(30) DEF TypeOK, Typed, Teardowns
<1>2. \A u \in Lifecycles : Placed(u)'
    BY DEF TypeOK, Typed, LifeInv, Placed, Tracked, Publishing, worldVars, factoryVars,
       Store, Fail, BeginTeardown, Go
<1>3. \A u \in Lifecycles : Named(u)'
    BY NoneAssumption DEF TypeOK, Typed, LifeInv, Placed, Named, Tracked, Publishing,
       worldVars, factoryVars, Store, Fail, BeginTeardown, Go
<1>4. \A u \in Lifecycles : Ending(u)'
    <2>1. UNCHANGED factoryVars /\ pc' \in [Lifecycles -> Place]
        BY <1>1 DEF Typed, factoryVars, Store, Fail, BeginTeardown, Go
    <2>2. /\ \A u \in Lifecycles : u # t => pc'[u] = pc[u] /\ teardown'[u] = teardown[u]
          /\ pc[t] = "start" => factory = "active" \/ pc'[t] = "start"
          /\ Over(t) => pc'[t] = pc[t] /\ teardown'[t] = teardown[t]
        BY DEF TypeOK, Typed, LifeInv, Placed, Over, Tracked, Publishing, worldVars,
           factoryVars, Store, Fail, BeginTeardown, Go
    <2> QED BY <2>1, <2>2, EndingKept DEF TypeOK
<1>5. \A u \in Lifecycles : teardown'[u] # "none" => aborted'[u]
    <2>1. BeginTeardown({t}) \/ UNCHANGED <<aborted, teardown>>
        BY DEF worldVars, factoryVars, Store, Fail
    <2> QED BY <2>1, TeardownTyped DEF TypeOK
<1>6. \A u \in Lifecycles : teardown'[u] # "none" => (Tracked(u) \/ pc[u] = "settled")'
    BY <1>1, <1>2 DEF Typed, Placed, Tracked, Publishing, Place
<1> QED BY <1>1, <1>2, <1>3, <1>4, <1>5, <1>6 DEF TypeOK, LifeInv

(* The agent enters the registry, or the publication fails. *)
LEMMA SetupStep ==
    ASSUME TypeOK, LifeInv, NEW t \in Lifecycles, Setup(t)
    PROVE  TypeOK' /\ LifeInv'
<1>1. Typed'
    <2>1. (\E place \in Place : Go(t, place)) \/ UNCHANGED pc
        BY DEF worldVars, factoryVars, Place, Setup, Fail
    <2>2. BeginTeardown({t}) \/ UNCHANGED <<aborted, teardown>>
        BY DEF worldVars, factoryVars, Setup, Fail
    <2>3. /\ UNCHANGED <<mounted, writer, factory, awaited, kind, op, handle, log, called, unloaded,
                        busy, closedAt>>
          /\ disk' \in {disk, log[t]} /\ store' \in {store, t} /\ agents' \in {agents, t}
          /\ writable' = [writable EXCEPT ![t] = TRUE] \/ UNCHANGED writable
        BY DEF worldVars, factoryVars, Setup, Fail
    <2>4. pc' \in [Lifecycles -> Place] /\ writable' \in [Lifecycles -> BOOLEAN]
        BY <2>1, <2>3, OwnTyped DEF TypeOK, Typed
    <2>5. aborted' \in [Lifecycles -> BOOLEAN] /\ teardown' \in [Lifecycles -> Teardowns]
        BY <2>2, TeardownTyped DEF TypeOK, Typed, Teardowns
    <2> QED BY <2>3, <2>4, <2>5, SMTT(30) DEF TypeOK, Typed, Teardowns
<1>2. \A u \in Lifecycles : Placed(u)'
    <2>1. UNCHANGED <<mounted, op, handle>>
        BY DEF Setup, worldVars
    <2>2. \/ Go(t, "announcing") /\ UNCHANGED teardown
          \/ Go(t, "unwinding") /\ BeginTeardown({t})
        BY DEF Setup, Fail
    <2>3. Placed(t)'
        <3>1. pc[t] = "setup" /\ teardown[t] \in {"none", "publication"}
            BY DEF LifeInv, Placed, Publishing, Setup
        <3>2. CASE Go(t, "announcing") /\ UNCHANGED teardown
            BY <2>1, <3>1, <3>2 DEF TypeOK, Typed, LifeInv, Placed, Tracked, Publishing, Go
        <3>3. CASE Go(t, "unwinding") /\ BeginTeardown({t})
            BY <2>1, <3>1, <3>3, TeardownTyped
               DEF TypeOK, Typed, LifeInv, Placed, Tracked, Publishing, Go
        <3> QED BY <2>2, <3>2, <3>3
    <2>4. \A u \in Lifecycles \ {t} : pc'[u] = pc[u] /\ teardown'[u] = teardown[u]
        BY <2>2, TeardownTyped DEF TypeOK, Typed, Go
    <2>5. \A u \in Lifecycles \ {t} : Placed(u)'
        BY <2>1, <2>4 DEF LifeInv, Placed, Tracked, Publishing
    <2> QED BY <2>3, <2>5
<1>3. \A u \in Lifecycles : Named(u)'
    BY NoneAssumption DEF TypeOK, Typed, LifeInv, Placed, Named, Tracked, Publishing,
       worldVars, factoryVars, Setup, Fail, BeginTeardown, Go
<1>4. \A u \in Lifecycles : Ending(u)'
    <2>1. UNCHANGED factoryVars /\ pc' \in [Lifecycles -> Place]
        BY <1>1 DEF Typed, factoryVars, Setup, Fail, BeginTeardown, Go
    <2>2. /\ \A u \in Lifecycles : u # t => pc'[u] = pc[u] /\ teardown'[u] = teardown[u]
          /\ pc[t] = "start" => factory = "active" \/ pc'[t] = "start"
          /\ Over(t) => pc'[t] = pc[t] /\ teardown'[t] = teardown[t]
        BY DEF TypeOK, Typed, LifeInv, Placed, Over, Tracked, Publishing, worldVars,
           factoryVars, Setup, Fail, BeginTeardown, Go
    <2> QED BY <2>1, <2>2, EndingKept DEF TypeOK
<1>5. \A u \in Lifecycles : teardown'[u] # "none" => aborted'[u]
    <2>1. BeginTeardown({t}) \/ UNCHANGED <<aborted, teardown>>
        BY DEF worldVars, factoryVars, Setup, Fail
    <2> QED BY <2>1, TeardownTyped DEF TypeOK
<1>6. \A u \in Lifecycles : teardown'[u] # "none" => (Tracked(u) \/ pc[u] = "settled")'
    BY <1>1, <1>2 DEF Typed, Placed, Tracked, Publishing, Place
<1> QED BY <1>1, <1>2, <1>3, <1>4, <1>5, <1>6 DEF TypeOK, LifeInv

(* An aborted setup is left behind with its session in the store. *)
LEMMA AbandonSetupStep ==
    ASSUME TypeOK, LifeInv, NEW t \in Lifecycles, AbandonSetup(t)
    PROVE  TypeOK' /\ LifeInv'
<1>1. Typed'
    <2>1. (\E place \in Place : Go(t, place)) \/ UNCHANGED pc
        BY DEF worldVars, factoryVars, Place, AbandonSetup, Fail
    <2>2. BeginTeardown({t}) \/ UNCHANGED <<aborted, teardown>>
        BY DEF worldVars, factoryVars, AbandonSetup, Fail
    <2>3. /\ UNCHANGED <<mounted, writer, factory, awaited, kind, op, handle, log, called, unloaded,
                        busy, closedAt>>
          /\ disk' \in {disk, log[t]} /\ store' \in {store, t} /\ agents' \in {agents, t}
          /\ writable' = [writable EXCEPT ![t] = TRUE] \/ UNCHANGED writable
        BY DEF worldVars, factoryVars, AbandonSetup, Fail
    <2>4. pc' \in [Lifecycles -> Place] /\ writable' \in [Lifecycles -> BOOLEAN]
        BY <2>1, <2>3, OwnTyped DEF TypeOK, Typed
    <2>5. aborted' \in [Lifecycles -> BOOLEAN] /\ teardown' \in [Lifecycles -> Teardowns]
        BY <2>2, TeardownTyped DEF TypeOK, Typed, Teardowns
    <2> QED BY <2>3, <2>4, <2>5, SMTT(30) DEF TypeOK, Typed, Teardowns
<1>2. \A u \in Lifecycles : Placed(u)'
    BY DEF TypeOK, Typed, LifeInv, Placed, Tracked, Publishing, worldVars, factoryVars,
       AbandonSetup, Fail, BeginTeardown, Go
<1>3. \A u \in Lifecycles : Named(u)'
    BY NoneAssumption DEF TypeOK, Typed, LifeInv, Placed, Named, Tracked, Publishing,
       worldVars, factoryVars, AbandonSetup, Fail, BeginTeardown, Go
<1>4. \A u \in Lifecycles : Ending(u)'
    <2>1. UNCHANGED factoryVars /\ pc' \in [Lifecycles -> Place]
        BY <1>1 DEF Typed, factoryVars, AbandonSetup, Fail, BeginTeardown, Go
    <2>2. /\ \A u \in Lifecycles : u # t => pc'[u] = pc[u] /\ teardown'[u] = teardown[u]
          /\ pc[t] = "start" => factory = "active" \/ pc'[t] = "start"
          /\ Over(t) => pc'[t] = pc[t] /\ teardown'[t] = teardown[t]
        BY DEF TypeOK, Typed, LifeInv, Placed, Over, Tracked, Publishing, worldVars,
           factoryVars, AbandonSetup, Fail, BeginTeardown, Go
    <2> QED BY <2>1, <2>2, EndingKept DEF TypeOK
<1>5. \A u \in Lifecycles : teardown'[u] # "none" => aborted'[u]
    <2>1. BeginTeardown({t}) \/ UNCHANGED <<aborted, teardown>>
        BY DEF worldVars, factoryVars, AbandonSetup, Fail
    <2> QED BY <2>1, TeardownTyped DEF TypeOK
<1>6. \A u \in Lifecycles : teardown'[u] # "none" => (Tracked(u) \/ pc[u] = "settled")'
    BY <1>1, <1>2 DEF Typed, Placed, Tracked, Publishing, Place
<1> QED BY <1>1, <1>2, <1>3, <1>4, <1>5, <1>6 DEF TypeOK, LifeInv

(* The agent goes live, or its publication fails. *)
LEMMA AnnounceStep ==
    ASSUME TypeOK, LifeInv, NEW t \in Lifecycles, Announce(t)
    PROVE  TypeOK' /\ LifeInv'
<1>1. Typed'
    <2>1. (\E place \in Place : Go(t, place)) \/ UNCHANGED pc
        BY DEF worldVars, factoryVars, Place, Announce, Fail
    <2>2. BeginTeardown({t}) \/ UNCHANGED <<aborted, teardown>>
        BY DEF worldVars, factoryVars, Announce, Fail
    <2>3. /\ UNCHANGED <<mounted, writer, factory, awaited, kind, op, handle, log, called, unloaded,
                        busy, closedAt>>
          /\ disk' \in {disk, log[t]} /\ store' \in {store, t} /\ agents' \in {agents, t}
          /\ writable' = [writable EXCEPT ![t] = TRUE] \/ UNCHANGED writable
        BY DEF worldVars, factoryVars, Announce, Fail
    <2>4. pc' \in [Lifecycles -> Place] /\ writable' \in [Lifecycles -> BOOLEAN]
        BY <2>1, <2>3, OwnTyped DEF TypeOK, Typed
    <2>5. aborted' \in [Lifecycles -> BOOLEAN] /\ teardown' \in [Lifecycles -> Teardowns]
        BY <2>2, TeardownTyped DEF TypeOK, Typed, Teardowns
    <2> QED BY <2>3, <2>4, <2>5, SMTT(30) DEF TypeOK, Typed, Teardowns
<1>2. \A u \in Lifecycles : Placed(u)'
    <2>1. UNCHANGED <<mounted, op, handle>>
        BY DEF Announce, worldVars
    <2>2. \/ Go(t, "live") /\ UNCHANGED teardown
          \/ Go(t, "unwinding") /\ BeginTeardown({t})
        BY DEF Announce, Fail
    <2>3. Placed(t)'
        <3>1. pc[t] = "announcing" /\ teardown[t] \in {"none", "publication"}
            BY DEF LifeInv, Placed, Publishing, Announce
        <3>2. CASE Go(t, "live") /\ UNCHANGED teardown
            BY <2>1, <3>1, <3>2 DEF TypeOK, Typed, LifeInv, Placed, Tracked, Publishing, Go
        <3>3. CASE Go(t, "unwinding") /\ BeginTeardown({t})
            BY <2>1, <3>1, <3>3, TeardownTyped
               DEF TypeOK, Typed, LifeInv, Placed, Tracked, Publishing, Go
        <3> QED BY <2>2, <3>2, <3>3
    <2>4. \A u \in Lifecycles \ {t} : pc'[u] = pc[u] /\ teardown'[u] = teardown[u]
        BY <2>2, TeardownTyped DEF TypeOK, Typed, Go
    <2>5. \A u \in Lifecycles \ {t} : Placed(u)'
        BY <2>1, <2>4 DEF LifeInv, Placed, Tracked, Publishing
    <2> QED BY <2>3, <2>5
<1>3. \A u \in Lifecycles : Named(u)'
    BY NoneAssumption DEF TypeOK, Typed, LifeInv, Placed, Named, Tracked, Publishing,
       worldVars, factoryVars, Announce, Fail, BeginTeardown, Go
<1>4. \A u \in Lifecycles : Ending(u)'
    <2>1. UNCHANGED factoryVars /\ pc' \in [Lifecycles -> Place]
        BY <1>1 DEF Typed, factoryVars, Announce, Fail, BeginTeardown, Go
    <2>2. /\ \A u \in Lifecycles : u # t => pc'[u] = pc[u] /\ teardown'[u] = teardown[u]
          /\ pc[t] = "start" => factory = "active" \/ pc'[t] = "start"
          /\ Over(t) => pc'[t] = pc[t] /\ teardown'[t] = teardown[t]
        BY DEF TypeOK, Typed, LifeInv, Placed, Over, Tracked, Publishing, worldVars,
           factoryVars, Announce, Fail, BeginTeardown, Go
    <2> QED BY <2>1, <2>2, EndingKept DEF TypeOK
<1>5. \A u \in Lifecycles : teardown'[u] # "none" => aborted'[u]
    <2>1. BeginTeardown({t}) \/ UNCHANGED <<aborted, teardown>>
        BY DEF worldVars, factoryVars, Announce, Fail
    <2> QED BY <2>1, TeardownTyped DEF TypeOK
<1>6. \A u \in Lifecycles : teardown'[u] # "none" => (Tracked(u) \/ pc[u] = "settled")'
    BY <1>1, <1>2 DEF Typed, Placed, Tracked, Publishing, Place
<1> QED BY <1>1, <1>2, <1>3, <1>4, <1>5, <1>6 DEF TypeOK, LifeInv

-----------------------------------------------------------------------------
(* Events. *)

(* A published session appends. *)
LEMMA AppendEventStep ==
    ASSUME TypeOK, LifeInv, NEW t \in Lifecycles, AppendEvent(t)
    PROVE  TypeOK' /\ LifeInv'
<1>1. Typed'
    <2>1. disk' \in Seq(Lifecycles) /\ log' \in [Lifecycles -> Seq(Lifecycles)]
        BY RecordTyped DEF TypeOK, AppendEvent
    <2> QED BY <2>1 DEF TypeOK, Typed, worldVars, factoryVars, AppendEvent
<1>2. \A u \in Lifecycles : Placed(u)'
    BY DEF TypeOK, Typed, LifeInv, Placed, Tracked, Publishing, worldVars, factoryVars,
       AppendEvent, Record, Routed
<1>3. \A u \in Lifecycles : Named(u)'
    BY NoneAssumption DEF TypeOK, Typed, LifeInv, Placed, Named, Tracked, Publishing,
       worldVars, factoryVars, AppendEvent, Record, Routed
<1>4. \A u \in Lifecycles : Ending(u)'
    <2>1. UNCHANGED factoryVars /\ pc' \in [Lifecycles -> Place]
        BY <1>1 DEF Typed, factoryVars, AppendEvent, Record, Routed
    <2>2. /\ \A u \in Lifecycles : u # t => pc'[u] = pc[u] /\ teardown'[u] = teardown[u]
          /\ pc[t] = "start" => factory = "active" \/ pc'[t] = "start"
          /\ Over(t) => pc'[t] = pc[t] /\ teardown'[t] = teardown[t]
        BY DEF TypeOK, Typed, LifeInv, Placed, Over, Tracked, Publishing, worldVars,
           factoryVars, AppendEvent, Record, Routed
    <2> QED BY <2>1, <2>2, EndingKept DEF TypeOK
<1>5. \A u \in Lifecycles : teardown'[u] # "none" => aborted'[u]
    BY DEF TypeOK, Typed, AppendEvent, Record, Routed
<1>6. \A u \in Lifecycles : teardown'[u] # "none" => (Tracked(u) \/ pc[u] = "settled")'
    BY <1>1, <1>2 DEF Typed, Placed, Tracked, Publishing, Place
<1> QED BY <1>1, <1>2, <1>3, <1>4, <1>5, <1>6 DEF TypeOK, LifeInv

(* A turn starts in a live agent that is not torn down. *)
LEMMA TurnStartsStep ==
    ASSUME TypeOK, LifeInv, NEW t \in Lifecycles, TurnStarts(t)
    PROVE  TypeOK' /\ LifeInv'
<1>1. Typed'
    BY DEF TypeOK, Typed, Place, worldVars, factoryVars, TurnStarts
<1>2. \A u \in Lifecycles : Placed(u)'
    BY DEF TypeOK, Typed, LifeInv, Placed, Tracked, Publishing, worldVars, factoryVars,
       TurnStarts
<1>3. \A u \in Lifecycles : Named(u)'
    BY NoneAssumption DEF TypeOK, Typed, LifeInv, Placed, Named, Tracked, Publishing,
       worldVars, factoryVars, TurnStarts
<1>4. \A u \in Lifecycles : Ending(u)'
    <2>1. UNCHANGED factoryVars /\ pc' \in [Lifecycles -> Place]
        BY <1>1 DEF Typed, factoryVars, TurnStarts
    <2>2. /\ \A u \in Lifecycles : u # t => pc'[u] = pc[u] /\ teardown'[u] = teardown[u]
          /\ pc[t] = "start" => factory = "active" \/ pc'[t] = "start"
          /\ Over(t) => pc'[t] = pc[t] /\ teardown'[t] = teardown[t]
        BY DEF TypeOK, Typed, LifeInv, Placed, Over, Tracked, Publishing, worldVars,
           factoryVars, TurnStarts
    <2> QED BY <2>1, <2>2, EndingKept DEF TypeOK
<1>5. \A u \in Lifecycles : teardown'[u] # "none" => aborted'[u]
    BY DEF TypeOK, Typed, TurnStarts
<1>6. \A u \in Lifecycles : teardown'[u] # "none" => (Tracked(u) \/ pc[u] = "settled")'
    BY <1>1, <1>2 DEF Typed, Placed, Tracked, Publishing, Place
<1> QED BY <1>1, <1>2, <1>3, <1>4, <1>5, <1>6 DEF TypeOK, LifeInv

(* A turn ends with its closing events. *)
LEMMA TurnEndsStep ==
    ASSUME TypeOK, LifeInv, NEW t \in Lifecycles, TurnEnds(t)
    PROVE  TypeOK' /\ LifeInv'
<1>1. Typed'
    <2>1. disk' \in Seq(Lifecycles) /\ log' \in [Lifecycles -> Seq(Lifecycles)]
        BY RecordTyped DEF TypeOK, TurnEnds
    <2> QED BY <2>1 DEF TypeOK, Typed, worldVars, factoryVars, TurnEnds
<1>2. \A u \in Lifecycles : Placed(u)'
    BY DEF TypeOK, Typed, LifeInv, Placed, Tracked, Publishing, worldVars, factoryVars,
       TurnEnds, Record, Routed
<1>3. \A u \in Lifecycles : Named(u)'
    BY NoneAssumption DEF TypeOK, Typed, LifeInv, Placed, Named, Tracked, Publishing,
       worldVars, factoryVars, TurnEnds, Record, Routed
<1>4. \A u \in Lifecycles : Ending(u)'
    <2>1. UNCHANGED factoryVars /\ pc' \in [Lifecycles -> Place]
        BY <1>1 DEF Typed, factoryVars, TurnEnds, Record, Routed
    <2>2. /\ \A u \in Lifecycles : u # t => pc'[u] = pc[u] /\ teardown'[u] = teardown[u]
          /\ pc[t] = "start" => factory = "active" \/ pc'[t] = "start"
          /\ Over(t) => pc'[t] = pc[t] /\ teardown'[t] = teardown[t]
        BY DEF TypeOK, Typed, LifeInv, Placed, Over, Tracked, Publishing, worldVars,
           factoryVars, TurnEnds, Record, Routed
    <2> QED BY <2>1, <2>2, EndingKept DEF TypeOK
<1>5. \A u \in Lifecycles : teardown'[u] # "none" => aborted'[u]
    BY DEF TypeOK, Typed, TurnEnds, Record, Routed
<1>6. \A u \in Lifecycles : teardown'[u] # "none" => (Tracked(u) \/ pc[u] = "settled")'
    BY <1>1, <1>2 DEF Typed, Placed, Tracked, Publishing, Place
<1> QED BY <1>1, <1>2, <1>3, <1>4, <1>5, <1>6 DEF TypeOK, LifeInv

-----------------------------------------------------------------------------
(* Teardown. *)

(* The handle's owner begins the teardown. *)
LEMMA DisposeStep ==
    ASSUME TypeOK, LifeInv, NEW t \in Lifecycles, Dispose(t)
    PROVE  TypeOK' /\ LifeInv'
<1>1. Typed'
    BY DEF TypeOK, Typed, Place, worldVars, factoryVars, Dispose, BeginTeardown
<1>2. \A u \in Lifecycles : Placed(u)'
    BY DEF TypeOK, Typed, LifeInv, Placed, Tracked, Publishing, worldVars, factoryVars,
       Dispose, BeginTeardown
<1>3. \A u \in Lifecycles : Named(u)'
    BY NoneAssumption DEF TypeOK, Typed, LifeInv, Placed, Named, Tracked, Publishing,
       worldVars, factoryVars, Dispose, BeginTeardown
<1>4. \A u \in Lifecycles : Ending(u)'
    <2>1. UNCHANGED factoryVars /\ pc' \in [Lifecycles -> Place]
        BY <1>1 DEF Typed, factoryVars, Dispose, BeginTeardown
    <2>2. /\ \A u \in Lifecycles : u # t => pc'[u] = pc[u] /\ teardown'[u] = teardown[u]
          /\ pc[t] = "start" => factory = "active" \/ pc'[t] = "start"
          /\ Over(t) => pc'[t] = pc[t] /\ teardown'[t] = teardown[t]
        BY DEF TypeOK, Typed, LifeInv, Placed, Over, Tracked, Publishing, worldVars,
           factoryVars, Dispose, BeginTeardown
    <2> QED BY <2>1, <2>2, EndingKept DEF TypeOK
<1>5. \A u \in Lifecycles : teardown'[u] # "none" => aborted'[u]
    BY DEF TypeOK, Typed, Dispose, BeginTeardown
<1>6. \A u \in Lifecycles : teardown'[u] # "none" => (Tracked(u) \/ pc[u] = "settled")'
    BY <1>1, <1>2 DEF Typed, Placed, Tracked, Publishing, Place
<1> QED BY <1>1, <1>2, <1>3, <1>4, <1>5, <1>6 DEF TypeOK, LifeInv

(* The caller's signal aborts, but begins no teardown. *)
LEMMA CallerAbortsStep ==
    ASSUME TypeOK, LifeInv, NEW t \in Lifecycles, CallerAborts(t)
    PROVE  TypeOK' /\ LifeInv'
<1>1. Typed'
    BY DEF TypeOK, Typed, Tracked, Publishing, worldVars, factoryVars, CallerAborts
<1>2. \A u \in Lifecycles : Placed(u)'
    BY DEF TypeOK, Typed, LifeInv, Placed, Tracked, Publishing, worldVars, factoryVars,
       CallerAborts
<1>3. \A u \in Lifecycles : Named(u)'
    BY NoneAssumption DEF TypeOK, Typed, LifeInv, Placed, Named, Tracked, Publishing,
       worldVars, factoryVars, CallerAborts
<1>4. \A u \in Lifecycles : Ending(u)'
    <2>1. UNCHANGED factoryVars /\ pc' \in [Lifecycles -> Place]
        BY <1>1 DEF Typed, factoryVars, CallerAborts
    <2>2. /\ \A u \in Lifecycles : u # t => pc'[u] = pc[u] /\ teardown'[u] = teardown[u]
          /\ pc[t] = "start" => factory = "active" \/ pc'[t] = "start"
          /\ Over(t) => pc'[t] = pc[t] /\ teardown'[t] = teardown[t]
        BY DEF TypeOK, Typed, LifeInv, Placed, Over, Tracked, Publishing, worldVars,
           factoryVars, CallerAborts
    <2> QED BY <2>1, <2>2, EndingKept DEF TypeOK
<1>5. \A u \in Lifecycles : teardown'[u] # "none" => aborted'[u]
    BY DEF TypeOK, Typed, CallerAborts
<1>6. \A u \in Lifecycles : teardown'[u] # "none" => (Tracked(u) \/ pc[u] = "settled")'
    BY <1>1, <1>2 DEF Typed, Placed, Tracked, Publishing, Place
<1> QED BY <1>1, <1>2, <1>3, <1>4, <1>5, <1>6 DEF TypeOK, LifeInv

(* The owner's unload begins the teardown of a machine. *)
LEMMA OwnerUnloadsStep ==
    ASSUME TypeOK, LifeInv, NEW t \in Lifecycles, OwnerUnloads(t)
    PROVE  TypeOK' /\ LifeInv'
<1>1. Typed'
    BY DEF TypeOK, Typed, Place, worldVars, factoryVars, OwnerUnloads, BeginTeardown
<1>2. \A u \in Lifecycles : Placed(u)'
    BY DEF TypeOK, Typed, LifeInv, Placed, Tracked, Publishing, worldVars, factoryVars,
       OwnerUnloads, BeginTeardown
<1>3. \A u \in Lifecycles : Named(u)'
    BY NoneAssumption DEF TypeOK, Typed, LifeInv, Placed, Named, Tracked, Publishing,
       worldVars, factoryVars, OwnerUnloads, BeginTeardown
<1>4. \A u \in Lifecycles : Ending(u)'
    <2>1. UNCHANGED factoryVars /\ pc' \in [Lifecycles -> Place]
        BY <1>1 DEF Typed, factoryVars, OwnerUnloads, BeginTeardown
    <2>2. /\ \A u \in Lifecycles : u # t => pc'[u] = pc[u] /\ teardown'[u] = teardown[u]
          /\ pc[t] = "start" => factory = "active" \/ pc'[t] = "start"
          /\ Over(t) => pc'[t] = pc[t] /\ teardown'[t] = teardown[t]
        BY DEF TypeOK, Typed, LifeInv, Placed, Over, Tracked, Publishing, worldVars,
           factoryVars, OwnerUnloads, BeginTeardown
    <2> QED BY <2>1, <2>2, EndingKept DEF TypeOK
<1>5. \A u \in Lifecycles : teardown'[u] # "none" => aborted'[u]
    BY DEF TypeOK, Typed, OwnerUnloads, BeginTeardown
<1>6. \A u \in Lifecycles : teardown'[u] # "none" => (Tracked(u) \/ pc[u] = "settled")'
    BY <1>1, <1>2 DEF Typed, Placed, Tracked, Publishing, Place
<1> QED BY <1>1, <1>2, <1>3, <1>4, <1>5, <1>6 DEF TypeOK, LifeInv

(* The publication is over and the driver is cancelled. *)
LEMMA CancelStep ==
    ASSUME TypeOK, LifeInv, NEW t \in Lifecycles, Cancel(t)
    PROVE  TypeOK' /\ LifeInv'
<1>1. Typed'
    BY DEF TypeOK, Typed, Place, worldVars, factoryVars, Cancel
<1>2. \A u \in Lifecycles : Placed(u)'
    BY DEF TypeOK, Typed, LifeInv, Placed, Tracked, Publishing, worldVars, factoryVars, Cancel
<1>3. \A u \in Lifecycles : Named(u)'
    BY NoneAssumption DEF TypeOK, Typed, LifeInv, Placed, Named, Tracked, Publishing,
       worldVars, factoryVars, Cancel
<1>4. \A u \in Lifecycles : Ending(u)'
    <2>1. UNCHANGED factoryVars /\ pc' \in [Lifecycles -> Place]
        BY <1>1 DEF Typed, factoryVars, Cancel
    <2>2. /\ \A u \in Lifecycles : u # t => pc'[u] = pc[u] /\ teardown'[u] = teardown[u]
          /\ pc[t] = "start" => factory = "active" \/ pc'[t] = "start"
          /\ Over(t) => pc'[t] = pc[t] /\ teardown'[t] = teardown[t]
        <3>1. ~Over(t)
            BY DEF LifeInv, Placed, Over, Cancel
        <3>2. UNCHANGED pc /\ teardown' = [teardown EXCEPT ![t] = "quiescing"]
            BY DEF Cancel
        <3> QED BY <3>1, <3>2 DEF TypeOK, Typed
    <2> QED BY <2>1, <2>2, EndingKept DEF TypeOK
<1>5. \A u \in Lifecycles : teardown'[u] # "none" => aborted'[u]
    BY DEF TypeOK, Typed, Cancel
<1>6. \A u \in Lifecycles : teardown'[u] # "none" => (Tracked(u) \/ pc[u] = "settled")'
    BY <1>1, <1>2 DEF Typed, Placed, Tracked, Publishing, Place
<1> QED BY <1>1, <1>2, <1>3, <1>4, <1>5, <1>6 DEF TypeOK, LifeInv

(* An idle driver's handle begins to close. *)
LEMMA CloseStep ==
    ASSUME TypeOK, LifeInv, NEW t \in Lifecycles, Close(t)
    PROVE  TypeOK' /\ LifeInv'
<1>1. Typed'
    <2>1. teardown' \in [Lifecycles -> Teardowns] /\ handle' \in [Lifecycles -> Handles]
        BY DEF TypeOK, Typed, Close, Teardowns, Handles
    <2>2. closedAt' \in [Lifecycles -> Nat]
        <3>1. Len(log[t]) \in Nat
            BY DEF TypeOK, Typed
        <3> QED BY <3>1 DEF TypeOK, Typed, Close
    <2>3. UNCHANGED <<worldVars, factoryVars, kind, pc, op, log, aborted, called, unloaded,
                      writable, busy>>
        BY DEF Close
    <2> QED BY <2>1, <2>2, <2>3 DEF TypeOK, Typed, Teardowns, Handles, worldVars, factoryVars
<1>2. \A u \in Lifecycles : Placed(u)'
    BY DEF TypeOK, Typed, LifeInv, Placed, Tracked, Publishing, worldVars, factoryVars, Close
<1>3. \A u \in Lifecycles : Named(u)'
    BY NoneAssumption DEF TypeOK, Typed, LifeInv, Placed, Named, Tracked, Publishing,
       worldVars, factoryVars, Close
<1>4. \A u \in Lifecycles : Ending(u)'
    <2>1. UNCHANGED factoryVars /\ pc' \in [Lifecycles -> Place]
        BY <1>1 DEF Typed, factoryVars, Close
    <2>2. /\ \A u \in Lifecycles : u # t => pc'[u] = pc[u] /\ teardown'[u] = teardown[u]
          /\ pc[t] = "start" => factory = "active" \/ pc'[t] = "start"
          /\ Over(t) => pc'[t] = pc[t] /\ teardown'[t] = teardown[t]
        <3>1. ~Over(t)
            BY DEF LifeInv, Placed, Over, Close
        <3>2. UNCHANGED pc /\ teardown' = [teardown EXCEPT ![t] = "closing"]
            BY DEF Close
        <3> QED BY <3>1, <3>2 DEF TypeOK, Typed
    <2> QED BY <2>1, <2>2, EndingKept DEF TypeOK
<1>5. \A u \in Lifecycles : teardown'[u] # "none" => aborted'[u]
    BY DEF TypeOK, Typed, Close
<1>6. \A u \in Lifecycles : teardown'[u] # "none" => (Tracked(u) \/ pc[u] = "settled")'
    BY <1>1, <1>2 DEF Typed, Placed, Tracked, Publishing, Place
<1> QED BY <1>1, <1>2, <1>3, <1>4, <1>5, <1>6 DEF TypeOK, LifeInv

(* Everything the lifecycle is named in forgets it. *)
LEMMA DetachStep ==
    ASSUME TypeOK, LifeInv, NEW t \in Lifecycles, Detach(t)
    PROVE  TypeOK' /\ LifeInv'
<1>1. Typed'
    BY DEF TypeOK, Typed, Place, worldVars, factoryVars, Detach, Go
<1>2. \A u \in Lifecycles : Placed(u)'
    BY DEF TypeOK, Typed, LifeInv, Placed, Tracked, Publishing, worldVars, factoryVars,
       Detach, Go
<1>3. \A u \in Lifecycles : Named(u)'
    BY NoneAssumption DEF TypeOK, Typed, LifeInv, Placed, Named, Tracked, Publishing,
       worldVars, factoryVars, Detach, Go
<1>4. \A u \in Lifecycles : Ending(u)'
    <2>1. UNCHANGED factoryVars /\ pc' \in [Lifecycles -> Place]
        BY <1>1 DEF Typed, factoryVars, Detach, Go
    <2>2. /\ \A u \in Lifecycles : u # t => pc'[u] = pc[u] /\ teardown'[u] = teardown[u]
          /\ pc[t] = "start" => factory = "active" \/ pc'[t] = "start"
          /\ Over(t) => pc'[t] = pc[t] /\ teardown'[t] = teardown[t]
        BY DEF TypeOK, Typed, LifeInv, Placed, Over, Tracked, Publishing, worldVars,
           factoryVars, Detach, Go
    <2> QED BY <2>1, <2>2, EndingKept DEF TypeOK
<1>5. \A u \in Lifecycles : teardown'[u] # "none" => aborted'[u]
    BY DEF TypeOK, Typed, Detach, Go
<1>6. \A u \in Lifecycles : teardown'[u] # "none" => (Tracked(u) \/ pc[u] = "settled")'
    BY <1>1, <1>2 DEF Typed, Placed, Tracked, Publishing, Place
<1> QED BY <1>1, <1>2, <1>3, <1>4, <1>5, <1>6 DEF TypeOK, LifeInv

(* FactoryOwnership.dispose waits for whoever is neither unborn nor over. *)
LEMMA FactoryDisposesStep ==
    ASSUME TypeOK, LifeInv, FactoryDisposes
    PROVE  TypeOK' /\ LifeInv'
<1> DEFINE owners == {t \in Lifecycles : Tracked(t)}
<1>1. /\ BeginTeardown(owners) /\ factory = "active" /\ factory' = "disposing"
      /\ UNCHANGED <<worldVars, kind, pc, op, handle, log, called, unloaded, writable, busy,
                    closedAt>>
      /\ awaited' = {t \in Lifecycles : pc[t] \notin {"start", "settled"} /\ teardown[t] # "done"}
    BY DEF FactoryDisposes
<1> HIDE DEF owners
<1>2. /\ aborted' \in [Lifecycles -> BOOLEAN]
      /\ teardown' \in [Lifecycles -> Teardowns]
      /\ \A u \in Lifecycles : u \notin owners =>
            aborted'[u] = aborted[u] /\ teardown'[u] = teardown[u]
      /\ \A u \in Lifecycles : u \in owners =>
            /\ aborted'[u]
            /\ teardown'[u] = IF teardown[u] = "none" THEN "publication" ELSE teardown[u]
    BY <1>1, TeardownTyped DEF TypeOK
<1>3. Typed'
    BY <1>1, <1>2 DEF TypeOK, Typed, Teardowns, worldVars
<1>4. \A u \in Lifecycles : Placed(u)'
    BY <1>1, <1>2 DEF owners, TypeOK, LifeInv, Placed, Tracked, Publishing, worldVars
<1>5. \A u \in Lifecycles : Named(u)'
    BY <1>1, <1>2 DEF owners, TypeOK, Typed, LifeInv, Placed, Named, Tracked, Publishing,
       worldVars
<1>6. \A u \in Lifecycles : Ending(u)'
    <2> SUFFICES ASSUME NEW u \in Lifecycles, pc[u] # "start", u \notin awaited'
                 PROVE  Over(u)'
        BY <1>1 DEF Ending, worldVars
    <2>1. pc[u] = "settled" \/ teardown[u] = "done"
        BY <1>1
    <2>2. teardown[u] = "done" => pc[u] \in {"settled", "live"}
        BY DEF TypeOK, LifeInv, Placed, Tracked, Publishing
    <2>3. teardown[u] = "done" => teardown'[u] = "done"
        BY <1>2
    <2> QED BY <1>1, <2>1, <2>2, <2>3 DEF Over
<1>7. \A u \in Lifecycles : teardown'[u] # "none" => aborted'[u]
    BY <1>2 DEF TypeOK
<1>8. \A u \in Lifecycles : teardown'[u] # "none" => (Tracked(u) \/ pc[u] = "settled")'
    BY <1>1, <1>2 DEF owners, TypeOK, Tracked, Publishing
<1> QED BY <1>3, <1>4, <1>5, <1>6, <1>7, <1>8 DEF TypeOK, LifeInv

(* The factory's disposal resolves once everybody it waits for is over. *)
LEMMA FactoryDisposedStep ==
    ASSUME TypeOK, LifeInv, FactoryDisposed
    PROVE  TypeOK' /\ LifeInv'
<1>1. /\ UNCHANGED <<worldVars, awaited, ownVars>>
      /\ factory' = "disposed" /\ factory = "disposing"
    BY DEF FactoryDisposed
<1>2. TypeOK'
    BY <1>1 DEF TypeOK, Typed, worldVars, ownVars, Tracked, Publishing
<1>3. \A u \in Lifecycles : Placed(u)' /\ Named(u)'
    BY <1>1 DEF LifeInv, Placed, Named, worldVars, ownVars, Tracked, Publishing
<1>4. \A u \in Lifecycles : Ending(u)'
    BY <1>1 DEF LifeInv, Ending, Over, FactoryDisposed, ownVars
<1> QED BY <1>2, <1>3, <1>4 DEF LifeInv

-----------------------------------------------------------------------------
(* The theorems. *)

(* A process starts with nothing held and nobody named. *)
LEMMA InitEstablishes == Init => TypeOK /\ LifeInv
<1> SUFFICES ASSUME Init PROVE TypeOK /\ LifeInv
    OBVIOUS
<1>1. Typed
    BY NoneAssumption DEF Init, Typed, Place
<1>2. \A u \in Lifecycles : Placed(u) /\ Named(u) /\ Ending(u)
    BY NoneAssumption DEF Init, Placed, Named, Ending, Over, Tracked, Publishing
<1> QED BY <1>1, <1>2 DEF TypeOK, LifeInv, Init

(* Every step keeps what a lifecycle holds in line with where it waits. *)
LEMMA NextKeeps ==
    ASSUME TypeOK, LifeInv, [Next]_vars
    PROVE  TypeOK' /\ LifeInv'
<1>1. ASSUME NEW t \in Lifecycles, Start(t) \/ Acquire(t) \/ Opening(t)
      PROVE  TypeOK' /\ LifeInv'
    BY <1>1, StartStep, DrainedStep, CreateClaimsStep, CreateRefusedStep, CreateUnstoredStep,
       AbandonCreateStep, AbandonOpenStep, ReadStep, MarkStep, ReleasedStep,
       OpenClaimsStep, OpenAdoptsStep, OpenFailsStep DEF Acquire, Opening
<1>2. ASSUME NEW t \in Lifecycles, Publish(t) \/ Setup(t) \/ TearDown(t)
      PROVE  TypeOK' /\ LifeInv'
    BY <1>2, StoreStep, SetupStep, AbandonSetupStep, AnnounceStep, CancelStep, CloseStep,
       DetachStep DEF Publish, TearDown
<1>3. ASSUME NEW t \in Lifecycles,
             \/ AppendEvent(t) \/ TurnStarts(t) \/ TurnEnds(t)
             \/ Dispose(t) \/ CallerAborts(t) \/ OwnerUnloads(t)
      PROVE  TypeOK' /\ LifeInv'
    BY <1>3, AppendEventStep, TurnStartsStep, TurnEndsStep, DisposeStep, CallerAbortsStep,
       OwnerUnloadsStep
<1>4. CASE UNCHANGED vars
    <2>1. TypeOK'
        BY <1>4 DEF vars, TypeOK, Typed, worldVars, ownVars, factoryVars, Tracked, Publishing
    <2>2. \A u \in Lifecycles : Placed(u)' /\ Named(u)' /\ Ending(u)'
        BY <1>4 DEF vars, LifeInv, Placed, Named, Ending, Over, worldVars, ownVars,
           factoryVars,
                    Tracked, Publishing
    <2> QED BY <2>1, <2>2 DEF LifeInv
<1> QED BY <1>1, <1>2, <1>3, <1>4, FactoryDisposesStep, FactoryDisposedStep DEF Next

(* The inductive invariant: place, held resources and shared names agree for
   every lifecycle, whoever abandons, aborts or disposes when. *)
THEOREM LifeInvariant == Spec => [](TypeOK /\ LifeInv)
<1>1. TypeOK /\ LifeInv /\ [Next]_vars => (TypeOK /\ LifeInv)'
    BY NextKeeps
<1> QED BY InitEstablishes, <1>1, PTL DEF Spec

(* Every variable keeps its type, and whatever is torn down is aborted. *)
THEOREM LifeTypeCorrect == Spec => []TypeOK
BY LifeInvariant, PTL

(* Agent, session and write handle of an id are one lifecycle's, at every
   moment another caller can look. *)
THEOREM AlwaysWhole == Spec => []Whole
<1>1. TypeOK /\ LifeInv => Whole
    <2> SUFFICES ASSUME TypeOK, LifeInv PROVE Whole
        OBVIOUS
    <2>1. agents # None => store = agents
        BY DEF TypeOK, Typed, LifeInv, Named
    <2>2. (store # None /\ mounted) => writer = store /\ handle[store] \in {"open", "closing"}
        BY DEF TypeOK, Typed, LifeInv, Placed, Named, Tracked, Publishing
    <2>3. \A t \in Lifecycles : busy[t] => agents = t /\ (mounted => handle[t] = "open")
        BY DEF TypeOK, Typed, LifeInv, Placed, Named, Tracked
    <2> QED BY <2>1, <2>2, <2>3 DEF Whole
<1> QED BY <1>1, LifeInvariant, PTL

(* A lifecycle that is over holds no claim, handle or entry, and a disposed
   factory leaves both registries empty. *)
THEOREM NeverLeaks == Spec => []NothingLeaked
<1>1. TypeOK /\ LifeInv => NothingLeaked
    <2> SUFFICES ASSUME TypeOK, LifeInv PROVE NothingLeaked
        OBVIOUS
    <2>1. \A t \in Lifecycles : (Over(t) /\ op[t] = "none" /\ handle[t] # "closing") =>
              t \notin {writer, store, agents} /\ handle[t] # "open"
        BY DEF TypeOK, LifeInv, Placed, Named, Over, Tracked, Publishing
    <2>2. writer # None => op[writer] = "claimed" \/ handle[writer] \in {"open", "closing"}
        BY DEF TypeOK, Typed, LifeInv, Named
    <2>3. factory = "disposed" => store = None /\ agents = None
        BY DEF TypeOK, Typed, LifeInv, Placed, Named, Ending, Over
    <2> QED BY <2>1, <2>2, <2>3 DEF NothingLeaked
<1> QED BY <1>1, LifeInvariant, PTL

-----------------------------------------------------------------------------
(* What is stored. *)

(* A log and its first events. *)
LEMMA Grows ==
    ASSUME NEW a \in Seq(Lifecycles), NEW t \in Lifecycles
    PROVE  /\ Append(a, t) \in Seq(Lifecycles) /\ Len(Append(a, t)) = Len(a) + 1
           /\ Len(a) \in Nat
           /\ \A i \in 1..Len(a) : Append(a, t)[i] = a[i]
           /\ Shares(a, Append(a, t), Len(a)) /\ Shares(a, a, Len(a))
<1>1. /\ Append(a, t) \in Seq(Lifecycles) /\ Len(Append(a, t)) = Len(a) + 1
      /\ Len(a) \in Nat
      /\ \A i \in 1..Len(a) : Append(a, t)[i] = a[i]
    OBVIOUS
<1> QED BY <1>1 DEF Shares

(* What two logs share they share with whatever continues either. *)
LEMMA Keep ==
    ASSUME NEW a \in Seq(Lifecycles), NEW b \in Seq(Lifecycles), NEW n \in Nat, Shares(a, b, n),
           NEW t \in Lifecycles
    PROVE  Shares(Append(a, t), b, n) /\ Shares(a, Append(b, t), n)
<1>1. Len(a) \in Nat /\ Len(b) \in Nat /\ \A i \in 1..n : i \in 1..Len(a) /\ i \in 1..Len(b)
    BY DEF Shares
<1>2. /\ Len(Append(a, t)) = Len(a) + 1 /\ Len(Append(b, t)) = Len(b) + 1
      /\ \A i \in 1..Len(a) : Append(a, t)[i] = a[i]
      /\ \A i \in 1..Len(b) : Append(b, t)[i] = b[i]
    BY Grows
<1> QED BY <1>1, <1>2 DEF Shares

(* So do longer ones that begin with them. *)
LEMMA Through ==
    ASSUME NEW a \in Seq(Lifecycles), NEW b \in Seq(Lifecycles), NEW c \in Seq(Lifecycles),
           NEW n \in Nat, Shares(a, b, n), Shares(b, c, Len(b))
    PROVE  Shares(a, c, n)
<1>1. Len(b) \in Nat /\ Len(c) \in Nat /\ \A i \in 1..n : i \in 1..Len(b)
    BY DEF Shares
<1> QED BY <1>1 DEF Shares

(* Who holds an open handle, or is in the store of a process with persistence,
   is the writer; nobody is without persistence. *)
LEMMA OneWriter ==
    ASSUME TypeOK, LifeInv, NEW t \in Lifecycles
    PROVE  /\ handle[t] = "open" => writer = t
           /\ mounted /\ store = t => writer = t /\ handle[t] \in {"open", "closing"}
           /\ busy[t] => store = t
           /\ handle[t] = "open" => mounted
           /\ store = t /\ handle[t] = "closing" => teardown[t] = "closing"
<1>1. Placed(t) /\ Named(t)
    BY DEF LifeInv
<1>2. handle[t] = "open" => writer = t
    BY <1>1 DEF Named
<1>3. handle[t] \in {"open", "closing"} /\ (Tracked(t) \/ pc[t] \in {"reading", "marking"})
          => mounted
    BY <1>1 DEF Placed
<1>4. store = t => Tracked(t) /\ teardown[t] # "done"
    BY <1>1 DEF Named, Tracked, Publishing
<1>5. mounted /\ store = t => handle[t] = IF teardown[t] = "closing" THEN "closing" ELSE "open"
    BY <1>1, <1>4 DEF Placed
<1>6. busy[t] => store = t
    BY <1>1 DEF Named
<1>7. handle[t] = "open" => pc[t] \in {"reading", "marking"} \/ Tracked(t)
    <2>1. pc[t] \in Place
        BY DEF TypeOK, Typed
    <2> QED BY <1>1, <2>1 DEF Placed, Place, Tracked, Publishing
<1> QED BY <1>1, <1>2, <1>3, <1>4, <1>5, <1>6, <1>7 DEF Named

(* Until a session is acquired nothing is stored of it, and after a lifecycle
   failed nothing more is. *)
LEMMA AcquiringKeepsLog ==
    ASSUME TypeOK, LifeInv, LogInv, NEW t \in Lifecycles,
           \/ Start(t) \/ Drained(t) \/ CreateRefused(t) \/ CreateUnstored(t) \/ AbandonCreate(t)
           \/ OpenClaims(t) \/ OpenFails(t) \/ AbandonOpen(t)
    PROVE  LogInv'
<1>1. UNCHANGED <<disk, mounted, store, teardown, closedAt, writable>>
    BY DEF Start, Drained, CreateRefused, CreateUnstored, AbandonCreate, OpenClaims, OpenFails,
           AbandonOpen, worldVars, factoryVars
<1>2. handle[t] = "none" /\ teardown[t] = "none" /\ store # t
    <2>1. pc[t] \in {"start", "draining", "creating", "opening"} \/ op[t] # "none"
        BY DEF Start, Drained, CreateRefused, CreateUnstored, AbandonCreate, OpenClaims, OpenFails,
               AbandonOpen
    <2>2. Placed(t) /\ Named(t)
        BY DEF LifeInv
    <2>3. handle[t] = "none" /\ teardown[t] = "none"
        BY <2>1, <2>2 DEF Placed
    <2>4. pc[t] \notin {"setup", "announcing", "live", "unwinding"}
        BY <2>1, <2>2 DEF Placed
    <2> QED BY <2>2, <2>3, <2>4 DEF Named
<1>3. \A u \in Lifecycles \ {t} : pc'[u] = pc[u] /\ log'[u] = log[u] /\ handle'[u] = handle[u]
    BY DEF Start, Drained, CreateRefused, CreateUnstored, AbandonCreate, OpenClaims, OpenFails,
           AbandonOpen, worldVars, factoryVars, BeginCreate, Initialize, Go, TypeOK, Typed
<1>4. handle'[t] = "none"
    <2>1. UNCHANGED handle \/ handle' = [handle EXCEPT ![t] = "none"]
        BY DEF Start, Drained, CreateRefused, CreateUnstored, AbandonCreate, OpenClaims, OpenFails,
               AbandonOpen, Initialize
    <2> QED BY <1>2, <2>1 DEF TypeOK, Typed
<1>5. pc'[t] # "marking" \/ (pc'[t] = pc[t] /\ log'[t] = log[t])
    <2>1. \/ UNCHANGED <<pc, log>>
          \/ \E place \in Place \ {"marking"} : Go(t, place)
        BY DEF Start, Drained, CreateRefused, CreateUnstored, AbandonCreate, OpenClaims, OpenFails,
               AbandonOpen, BeginCreate, Initialize, Place
    <2> QED BY <2>1 DEF Go, TypeOK, Typed
<1> SUFFICES ASSUME NEW u \in Lifecycles PROVE Logged(u)'
    BY DEF LogInv
<1>6. Logged(u)
    BY DEF LogInv
<1>7. CASE u # t
    BY <1>1, <1>3, <1>6, <1>7 DEF Logged
<1>8. CASE u = t
    BY <1>1, <1>2, <1>4, <1>5, <1>6, <1>8 DEF Logged
<1> QED BY <1>7, <1>8

(* Finding a stored log, reading it and marking its end: the writer is alone. *)
LEMMA ResumingKeepsLog ==
    ASSUME TypeOK, LifeInv, LogInv, NEW t \in Lifecycles,
           OpenAdopts(t) \/ Read(t) \/ CreateClaims(t) \/ Released(t)
    PROVE  LogInv'
<1>1. UNCHANGED <<disk, mounted, store, teardown, closedAt, writable>>
    BY DEF OpenAdopts, Read, CreateClaims, Released, worldVars
<1>2. teardown[t] = "none" \/ (teardown[t] = "done" /\ pc[t] = "settled")
    <2>1. Placed(t)
        BY DEF LifeInv
    <2> QED BY <2>1 DEF Placed, OpenAdopts, Read, CreateClaims, Released
<1>3. store # t
    <2>1. Placed(t) /\ Named(t)
        BY DEF LifeInv
    <2> QED BY <2>1 DEF Placed, Named, OpenAdopts, Read, CreateClaims, Released
<1>4. \A u \in Lifecycles \ {t} : pc'[u] = pc[u] /\ log'[u] = log[u] /\ handle'[u] = handle[u]
    BY DEF OpenAdopts, Read, CreateClaims, Released, Initialize, Go, TypeOK, Typed
<1>5. CASE OpenAdopts(t) \/ Read(t)
    <2>1. teardown[t] = "none"
        <3>1. Placed(t)
            BY DEF LifeInv
        <3> QED BY <1>5, <3>1 DEF Placed, OpenAdopts, Read
    <2>2. /\ pc'[t] # "storing" \/ (pc'[t] = pc[t] /\ log'[t] = log[t] /\ handle'[t] # "open")
          /\ pc'[t] = "marking" => log'[t] = Append(disk, t) \/ (pc[t] = "marking" /\ log'[t] = log[t])
        BY <1>5 DEF OpenAdopts, Read, Go, TypeOK, Typed
    <2> SUFFICES ASSUME NEW u \in Lifecycles PROVE Logged(u)'
        BY DEF LogInv
    <2>3. Logged(u)
        BY DEF LogInv
    <2>4. CASE u # t
        BY <1>1, <1>4, <2>3, <2>4 DEF Logged
    <2>5. CASE u = t
        BY <1>1, <1>3, <2>1, <2>2, <2>3, <2>5 DEF Logged
    <2> QED BY <2>4, <2>5
<1>6. CASE CreateClaims(t)
    <2>1. disk = <<>> /\ log' = log /\ teardown[t] = "none"
        <3>1. Placed(t)
            BY DEF LifeInv
        <3> QED BY <1>6, <3>1 DEF Placed, CreateClaims
    <2>2. pc'[t] # "marking"
        <3>1. pc[t] \in {"settled", "creating"}
            <4>1. Placed(t)
                BY DEF LifeInv
            <4> QED BY <1>6, <4>1 DEF Placed, CreateClaims
        <3> QED BY <1>6, <3>1 DEF CreateClaims, Initialize, Go, TypeOK, Typed
    <2>3. Shares(disk, log[t], Len(disk))
        <3>1. log[t] \in Seq(Lifecycles)
            BY DEF TypeOK, Typed
        <3>2. Len(log[t]) \in Nat /\ Len(<<>>) = 0
            BY <3>1
        <3> QED BY <2>1, <3>2 DEF Shares
    <2> SUFFICES ASSUME NEW u \in Lifecycles PROVE Logged(u)'
        BY DEF LogInv
    <2>4. Logged(u)
        BY DEF LogInv
    <2>5. CASE u # t
        BY <1>1, <1>4, <2>4, <2>5 DEF Logged
    <2>6. CASE u = t
        BY <1>1, <1>3, <2>1, <2>2, <2>3, <2>4, <2>6 DEF Logged
    <2> QED BY <2>5, <2>6
<1>7. CASE Released(t)
    <2>1. log' = log /\ pc'[t] = "settled" /\ handle'[t] = "closed" /\ handle[t] = "closing"
        BY <1>7 DEF Released, Go, TypeOK, Typed
    <2> SUFFICES ASSUME NEW u \in Lifecycles PROVE Logged(u)'
        BY DEF LogInv
    <2>2. Logged(u)
        BY DEF LogInv
    <2>3. CASE u # t
        BY <1>1, <1>4, <2>2, <2>3 DEF Logged
    <2>4. CASE u = t
        BY <1>1, <1>3, <2>1, <2>2, <2>4 DEF Logged
    <2> QED BY <2>3, <2>4
<1> QED BY <1>5, <1>6, <1>7

(* Where the stored log grows by the writer's unstored events, nobody else has a
   handle that is open, and whatever was stored stays. *)
LEMMA WriterStores ==
    ASSUME TypeOK, LifeInv, LogInv, NEW t \in Lifecycles, NEW u \in Lifecycles, u # t,
           handle[t] = "open", Shares(disk, disk', Len(disk)), disk' \in Seq(Lifecycles),
           UNCHANGED mounted, pc'[u] = pc[u], log'[u] = log[u], handle'[u] = handle[u],
           writable'[u] = writable[u], teardown'[u] = teardown[u], closedAt'[u] = closedAt[u],
           store = u => store' = u, store' = u => store = u
    PROVE  Logged(u)'
<1>1. Logged(u)
    BY DEF LogInv
<1>2. handle[u] # "open"
    BY OneWriter
<1>3. pc[u] # "marking"
    <2>1. Placed(u)
        BY DEF LifeInv
    <2> QED BY <1>2, <2>1 DEF Placed
<1>4. ASSUME Shares(log[u], disk, closedAt[u]) PROVE Shares(log[u], disk', closedAt[u])
    <2>1. disk \in Seq(Lifecycles) /\ log[u] \in Seq(Lifecycles) /\ closedAt[u] \in Nat
        BY DEF TypeOK, Typed
    <2> QED BY <1>4, <2>1, Through
<1> QED BY <1>1, <1>2, <1>3, <1>4 DEF Logged

(* The end-seed marker is stored; the log of the session was the stored one. *)
LEMMA MarkKeepsLog ==
    ASSUME TypeOK, LifeInv, LogInv, NEW t \in Lifecycles, Mark(t)
    PROVE  LogInv'
<1>1. UNCHANGED <<mounted, store, teardown, closedAt, writable, log>>
    BY DEF Mark, worldVars
<1>2. handle[t] = "open" /\ teardown[t] = "none" /\ mounted /\ store # t
    <2>1. Placed(t) /\ Named(t)
        BY DEF LifeInv
    <2> QED BY <2>1 DEF Placed, Named, Mark
<1>3. log[t] = Append(disk, t) /\ Logged(t)
    BY DEF LogInv, Logged, Mark
<1>4. disk' \in {disk, log[t]} /\ (pc'[t] = "storing" => disk' = log[t]) /\ pc'[t] # "marking"
    BY DEF Mark, Initialize, Go, TypeOK, Typed
<1>5. /\ disk' \in Seq(Lifecycles) /\ Shares(disk, disk', Len(disk))
      /\ Shares(log[t], log[t], Len(log[t]))
    <2>1. disk \in Seq(Lifecycles) /\ log[t] \in Seq(Lifecycles)
        BY DEF TypeOK, Typed
    <2>2. Shares(disk, Append(disk, t), Len(disk)) /\ Shares(disk, disk, Len(disk))
        BY <2>1, Grows
    <2>3. Shares(log[t], log[t], Len(log[t]))
        BY <2>1, Grows
    <2> QED BY <1>3, <1>4, <2>1, <2>2, <2>3
<1>6. \A u \in Lifecycles \ {t} : pc'[u] = pc[u] /\ handle'[u] = handle[u]
    BY DEF Mark, Initialize, Go, TypeOK, Typed
<1>7. Logged(t)'
    BY <1>1, <1>2, <1>3, <1>4, <1>5 DEF Logged
<1>8. ASSUME NEW u \in Lifecycles \ {t} PROVE Logged(u)'
    BY <1>1, <1>2, <1>5, <1>6, WriterStores
<1> QED BY <1>7, <1>8 DEF LogInv

(* So are the unstored events of a session on its way into the store. *)
LEMMA StoreKeepsLog ==
    ASSUME TypeOK, LifeInv, LogInv, NEW t \in Lifecycles, Store(t)
    PROVE  LogInv'
<1>1. UNCHANGED <<mounted, handle, closedAt, log>>
    BY DEF Store, worldVars
<1>2. /\ pc[t] = "storing" /\ store # t /\ handle[t] \in {"none", "open"}
      /\ mounted => handle[t] = "open"
      /\ teardown[t] \in {"none", "publication"}
    <2>1. Placed(t) /\ Named(t)
        BY DEF LifeInv
    <2>2. pc[t] = "storing"
        BY DEF Store
    <2>3. Tracked(t) /\ Publishing(t)
        BY <2>2 DEF Tracked, Publishing
    <2> QED BY <2>1, <2>2, <2>3 DEF Placed, Named
<1>3. Logged(t)
    BY DEF LogInv
<1>4. /\ pc'[t] \in {"unwinding", "setup"}
      /\ disk' \in {disk, IF handle[t] = "open" THEN log[t] ELSE disk}
      /\ store' \in {store, t} /\ (store' = t => store = None)
      /\ store' = t => disk' = IF handle[t] = "open" THEN log[t] ELSE disk
      /\ writable'[t] => store' = t \/ writable[t]
      /\ \A u \in Lifecycles \ {t} : pc'[u] = pc[u] /\ writable'[u] = writable[u]
                                    /\ teardown'[u] = teardown[u]
      /\ teardown'[t] \in {teardown[t], "publication"}
    BY <1>2 DEF Store, Fail, BeginTeardown, Go, TypeOK, Typed
<1>5. disk' \in Seq(Lifecycles) /\ Shares(disk, disk', Len(disk))
    <2>1. disk \in Seq(Lifecycles) /\ log[t] \in Seq(Lifecycles)
        BY DEF TypeOK, Typed
    <2>2. Shares(disk, disk, Len(disk))
        BY <2>1, Grows
    <2>3. handle[t] = "open" => Shares(disk, log[t], Len(disk))
        BY <1>2, <1>3 DEF Logged
    <2> QED BY <1>4, <2>1, <2>2, <2>3
<1>6. Logged(t)'
    BY <1>1, <1>2, <1>3, <1>4 DEF Logged
<1>7. ASSUME NEW u \in Lifecycles \ {t} PROVE Logged(u)'
    <2>1. store = u => store' = u
        BY <1>4, NoneAssumption
    <2>2. store' = u => store = u
        BY <1>4, <1>7
    <2>3. CASE handle[t] = "open"
        BY <1>1, <1>4, <1>5, <1>7, <2>1, <2>2, <2>3, WriterStores
    <2>4. CASE handle[t] # "open"
        <3>1. disk' = disk /\ Logged(u)
            BY <1>4, <2>4 DEF LogInv
        <3> QED BY <1>1, <1>4, <2>1, <2>2, <3>1 DEF Logged
    <2> QED BY <2>3, <2>4
<1> QED BY <1>6, <1>7 DEF LogInv

(* What a published session appends reaches the handle, also one that closes;
   only the first of these is promised to stay. *)
LEMMA RecordKeepsLog ==
    ASSUME TypeOK, LifeInv, LogInv, NEW t \in Lifecycles, AppendEvent(t) \/ TurnEnds(t)
    PROVE  LogInv'
<1>1. UNCHANGED <<mounted, store, pc, handle, writable, teardown, closedAt>>
    BY DEF AppendEvent, TurnEnds, worldVars
<1>2. store = t
    <2>1. busy[t] => store = t
        BY OneWriter
    <2> QED BY <2>1 DEF AppendEvent, TurnEnds
<1>3. log' = [log EXCEPT ![t] = Append(@, t)] /\ disk' \in Routed(t)
    BY DEF AppendEvent, TurnEnds, Record
<1>4. log'[t] = Append(log[t], t) /\ \A u \in Lifecycles \ {t} : log'[u] = log[u]
    BY <1>3 DEF TypeOK, Typed
<1>5. CASE ~mounted
    <2> SUFFICES ASSUME NEW u \in Lifecycles PROVE Logged(u)'
        BY DEF LogInv
    <2>1. handle[u] # "open" /\ pc[u] # "marking"
        <3>1. handle[u] # "open"
            BY <1>5, OneWriter
        <3>2. Placed(u)
            BY DEF LifeInv
        <3> QED BY <1>5, <3>1, <3>2 DEF Placed
    <2>2. Logged(u)
        BY DEF LogInv
    <2> QED BY <1>1, <1>5, <2>1, <2>2 DEF Logged
<1>6. CASE mounted
    <2>1. writer = t /\ handle[t] \in {"open", "closing"}
        BY <1>2, <1>6, OneWriter
    <2>2. pc[t] \notin {"marking", "storing"}
        <3>1. Named(t)
            BY DEF LifeInv
        <3> QED BY <1>2, <3>1 DEF Named
    <2>3. /\ disk' \in {disk, Append(disk, t)}
          /\ handle[t] = "open" => disk' = Append(disk, t)
        BY <1>3, <2>1, NoneAssumption DEF Routed
    <2>4. /\ disk \in Seq(Lifecycles) /\ log[t] \in Seq(Lifecycles) /\ closedAt[t] \in Nat
          /\ Append(log[t], t) \in Seq(Lifecycles)
        BY DEF TypeOK, Typed
    <2>5. Logged(t)
        BY DEF LogInv
    <2>6. ASSUME Shares(log[t], disk, closedAt[t]) PROVE Shares(log'[t], disk', closedAt[t])
        <3>1. Shares(Append(log[t], t), disk, closedAt[t])
            BY <2>4, <2>6, Keep
        <3>2. Shares(Append(log[t], t), Append(disk, t), closedAt[t])
            BY <2>4, <3>1, Keep
        <3> QED BY <1>4, <2>3, <3>1, <3>2
    <2>7. Logged(t)'
        <3>1. store' = t /\ handle'[t] = "open" => disk' = log'[t]
            BY <1>1, <1>2, <1>4, <2>3, <2>5 DEF Logged
        <3> QED BY <1>1, <1>2, <2>2, <2>5, <2>6, <3>1 DEF Logged
    <2>8. ASSUME NEW u \in Lifecycles \ {t} PROVE Logged(u)'
        <3>1. handle[u] # "open"
            BY <2>1, <2>8, OneWriter
        <3>2. pc[u] # "marking"
            <4>1. Placed(u)
                BY DEF LifeInv
            <4> QED BY <3>1, <4>1 DEF Placed
        <3>3. Logged(u) /\ log[u] \in Seq(Lifecycles) /\ closedAt[u] \in Nat
            BY DEF LogInv, TypeOK, Typed
        <3>4. ASSUME Shares(log[u], disk, closedAt[u]) PROVE Shares(log[u], disk', closedAt[u])
            <4>1. Shares(log[u], Append(disk, t), closedAt[u])
                BY <2>4, <3>3, <3>4, Keep
            <4> QED BY <2>3, <3>4, <4>1
        <3> QED BY <1>1, <1>4, <2>8, <3>1, <3>2, <3>3, <3>4 DEF Logged
    <2> QED BY <2>7, <2>8 DEF LogInv
<1> QED BY <1>5, <1>6

(* The handle closes after the last event of its session was stored. *)
LEMMA CloseKeepsLog ==
    ASSUME TypeOK, LifeInv, LogInv, NEW t \in Lifecycles, Close(t)
    PROVE  LogInv'
<1>1. UNCHANGED <<disk, mounted, store, pc, log, writable>>
    BY DEF Close, worldVars
<1>2. /\ \A u \in Lifecycles \ {t} : handle'[u] = handle[u] /\ teardown'[u] = teardown[u]
                                     /\ closedAt'[u] = closedAt[u]
      /\ handle'[t] = IF handle[t] = "open" THEN "closing" ELSE handle[t]
      /\ closedAt'[t] = IF writable[t] THEN Len(log[t]) ELSE 0
      /\ teardown[t] = "quiescing"
    BY DEF Close, TypeOK, Typed
<1>3. ASSUME NEW u \in Lifecycles \ {t} PROVE Logged(u)'
    <2>1. Logged(u)
        BY DEF LogInv
    <2> QED BY <1>1, <1>2, <1>3, <2>1 DEF Logged
<1>4. Logged(t)'
    <2>1. Logged(t) /\ Placed(t)
        BY DEF LogInv, LifeInv
    <2>2. pc[t] \notin {"marking", "storing"}
        BY <1>2, <2>1 DEF Placed, Publishing
    <2>3. mounted => handle[t] = "open"
        <3>1. TypeOK /\ teardown[t] = "quiescing"
            BY <1>2
        <3>2. Tracked(t)
            BY <2>1, <3>1 DEF TypeOK, Placed
        <3> QED BY <1>2, <2>1, <3>2 DEF Placed
    <2>4. disk \in Seq(Lifecycles) /\ log[t] \in Seq(Lifecycles)
        BY DEF TypeOK, Typed
    <2>5. mounted => Shares(log[t], disk, closedAt'[t])
        <3>1. Len(disk) \in Nat /\ Len(log[t]) \in Nat
            BY <2>4
        <3>2. Shares(log[t], disk, 0)
            BY <3>1 DEF Shares
        <3>3. mounted /\ writable[t] => disk = log[t]
            BY <2>1, <2>3 DEF Logged
        <3>4. Shares(log[t], log[t], Len(log[t]))
            BY <2>4, Grows
        <3> QED BY <1>2, <3>2, <3>3, <3>4
    <2> QED BY <1>1, <1>2, <2>1, <2>2, <2>5 DEF Logged
<1> QED BY <1>3, <1>4 DEF LogInv

(* Detach takes the session out of the store after that. *)
LEMMA DetachKeepsLog ==
    ASSUME TypeOK, LifeInv, LogInv, NEW t \in Lifecycles, Detach(t)
    PROVE  LogInv'
<1>1. UNCHANGED <<disk, mounted, log, closedAt>>
    BY DEF Detach, worldVars
<1>2. /\ store' = IF store = t THEN None ELSE store
      /\ \A u \in Lifecycles \ {t} : /\ handle'[u] = handle[u] /\ teardown'[u] = teardown[u]
                                     /\ pc'[u] = pc[u] /\ writable'[u] = writable[u]
      /\ handle'[t] = IF handle[t] = "closing" THEN "closed" ELSE handle[t]
      /\ ~writable'[t] /\ teardown[t] = "closing" /\ pc'[t] \in {pc[t], "settled"}
    BY DEF Detach, Go, TypeOK, Typed
<1>3. ASSUME NEW u \in Lifecycles \ {t} PROVE Logged(u)'
    <2>1. Logged(u) /\ (store = u => store' = u) /\ (store' = u => store = u)
        BY <1>2, <1>3, NoneAssumption DEF LogInv
    <2> QED BY <1>1, <1>2, <1>3, <2>1 DEF Logged
<1>4. Logged(t)'
    <2>1. Logged(t) /\ Placed(t)
        BY DEF LogInv, LifeInv
    <2>2. pc[t] \notin {"marking", "storing"} /\ store' # t
        BY <1>2, <2>1, NoneAssumption DEF Placed, Publishing
    <2>3. handle'[t] \in {"closing", "closed"} => handle[t] \in {"closing", "closed"}
        BY <1>2
    <2> QED BY <1>1, <1>2, <2>1, <2>2, <2>3 DEF Logged
<1> QED BY <1>3, <1>4 DEF LogInv

(* Everything else leaves the stored log and what it is compared with alone. *)
LEMMA OthersKeepLog ==
    ASSUME TypeOK, LifeInv, LogInv,
           \/ \E t \in Lifecycles :
                 \/ Setup(t) \/ AbandonSetup(t) \/ Announce(t) \/ TurnStarts(t) \/ Dispose(t)
                 \/ CallerAborts(t) \/ OwnerUnloads(t) \/ Cancel(t)
           \/ FactoryDisposes \/ FactoryDisposed \/ UNCHANGED vars
    PROVE  LogInv'
<1>1. UNCHANGED <<disk, mounted, store, log, handle, writable, closedAt>>
    BY DEF Setup, AbandonSetup, Announce, TurnStarts, Dispose, CallerAborts, OwnerUnloads, Cancel,
           FactoryDisposes, FactoryDisposed, vars, worldVars, ownVars
<1>2. \A u \in Lifecycles : \/ pc'[u] = pc[u]
                           \/ pc'[u] \in {"unwinding", "announcing", "live"}
    <2>1. \/ UNCHANGED pc
          \/ \E t \in Lifecycles : \E place \in {"unwinding", "announcing", "live"} : Go(t, place)
        BY DEF Setup, AbandonSetup, Announce, TurnStarts, Dispose, CallerAborts, OwnerUnloads,
               Cancel, FactoryDisposes, FactoryDisposed, vars, ownVars, Fail
    <2> QED BY <2>1 DEF Go, TypeOK, Typed
<1>3. \A u \in Lifecycles : \/ teardown'[u] = teardown[u]
                           \/ teardown'[u] \in {"publication", "quiescing"}
    BY DEF Setup, AbandonSetup, Announce, TurnStarts, Dispose, CallerAborts, OwnerUnloads, Cancel,
           FactoryDisposes, FactoryDisposed, vars, ownVars, Fail, BeginTeardown, TypeOK, Typed
<1> SUFFICES ASSUME NEW u \in Lifecycles PROVE Logged(u)'
    BY DEF LogInv
<1>4. Logged(u)
    BY DEF LogInv
<1> QED BY <1>1, <1>2, <1>3, <1>4 DEF Logged

(* What LogInv says of a closed handle, in the words of LogKept. *)
LEMMA Prefixed ==
    ASSUME NEW a \in Seq(Lifecycles), NEW b \in Seq(Lifecycles), NEW n \in Nat, Shares(a, b, n)
    PROVE  IsPrefix(SubSeq(a, 1, n), b)
<1>1. /\ n \in Nat /\ n <= Len(a) /\ n <= Len(b) /\ Len(a) \in Nat /\ Len(b) \in Nat
      /\ \A i \in 1..n : a[i] = b[i]
    BY DEF Shares
<1>2. /\ SubSeq(a, 1, n) \in Seq(Lifecycles) /\ Len(SubSeq(a, 1, n)) = n
      /\ \A i \in 1..n : SubSeq(a, 1, n)[i] = a[i]
    BY <1>1
<1>3. /\ SubSeq(b, 1, n) \in Seq(Lifecycles) /\ Len(SubSeq(b, 1, n)) = n
      /\ \A i \in 1..n : SubSeq(b, 1, n)[i] = b[i]
    BY <1>1
<1>4. SubSeq(a, 1, n) = SubSeq(b, 1, n)
    BY <1>1, <1>2, <1>3, SeqEqual
<1> QED BY <1>1, <1>2, <1>4 DEF IsPrefix

(* What the runs check of the stored log follows from LogInv. *)
LEMMA LogFollows ==
    ASSUME TypeOK, LogInv PROVE LogKept
<1> SUFFICES ASSUME NEW t \in Lifecycles
             PROVE  /\ (store = t /\ handle[t] = "open") => disk = log[t]
                    /\ (mounted /\ handle[t] = "closed" /\ teardown[t] = "done") =>
                           IsPrefix(SubSeq(log[t], 1, closedAt[t]), disk)
    BY DEF LogKept
<1>1. Logged(t) /\ disk \in Seq(Lifecycles) /\ log[t] \in Seq(Lifecycles) /\ closedAt[t] \in Nat
    BY DEF LogInv, TypeOK, Typed
<1>2. Shares(log[t], disk, closedAt[t]) => IsPrefix(SubSeq(log[t], 1, closedAt[t]), disk)
    BY <1>1, Prefixed
<1> QED BY <1>1, <1>2 DEF Logged

(* At first nothing is stored. *)
LEMMA InitLog ==
    ASSUME Init PROVE LogInv
BY DEF Init, LogInv, Logged, NoneAssumption

(* Nothing a driver or a setup recorded is lost, and no lifecycle writes into
   another's history. *)
THEOREM LogIsKept == Spec => []LogKept
<1>1. Init => LogInv
    BY InitLog
<1>2. TypeOK /\ LifeInv /\ LogInv /\ [Next]_vars => LogInv'
    <2> SUFFICES ASSUME TypeOK, LifeInv, LogInv, [Next]_vars PROVE LogInv'
        OBVIOUS
    <2>1. ASSUME NEW t \in Lifecycles, Acquire(t) \/ Opening(t) \/ Start(t) PROVE LogInv'
        BY <2>1, AcquiringKeepsLog, ResumingKeepsLog, MarkKeepsLog DEF Acquire, Opening
    <2>2. ASSUME NEW t \in Lifecycles, TearDown(t) \/ Publish(t) \/ Setup(t) PROVE LogInv'
        BY <2>2, StoreKeepsLog, CloseKeepsLog, DetachKeepsLog, OthersKeepLog DEF TearDown, Publish
    <2>3. ASSUME NEW t \in Lifecycles, AppendEvent(t) \/ TurnEnds(t) PROVE LogInv'
        BY <2>3, RecordKeepsLog
    <2>4. ASSUME NEW t \in Lifecycles,
                 TurnStarts(t) \/ Dispose(t) \/ CallerAborts(t) \/ OwnerUnloads(t)
          PROVE LogInv'
        BY <2>4, OthersKeepLog
    <2>5. ASSUME FactoryDisposes \/ FactoryDisposed \/ UNCHANGED vars PROVE LogInv'
        BY <2>5, OthersKeepLog
    <2> QED BY <2>1, <2>2, <2>3, <2>4, <2>5 DEF Next
<1>3. TypeOK /\ LogInv => LogKept
    BY LogFollows
<1> QED BY <1>1, <1>2, <1>3, LifeInvariant, PTL DEF Spec

=============================================================================
