--------------------------- MODULE AgentLifecycle ---------------------------
(***************************************************************************)
(* Agents of one session id coming and going in one process: create,       *)
(* createAgent, resumeWith, restoreOrCreateConfigured and the shared       *)
(* teardown of initializeAgent (core/agent-loop/src/index.ts), over the    *)
(* session store, the agent registry (core/agent/src/index.ts) and the     *)
(* write claims of persistence (session-persistence-jsonl/src/storage.ts). *)
(*                                                                         *)
(* Each lifecycle is one asynchronous activity; between two of its awaits  *)
(* it runs alone, so one action is one stretch between awaits.  Callers    *)
(* abort, owners unload and the factory is disposed at any await.  Logs    *)
(* are sequences of the lifecycles that appended: a resumed session starts *)
(* with what persistence stored.  SessionStore has the notifications in    *)
(* detail, AgentDriver the turns, JsonlHandle the write handle.            *)
(***************************************************************************)
EXTENDS Integers, Sequences, SequencesExt

CONSTANTS
    Lifecycles,   \* attempts to bring an agent of the id to life
    Kinds,        \* how they start: see Kind
    MaxLog,       \* bound: events of the session
    None

Kind == {"create",      \* createAgent, with a caller's signal
         "resume",      \* resume, with a caller's signal
         "configured"}  \* restoreOrCreateConfigured, owned by the factory

ASSUME KindsAssumption == Kinds \subseteq Kind
ASSUME NoneAssumption == None \notin Lifecycles
ASSUME MaxLogAssumption == MaxLog \in Nat

VARIABLES
    mounted,      \* a persistence backend is mounted
    disk,         \* the stored log of the id, <<>> without an artifact
    writer,       \* who claimed the id for writing, or None
    store,        \* the live session's lifecycle, or None
    agents,       \* the registered agent's lifecycle, or None
    factory,      \* active, disposing or disposed
    awaited,      \* what the factory's disposal waits for
    kind,         \* [lifecycle -> how it starts]
    pc,           \* [lifecycle -> where its creation waits]
    op,           \* [lifecycle -> its call of persistence create or open]
    handle,       \* [lifecycle -> its write handle]
    log,          \* [lifecycle -> its session's log]
    aborted,      \* [lifecycle -> the fused abort signal fired]
    called,       \* [lifecycle -> its caller's signal fired]
    unloaded,     \* [lifecycle -> its owner's fiber is unloading]
    writable,     \* [lifecycle -> session/created completed]
    teardown,     \* [lifecycle -> where its teardown waits]
    busy,         \* [lifecycle -> its driver runs a turn]
    closedAt      \* [lifecycle -> length of its published log when close began]

worldVars == <<mounted, disk, writer, store, agents>>
factoryVars == <<factory, awaited>>
ownVars == <<kind, pc, op, handle, log, aborted, called, unloaded,
             writable, teardown, busy, closedAt>>
vars == <<worldVars, factoryVars, ownVars>>

Place == {"start",
          "draining",    \* waits until the registries forget the id
          "creating",    \* persistence.create is out
          "opening",     \* persistence.open is out
          "reading",     \* handle.read of a resumed session
          "marking",     \* the end-seed marker is being appended
          "storing",     \* publication: unstored events are being appended
          "setup",       \* publication: the caller's setup
          "announcing",  \* publication: agent/created listeners
          "live",        \* handed to the caller
          "unwinding",   \* failed, awaits its teardown
          "releasing",   \* failed before it owned a machine, closes its handle
          "settled"}     \* its promise rejected
Publishing(t) == pc[t] \in {"storing", "setup", "announcing"}

(* The driver exists, so every owner shares one teardown (ownership.track). *)
Tracked(t) == Publishing(t) \/ pc[t] \in {"live", "unwinding"}

Init ==
    /\ mounted \in BOOLEAN
    /\ kind \in [Lifecycles -> Kinds]
    /\ disk = <<>> /\ writer = None /\ store = None /\ agents = None
    /\ factory = "active" /\ awaited = {}
    /\ pc = [t \in Lifecycles |-> "start"]
    /\ op = [t \in Lifecycles |-> "none"]
    /\ handle = [t \in Lifecycles |-> "none"]
    /\ log = [t \in Lifecycles |-> <<>>]
    /\ aborted = [t \in Lifecycles |-> FALSE]
    /\ called = [t \in Lifecycles |-> FALSE]
    /\ unloaded = [t \in Lifecycles |-> FALSE]
    /\ writable = [t \in Lifecycles |-> FALSE]
    /\ teardown = [t \in Lifecycles |-> "none"]
    /\ busy = [t \in Lifecycles |-> FALSE]
    /\ closedAt = [t \in Lifecycles |-> 0]

Go(t, place) == pc' = [pc EXCEPT ![t] = place]

-----------------------------------------------------------------------------
(* Acquiring the session. *)

(* The abort signals a resume races its open and read against. *)
Fused(t) == called[t] \/ unloaded[t] \/ factory # "active"

(* The checks initializeAgent makes before it owns a machine. *)
Admitted(t) == ~Fused(t)

(* initializeAgent up to its first await: own a machine and start publishing,
   or give the handle back. *)
Initialize(t, acquired) ==
    IF Admitted(t)
    THEN /\ Go(t, "storing")
         /\ handle' = [handle EXCEPT ![t] = IF acquired THEN "open" ELSE "none"]
    ELSE /\ Go(t, IF acquired THEN "releasing" ELSE "settled")
         /\ handle' = [handle EXCEPT ![t] = IF acquired THEN "closing" ELSE "none"]

(* prepare and createStoredSession; a live session of the id refuses. *)
BeginCreate(t, seed) ==
    IF store = None
    THEN /\ Go(t, "creating")
         /\ log' = [log EXCEPT ![t] = seed]
         /\ op' = [op EXCEPT ![t] = IF mounted THEN "create" ELSE "none"]
    ELSE Go(t, "settled") /\ op' = [op EXCEPT ![t] = "none"] /\ UNCHANGED log

(* agents.create, agents.resume and the configured agents of Service.init; a
   factory that is being disposed is not registered any more. *)
Start(t) ==
    /\ pc[t] = "start" /\ factory = "active"
    /\ \/ /\ kind[t] = "create" \/ (kind[t] = "configured" /\ ~mounted)
          /\ \E seed \in {<<>>, <<t>>} : BeginCreate(t, seed)
       \/ /\ kind[t] = "resume"
          /\ Go(t, IF mounted THEN "opening" ELSE "settled")
          /\ op' = [op EXCEPT ![t] = IF mounted THEN "open" ELSE "none"]
          /\ UNCHANGED log
       \/ /\ kind[t] = "configured" /\ mounted
          /\ Go(t, "draining")
          /\ UNCHANGED <<op, log>>
    /\ UNCHANGED <<worldVars, factoryVars, kind, handle, aborted, called, unloaded,
                   writable, teardown, busy, closedAt>>

(* waitForDrainingConfiguredIdentity, then the resume it leads to. *)
Drained(t) ==
    /\ pc[t] = "draining"
    /\ IF factory # "active"
       THEN Go(t, "settled") /\ UNCHANGED op
       ELSE /\ store = None /\ agents = None
            /\ Go(t, "opening") /\ op' = [op EXCEPT ![t] = "open"]
    /\ UNCHANGED <<worldVars, factoryVars, kind, handle, log, aborted, called, unloaded,
                   writable, teardown, busy, closedAt>>

(* persistence.create claims the id, unless somebody writes it or it is stored. *)
CreateClaims(t) ==
    /\ op[t] = "create"
    /\ writer = None /\ disk = <<>>
    /\ writer' = t
    /\ op' = [op EXCEPT ![t] = "none"]
    /\ IF pc[t] = "creating"
       THEN Initialize(t, TRUE)
       ELSE handle' = [handle EXCEPT ![t] = "closing"] /\ UNCHANGED pc
    /\ UNCHANGED <<mounted, disk, store, agents, factoryVars, kind, log, aborted, called,
                   unloaded, writable, teardown, busy, closedAt>>

CreateRefused(t) ==
    /\ op[t] = "create"
    /\ op' = [op EXCEPT ![t] = "none"]
    /\ IF pc[t] = "creating" THEN Go(t, "settled") ELSE UNCHANGED pc
    /\ UNCHANGED <<worldVars, factoryVars, kind, handle, log, aborted, called, unloaded,
                   writable, teardown, busy, closedAt>>

CreateUnstored(t) ==
    /\ ~mounted /\ pc[t] = "creating"
    /\ Initialize(t, FALSE)
    /\ UNCHANGED <<worldVars, factoryVars, kind, op, log, aborted, called, unloaded,
                   writable, teardown, busy, closedAt>>

(* raceAbortCall of createAgent: the caller stops waiting, the call goes on. *)
AbandonCreate(t) ==
    /\ pc[t] = "creating" /\ op[t] = "create"
    /\ kind[t] = "create" /\ called[t]
    /\ Go(t, "settled")
    /\ UNCHANGED <<worldVars, factoryVars, kind, op, handle, log, aborted, called, unloaded,
                   writable, teardown, busy, closedAt>>

(* open for writing claims the id first ... *)
OpenClaims(t) ==
    /\ op[t] = "open" /\ writer = None
    /\ writer' = t
    /\ op' = [op EXCEPT ![t] = "claimed"]
    /\ UNCHANGED <<mounted, disk, store, agents, factoryVars, kind, pc, handle, log, aborted,
                   called, unloaded, writable, teardown, busy, closedAt>>

(* Mutant: the handle of an abandoned resume is left open. *)
OpenAdoptsLate(t) ==
    /\ op[t] = "claimed" /\ disk # <<>>
    /\ op' = [op EXCEPT ![t] = "none"]
    /\ handle' = [handle EXCEPT ![t] = "open"]
    /\ IF pc[t] = "opening" THEN Go(t, "reading") ELSE UNCHANGED pc
    /\ UNCHANGED <<worldVars, factoryVars, kind, log, aborted, called, unloaded,
                   writable, teardown, busy, closedAt>>

(* ... and then finds the log and adopts a handle, which an abandoned resume
   closes at once ... *)
OpenAdopts(t) ==
    /\ op[t] = "claimed" /\ disk # <<>>
    /\ op' = [op EXCEPT ![t] = "none"]
    /\ IF pc[t] = "opening"
       THEN Go(t, "reading") /\ handle' = [handle EXCEPT ![t] = "open"]
       ELSE handle' = [handle EXCEPT ![t] = "closing"] /\ UNCHANGED pc
    /\ UNCHANGED <<worldVars, factoryVars, kind, log, aborted, called, unloaded,
                   writable, teardown, busy, closedAt>>

(* ... or gives the claim back: owned elsewhere, absent, unreadable, aborted.
   Only an absent log sends a configured agent to its first creation. *)
OpenFails(t) ==
    /\ op[t] \in {"open", "claimed"}
    /\ writer' = IF op[t] = "claimed" THEN None ELSE writer
    /\ IF pc[t] = "opening"
       THEN \/ Go(t, "settled") /\ op' = [op EXCEPT ![t] = "none"] /\ UNCHANGED log
            \/ /\ kind[t] = "configured" /\ factory = "active"
               /\ op[t] = "claimed" /\ disk = <<>>
               /\ BeginCreate(t, <<>>)
       ELSE op' = [op EXCEPT ![t] = "none"] /\ UNCHANGED <<pc, log>>
    /\ UNCHANGED <<mounted, disk, store, agents, factoryVars, kind, handle, aborted, called,
                   unloaded, writable, teardown, busy, closedAt>>

(* raceAbortCall of resumeWith: owner, caller and factory stop the wait. *)
AbandonOpen(t) ==
    /\ pc[t] = "opening" /\ Fused(t)
    /\ Go(t, "settled")
    /\ UNCHANGED <<worldVars, factoryVars, kind, op, handle, log, aborted, called, unloaded,
                   writable, teardown, busy, closedAt>>

(* The read of a resumed session and the preparation of its session object,
   which carries the end-seed marker as its first unstored event. *)
Read(t) ==
    /\ pc[t] = "reading"
    /\ \/ /\ ~Fused(t) /\ store = None
          /\ log' = [log EXCEPT ![t] = Append(disk, t)]
          /\ Go(t, "marking")
          /\ UNCHANGED handle
       \/ /\ Go(t, "releasing")
          /\ handle' = [handle EXCEPT ![t] = "closing"]
          /\ UNCHANGED log
    /\ UNCHANGED <<worldVars, factoryVars, kind, op, aborted, called, unloaded,
                   writable, teardown, busy, closedAt>>

(* appendUnstoredSuffix of resumeWith, then initializeAgent. *)
Mark(t) ==
    /\ pc[t] = "marking"
    /\ \/ disk' = log[t] /\ Initialize(t, TRUE)
       \/ /\ Go(t, "releasing")
          /\ handle' = [handle EXCEPT ![t] = "closing"]
          /\ UNCHANGED disk
    /\ UNCHANGED <<mounted, writer, store, agents, factoryVars, kind, op, log, aborted, called,
                   unloaded, writable, teardown, busy, closedAt>>

(* The close of a handle whose lifecycle failed before it owned a machine, or
   that arrived after its lifecycle had given up. *)
Released(t) ==
    /\ handle[t] = "closing" /\ pc[t] \in {"releasing", "settled"}
    /\ writer' = None
    /\ handle' = [handle EXCEPT ![t] = "closed"]
    /\ Go(t, "settled")
    /\ UNCHANGED <<mounted, disk, store, agents, factoryVars, kind, op, log, aborted, called,
                   unloaded, writable, teardown, busy, closedAt>>

-----------------------------------------------------------------------------
(* Publishing the agent. *)

(* Mutant: a teardown that does not abort the publication it waits for. *)
BeginTeardownSilently(ts) ==
    /\ UNCHANGED aborted
    /\ teardown' = [t \in Lifecycles |->
                      IF t \in ts /\ teardown[t] = "none" THEN "publication" ELSE teardown[t]]

BeginTeardown(ts) ==
    /\ aborted' = [t \in Lifecycles |-> aborted[t] \/ t \in ts]
    /\ teardown' = [t \in Lifecycles |->
                      IF t \in ts /\ teardown[t] = "none" THEN "publication" ELSE teardown[t]]

(* A failed initialization: its publication ends and it awaits the teardown
   that it shares with every other owner. *)
Fail(t) == Go(t, "unwinding") /\ BeginTeardown({t})

(* Unstored events reach the handle, then the session enters the store and is
   announced; each step may fail, and an abort is noticed after each. *)
Store(t) ==
    /\ pc[t] = "storing"
    /\ \/ /\ disk' \in {disk, IF handle[t] = "open" THEN log[t] ELSE disk}
          /\ Fail(t)                    \* the append failed, or an abort, or
          /\ UNCHANGED <<store, writable>>  \* the id is taken in the store
       \/ /\ ~aborted[t] /\ store = None
          /\ disk' = IF handle[t] = "open" THEN log[t] ELSE disk
          /\ store' = t
          /\ \/ Fail(t) /\ UNCHANGED writable    \* session/created vetoed
             \/ /\ Go(t, "setup")
                /\ writable' = [writable EXCEPT ![t] = TRUE]
                /\ UNCHANGED <<aborted, teardown>>
    /\ UNCHANGED <<mounted, writer, agents, factoryVars, kind, op, handle, log, called,
                   unloaded, busy, closedAt>>

(* The caller's setup returned and the agent enters the registry. *)
Setup(t) ==
    /\ pc[t] = "setup" /\ ~aborted[t]
    /\ \/ Fail(t) /\ UNCHANGED agents
       \/ /\ agents = None
          /\ agents' = t
          /\ Go(t, "announcing")
          /\ UNCHANGED <<aborted, teardown>>
    /\ UNCHANGED <<mounted, disk, writer, store, factoryVars, kind, op, handle, log, called,
                   unloaded, writable, busy, closedAt>>

(* Mutant: only the owner's unload races the caller's setup. *)
AbandonSetupOwner(t) ==
    /\ pc[t] = "setup" /\ aborted[t] /\ unloaded[t]
    /\ Fail(t)
    /\ UNCHANGED <<worldVars, factoryVars, kind, op, handle, log, called, unloaded,
                   writable, busy, closedAt>>

(* raceAbort: a setup that does not return is left behind. *)
AbandonSetup(t) ==
    /\ pc[t] = "setup" /\ aborted[t]
    /\ Fail(t)
    /\ UNCHANGED <<worldVars, factoryVars, kind, op, handle, log, called, unloaded,
                   writable, busy, closedAt>>

(* The agent/created listeners settled. *)
Announce(t) ==
    /\ pc[t] = "announcing"
    /\ \/ Fail(t)
       \/ ~aborted[t] /\ Go(t, "live") /\ UNCHANGED <<aborted, teardown>>
    /\ UNCHANGED <<worldVars, factoryVars, kind, op, handle, log, called, unloaded,
                   writable, busy, closedAt>>

-----------------------------------------------------------------------------
(* Events. *)

(* The backend routes published events by session id to the open handle.  One
   that is closing may take an event or miss it. *)
Routed(t) ==
    CASE writer = None -> {disk}
      [] writer # None /\ handle[writer] = "open" -> {Append(disk, t)}
      [] writer # None /\ handle[writer] = "closing" /\ disk = log[writer] -> {disk, Append(disk, t)}
      [] OTHER -> {disk}

Record(t) ==
    /\ log' = [log EXCEPT ![t] = Append(@, t)]
    /\ disk' \in Routed(t)

(* Setup, plugins and callers append while the session is published. *)
AppendEvent(t) ==
    /\ store = t /\ writable[t] /\ Len(log[t]) < MaxLog
    /\ Record(t)
    /\ UNCHANGED <<mounted, writer, store, agents, factoryVars, kind, pc, op, handle, aborted,
                   called, unloaded, writable, teardown, busy, closedAt>>

(* Maintenance ends with the publication; input starts turns from then on. *)
TurnStarts(t) ==
    /\ pc[t] = "live" /\ teardown[t] = "none" /\ ~busy[t] /\ Len(log[t]) < MaxLog
    /\ busy' = [busy EXCEPT ![t] = TRUE]
    /\ UNCHANGED <<worldVars, factoryVars, kind, pc, op, handle, log, aborted, called, unloaded,
                   writable, teardown, closedAt>>

(* The turn's closing events, then the driver is idle. *)
TurnEnds(t) ==
    /\ busy[t]
    /\ busy' = [busy EXCEPT ![t] = FALSE]
    /\ Record(t)
    /\ UNCHANGED <<mounted, writer, store, agents, factoryVars, kind, pc, op, handle, aborted,
                   called, unloaded, writable, teardown, closedAt>>

-----------------------------------------------------------------------------
(* Teardown, shared by all owners. *)

(* AgentHandle.dispose by whoever created the agent. *)
Dispose(t) ==
    /\ pc[t] = "live" /\ teardown[t] = "none"
    /\ BeginTeardown({t})
    /\ UNCHANGED <<worldVars, factoryVars, kind, pc, op, handle, log, called, unloaded,
                   writable, busy, closedAt>>

(* The caller's signal; nothing listens to it once the agent was handed over or
   is being torn down. *)
CallerAborts(t) ==
    /\ kind[t] # "configured" /\ ~called[t]
    /\ pc[t] \notin {"live", "settled"} /\ teardown[t] = "none"
    /\ called' = [called EXCEPT ![t] = TRUE]
    /\ aborted' = [aborted EXCEPT ![t] = Tracked(t)]
    /\ UNCHANGED <<worldVars, factoryVars, kind, pc, op, handle, log, unloaded,
                   writable, teardown, busy, closedAt>>

(* The fiber that owns the agent unloads: it aborts a resume that still loads,
   and takes a tracked agent down. *)
OwnerUnloads(t) ==
    /\ kind[t] # "configured" /\ ~unloaded[t]
    /\ pc[t] # "settled" /\ teardown[t] = "none"
    /\ unloaded' = [unloaded EXCEPT ![t] = TRUE]
    /\ BeginTeardown({u \in {t} : Tracked(u)})
    /\ UNCHANGED <<worldVars, factoryVars, kind, pc, op, handle, log, called,
                   writable, busy, closedAt>>

(* FactoryOwnership.dispose: live agents and startups of that moment. *)
FactoryDisposes ==
    /\ factory = "active"
    /\ factory' = "disposing"
    /\ awaited' = {t \in Lifecycles : pc[t] \notin {"start", "settled"} /\ teardown[t] # "done"}
    /\ BeginTeardown({t \in Lifecycles : Tracked(t)})
    /\ UNCHANGED <<worldVars, kind, pc, op, handle, log, called, unloaded, writable, busy, closedAt>>

Over(t) == pc[t] = "settled" \/ (pc[t] = "live" /\ teardown[t] = "done")
FactoryDisposed ==
    /\ factory = "disposing" /\ \A t \in awaited : Over(t)
    /\ factory' = "disposed"
    /\ UNCHANGED <<worldVars, awaited, ownVars>>

(* Publication ended: cancel the driver as disposed. *)
Cancel(t) ==
    /\ teardown[t] = "publication" /\ ~Publishing(t)
    /\ teardown' = [teardown EXCEPT ![t] = "quiescing"]
    /\ UNCHANGED <<worldVars, factoryVars, kind, pc, op, handle, log, aborted, called, unloaded,
                   writable, busy, closedAt>>

(* Mutant: the handle closes under a driver that still writes. *)
CloseAtOnce(t) ==
    /\ teardown[t] = "quiescing"
    /\ teardown' = [teardown EXCEPT ![t] = "closing"]
    /\ handle' = [handle EXCEPT ![t] = IF @ = "open" THEN "closing" ELSE @]
    /\ closedAt' = [closedAt EXCEPT ![t] = IF writable[t] THEN Len(log[t]) ELSE 0]
    /\ UNCHANGED <<worldVars, factoryVars, kind, pc, op, log, aborted, called, unloaded,
                   writable, busy>>

(* The driver is idle and its scope unwound: close the handle. *)
Close(t) ==
    /\ teardown[t] = "quiescing" /\ ~busy[t]
    /\ teardown' = [teardown EXCEPT ![t] = "closing"]
    /\ handle' = [handle EXCEPT ![t] = IF @ = "open" THEN "closing" ELSE @]
    /\ closedAt' = [closedAt EXCEPT ![t] = IF writable[t] THEN Len(log[t]) ELSE 0]
    /\ UNCHANGED <<worldVars, factoryVars, kind, pc, op, log, aborted, called, unloaded,
                   writable, busy>>

(* Mutant: detach by id. *)
DetachById(t) ==
    /\ teardown[t] = "closing"
    /\ teardown' = [teardown EXCEPT ![t] = "done"]
    /\ handle' = [handle EXCEPT ![t] = IF @ = "closing" THEN "closed" ELSE @]
    /\ writer' = None /\ agents' = None /\ store' = None
    /\ writable' = [writable EXCEPT ![t] = FALSE]
    /\ IF pc[t] = "unwinding" THEN Go(t, "settled") ELSE UNCHANGED pc
    /\ UNCHANGED <<mounted, disk, factoryVars, kind, op, log, aborted, called, unloaded,
                   busy, closedAt>>

(* The handle closed; in the same run of microtasks the agent and the session
   leave their registries and every owner's wait ends. *)
Detach(t) ==
    /\ teardown[t] = "closing"
    /\ teardown' = [teardown EXCEPT ![t] = "done"]
    /\ handle' = [handle EXCEPT ![t] = IF @ = "closing" THEN "closed" ELSE @]
    /\ writer' = IF writer = t THEN None ELSE writer
    /\ agents' = IF agents = t THEN None ELSE agents
    /\ store' = IF store = t THEN None ELSE store
    /\ writable' = [writable EXCEPT ![t] = FALSE]
    /\ IF pc[t] = "unwinding" THEN Go(t, "settled") ELSE UNCHANGED pc
    /\ UNCHANGED <<mounted, disk, factoryVars, kind, op, log, aborted, called, unloaded,
                   busy, closedAt>>

-----------------------------------------------------------------------------
Acquire(t) ==
    \/ Drained(t) \/ CreateClaims(t) \/ CreateRefused(t) \/ CreateUnstored(t)
    \/ AbandonCreate(t) \/ AbandonOpen(t) \/ Read(t) \/ Mark(t) \/ Released(t)
Opening(t) == OpenClaims(t) \/ OpenAdopts(t) \/ OpenFails(t)
Publish(t) == Store(t) \/ AbandonSetup(t) \/ Announce(t)
TearDown(t) == Cancel(t) \/ Close(t) \/ Detach(t)

Next ==
    \/ \E t \in Lifecycles :
          \/ Start(t) \/ Acquire(t) \/ Opening(t) \/ Publish(t) \/ Setup(t) \/ TearDown(t)
          \/ AppendEvent(t) \/ TurnStarts(t) \/ TurnEnds(t)
          \/ Dispose(t) \/ CallerAborts(t) \/ OwnerUnloads(t)
    \/ FactoryDisposes \/ FactoryDisposed

Spec == Init /\ [][Next]_vars

(* Reads, appends, creates and listeners of agent/created settle, a cancelled
   turn ends; an open and a setup may hang for good.  A lifecycle takes finitely
   many of these steps, so fairness to all of them is fairness to each. *)
Proceed ==
    \/ FactoryDisposed
    \/ \E t \in Lifecycles : TearDown(t) \/ Publish(t) \/ Acquire(t) \/ TurnEnds(t)

FairSpec == Spec /\ WF_vars(Proceed)

-----------------------------------------------------------------------------
Typed ==
    /\ mounted \in BOOLEAN
    /\ disk \in Seq(Lifecycles)
    /\ writer \in Lifecycles \cup {None}
    /\ store \in Lifecycles \cup {None}
    /\ agents \in Lifecycles \cup {None}
    /\ factory \in {"active", "disposing", "disposed"}
    /\ awaited \subseteq Lifecycles
    /\ kind \in [Lifecycles -> Kinds]
    /\ pc \in [Lifecycles -> Place]
    /\ op \in [Lifecycles -> {"none", "create", "open", "claimed"}]
    /\ handle \in [Lifecycles -> {"none", "open", "closing", "closed"}]
    /\ log \in [Lifecycles -> Seq(Lifecycles)]
    /\ aborted \in [Lifecycles -> BOOLEAN]
    /\ called \in [Lifecycles -> BOOLEAN]
    /\ unloaded \in [Lifecycles -> BOOLEAN]
    /\ writable \in [Lifecycles -> BOOLEAN]
    /\ busy \in [Lifecycles -> BOOLEAN]
    /\ teardown \in [Lifecycles -> {"none", "publication", "quiescing", "closing", "done"}]
    /\ closedAt \in [Lifecycles -> Nat]

(* Every variable keeps its type, and only a lifecycle that owns a machine, or
   owned one, is torn down, aborted. *)
TypeOK ==
    /\ Typed
    /\ \A t \in Lifecycles : teardown[t] # "none" => aborted[t] /\ (Tracked(t) \/ pc[t] = "settled")

(* Who is visible under the id is whole: a registered agent has its session in
   the store, a stored session has the one write handle of the id, and a turn
   runs only in a registered agent.  Teardown's order keeps it so (idle, then
   close, then detach; detach by entry, not by id). *)
Whole ==
    /\ agents # None => store = agents
    /\ (store # None /\ mounted) => writer = store /\ handle[store] \in {"open", "closing"}
    /\ \A t \in Lifecycles : busy[t] => agents = t /\ (mounted => handle[t] = "open")

(* A lifecycle that is over holds nothing: no claim, no handle, no registry
   entry, also when its owner gave up waiting for a persistence call; and when
   the factory's disposal resolves the id is out of both registries. *)
NothingLeaked ==
    /\ \A t \in Lifecycles :
          (Over(t) /\ op[t] = "none" /\ handle[t] # "closing") =>
              /\ t \notin {writer, store, agents}
              /\ handle[t] # "open"
    /\ writer # None => op[writer] = "claimed" \/ handle[writer] \in {"open", "closing"}
    /\ factory = "disposed" => store = None /\ agents = None

(* Nothing a driver or a setup recorded is lost, and no lifecycle writes into
   another's history: an open handle's log is the session's log, what was
   recorded before the close stays stored for good, also after later resumes. *)
LogKept ==
    \A t \in Lifecycles :
        /\ (store = t /\ handle[t] = "open") => disk = log[t]
        /\ (mounted /\ handle[t] = "closed" /\ teardown[t] = "done") =>
               IsPrefix(SubSeq(log[t], 1, closedAt[t]), disk)

Converged ==
    /\ \A t \in Lifecycles :
          /\ teardown[t] \in {"none", "done"}
          /\ called[t] /\ pc[t] \in {"opening", "setup"} => Over(t)
          /\ handle[t] # "closing"
    /\ factory # "disposing"

(* A teardown ends, whoever began it and wherever the creation was; an aborted
   creation settles although its setup or its open hangs; a handle that arrives
   after its lifecycle gave up closes; and the factory's disposal resolves. *)
DisposalConverges == <>[]Converged

-----------------------------------------------------------------------------
(* What makes Whole and NothingLeaked inductive. *)

(* Where a lifecycle waits tells what it holds: a call of persistence while it
   acquires its session, an open handle while it is published or live, and a
   handle that closes with its teardown. *)
Placed(t) ==
    /\ op[t] # "none" =>
          /\ mounted /\ handle[t] = "none" /\ teardown[t] = "none"
          /\ pc[t] \in {"settled", IF op[t] = "create" THEN "creating" ELSE "opening"}
    /\ pc[t] \in {"start", "draining", "creating", "opening"} =>
          handle[t] = "none" /\ teardown[t] = "none"
    /\ pc[t] = "opening" => op[t] # "none"
    /\ pc[t] = "creating" => (op[t] # "none" <=> mounted)
    /\ pc[t] = "draining" => mounted
    /\ pc[t] \in {"reading", "marking"} => mounted /\ handle[t] = "open" /\ teardown[t] = "none"
    /\ pc[t] = "releasing" => handle[t] = "closing" /\ teardown[t] = "none"
    /\ Publishing(t) => teardown[t] \in {"none", "publication"}
    /\ pc[t] = "unwinding" => teardown[t] \in {"publication", "quiescing", "closing"}
    /\ pc[t] = "settled" => teardown[t] \in {"none", "done"} /\ handle[t] # "open"
    /\ Tracked(t) =>
          handle[t] = CASE ~mounted -> "none"
                        [] mounted /\ teardown[t] = "closing" -> "closing"
                        [] mounted /\ teardown[t] = "done" -> "closed"
                        [] OTHER -> "open"

(* Who the shared state names is where that is possible, and is named wherever
   it has to be. *)
Named(t) ==
    /\ writer = t <=> op[t] = "claimed" \/ handle[t] \in {"open", "closing"}
    /\ store = t => pc[t] \in {"setup", "announcing", "live", "unwinding"} /\ teardown[t] # "done"
    /\ agents = t => store = t
    /\ pc[t] \in {"setup", "announcing"} => store = t
    /\ pc[t] = "announcing" => agents = t
    /\ pc[t] = "live" /\ teardown[t] # "done" => store = t /\ agents = t
    /\ busy[t] => pc[t] = "live" /\ teardown[t] \in {"none", "publication", "quiescing"}

(* Nothing begins once the factory's disposal began. *)
Ending(t) ==
    /\ factory # "active" => pc[t] = "start" \/ Over(t) \/ t \in awaited
    /\ factory = "disposed" => pc[t] = "start" \/ Over(t)

LifeInv == \A t \in Lifecycles : Placed(t) /\ Named(t) /\ Ending(t)

-----------------------------------------------------------------------------
(* What makes LogKept inductive. *)

(* One log begins with n events of another. *)
Shares(a, b, n) ==
    n <= Len(a) /\ n <= Len(b) /\ \A i \in 1..n : a[i] = b[i]

(* The stored log is the session's, from its publication on; before it, the
   events that are still to be stored continue it; and afterwards it keeps what
   was published before the handle closed. *)
Logged(t) ==
    /\ writable[t] => store = t
    /\ store = t /\ handle[t] = "open" => disk = log[t]
    /\ pc[t] = "marking" => log[t] = Append(disk, t)
    /\ pc[t] = "storing" /\ handle[t] = "open" => Shares(disk, log[t], Len(disk))
    /\ mounted /\ handle[t] \in {"closing", "closed"} /\ teardown[t] \in {"closing", "done"} =>
          Shares(log[t], disk, closedAt[t])

LogInv == \A t \in Lifecycles : Logged(t)
=============================================================================
