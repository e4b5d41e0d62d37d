---------------------------- MODULE AgentLifecycle ----------------------------
(***************************************************************************)
(* How agents come to life and go: the agent registry, the session store,  *)
(* the factory that enters an agent in both, and the one teardown of each  *)
(* agent that its handle, its owner, the registry and the factory share.   *)
(*                                                                         *)
(* A holder is one agent with its session: an attempt of the factory       *)
(* (agents.create, agents.resume, a configured agent), or a guest that     *)
(* another plugin enters in a registry by itself.                          *)
(*                                                                         *)
(* The variable stack holds the notifications being delivered, innermost   *)
(* first.  A listener may call the API, so a synchronous call is an action *)
(* in any state; the continuation of an await runs on an empty stack.      *)
(* The unloading of a fiber is marked by a call and runs its effects in a  *)
(* task of its own.                                                        *)
(*                                                                         *)
(* Sources: packages/core/agent/src/index.ts,                              *)
(* packages/core/agent-loop/src/index.ts and                               *)
(* packages/core/session/src/index.ts.                                     *)
(***************************************************************************)
EXTENDS Integers, Sequences, FiniteSets

CONSTANTS
  Attempts,    \* agents the factory is asked for
  Guests,      \* agents and sessions entered by other plugins
  Ids,         \* identities they may ask for
  Plans,       \* bound: who asks for what, and how many calls interfere
  NoOne,
  MaxDepth     \* bound: notifications being delivered at once

Holders == Attempts \cup Guests
Stores == {"agents", "sessions"}

\* How an attempt asks, the store a guest enters, or neither takes part.
Kinds == {"create", "config", "resume", "restore"} \cup Stores \cup {"absent"}
Plan == [id : [Holders -> Ids], kind : [Holders -> Kinds], calls : Nat]

ASSUME LifecycleAssumption ==
  /\ Attempts \cap Guests = {} /\ NoOne \notin Holders
  /\ Plans \subseteq Plan
  /\ MaxDepth \in Nat

VARIABLES
  id,          \* the identity a holder asks for
  \* --- the two registries
  stage,       \* per store and holder, how far its entry got
  deferred,    \* entries to detach once their notification unwound
  stack,       \* notifications being delivered, innermost first
  calls,       \* interfering calls still to come
  \* --- the attempts
  kind,        \* how the attempt is asked for
  pc,          \* where its creation is
  load,        \* the persistence preparation it asked for
  abort,       \* its fused signal is aborted
  machine,     \* its driver: "none" before construction, "stranded" when it
               \* was marked running and its boundary was refused
  teardown,    \* where its memoized teardown is
  refused,     \* attempts whose teardown could not cancel the driver
  flushed,     \* attempts whose session was flushed for the last time
  owner,       \* the fiber of the plugin that asked
  \* --- the factory
  factory,     \* its fiber and its teardown
  awaited,     \* teardowns and creations the factory's teardown waits for
  \* --- the initiator scope of the registry
  initiators,  \* admission of initiator boundaries
  boundary,    \* the driver's boundary: counted in the drain or released
  parent,      \* attempt inside whose boundary the driver was woken
  unloader     \* attempt inside whose boundary the registry's unload began

registryVars == <<stage, deferred>>
stackVars == <<stack, calls>>
creationVars == <<kind, pc, load>>
teardownVars == <<abort, teardown, refused, flushed>>
factoryVars == <<factory, awaited>>
initiatorVars == <<initiators, boundary, parent, unloader>>
vars == <<id, registryVars, stackVars, creationVars, teardownVars, machine, owner,
          factoryVars, initiatorVars>>

-----------------------------------------------------------------------------
(* Entries and the notifications about them.                               *)

Attached(s, h) == stage[s][h] \in {"entered", "announcing", "announced"}
Free(s, i) == \A h \in Holders : Attached(s, h) => id[h] # i

Frame(op, h) == <<op, h>>
Quiet == stack = <<>>
Top(op, h) == stack # <<>> /\ Head(stack) = Frame(op, h)
Push(op, h) == Len(stack) < MaxDepth /\ stack' = <<Frame(op, h)>> \o stack
Delivering(op, h) == \E n \in DOMAIN stack : stack[n] = Frame(op, h)
Appending(h) == Delivering("append", h)

\* Fault: only an append holds an entry, not its announcement.
HeldByAppend(s, h) == s = "sessions" /\ Appending(h)
\* The entry must stay until this notification of it has unwound.
Held(s, h) == stage[s][h] = "announcing" \/ HeldByAppend(s, h)

\* What a removed entry becomes: its disposal is told if its creation was.
Gone(st) == IF st = "entered" THEN "dropped" ELSE "disposed"
\* What an announcement leaves behind.
Unwound(s, h) == IF <<s, h>> \in deferred THEN "disposed" ELSE "announced"

\* Detaching these entries now, the held ones later.
Detach(entries) ==
  LET mine == {e \in entries : Attached(e[1], e[2])}
      now == {e \in mine : ~Held(e[1], e[2])}
  IN /\ stage' = [s \in Stores |-> [h \in Holders |->
                    IF <<s, h>> \in now THEN Gone(stage[s][h]) ELSE stage[s][h]]]
     /\ deferred' = deferred \cup (mine \ now)

\* A session's event is published to its observers, who cannot append in turn.
AppendBegins(h) ==
  /\ stage["sessions"][h] \in {"announcing", "announced"} /\ ~Appending(h)
  /\ Push("append", h)
  /\ UNCHANGED <<id, registryVars, creationVars, teardownVars, machine, owner,
                 factoryVars, initiatorVars>>

AppendEnds(h) ==
  /\ Top("append", h)
  /\ stack' = Tail(stack)
  /\ IF <<"sessions", h>> \in deferred /\ stage["sessions"][h] = "announced"
     THEN /\ stage' = [stage EXCEPT !["sessions"][h] = "disposed"]
          /\ deferred' = deferred \ {<<"sessions", h>>}
     ELSE UNCHANGED registryVars
  /\ UNCHANGED <<id, creationVars, teardownVars, machine, owner, factoryVars, initiatorVars>>

\* agents.register(agent) or sessions.create(id) of another plugin.
GuestEnters(s, g) ==
  /\ kind[g] = s /\ stage[s][g] = "out" /\ Free(s, id[g])
  /\ stage' = [stage EXCEPT ![s][g] = "announcing"]
  /\ Push(s, g)
  /\ UNCHANGED <<id, deferred, creationVars, teardownVars, machine, owner, factoryVars,
                 initiatorVars>>

\* Its announcement unwinds; a listener that threw rolls the entry back.
GuestTold(s, g, veto) ==
  /\ Top(s, g)
  /\ stack' = Tail(stack)
  /\ stage' = [stage EXCEPT ![s][g] = IF veto THEN "disposed" ELSE Unwound(s, g)]
  /\ deferred' = deferred \ {<<s, g>>}
  /\ UNCHANGED <<id, creationVars, teardownVars, machine, owner, factoryVars, initiatorVars>>

\* Its detach is called, perhaps by a listener of the entry's own creation.
GuestLeaves(s, g) ==
  /\ Attached(s, g) /\ <<s, g>> \notin deferred
  /\ Detach({<<s, g>>})
  /\ UNCHANGED <<id, stack, creationVars, teardownVars, machine, owner, factoryVars,
                 initiatorVars>>

-----------------------------------------------------------------------------
(* The teardown.                                                           *)

Mine(a) == {<<"agents", a>>, <<"sessions", a>>}
Tracked(a) == machine[a] # "none"

\* Its synchronous part, memoized: admission closes, the driver is cancelled.
Stopping(torn) ==
  /\ abort' = [a \in Attempts |-> abort[a] \/ a \in torn]
  /\ teardown' = [a \in Attempts |->
       IF a \in torn /\ teardown[a] = "none" THEN "stopping" ELSE teardown[a]]

\* handle.dispose(), agents.close(id).
Dispose(a) ==
  /\ teardown[a] = "none" /\ (Attached("agents", a) \/ pc[a] = "live")
  /\ Stopping({a})
  /\ UNCHANGED <<id, registryVars, stack, creationVars, refused, flushed, machine, owner,
                 factoryVars, initiatorVars>>

\* Called by an observer of an append while input is pending: cancelling the
\* input appends, which throws, and only the entries are released.
DisposeRefused(a) ==
  /\ teardown[a] = "none" /\ Attached("agents", a) /\ Appending(a)
  /\ abort' = [abort EXCEPT ![a] = TRUE]
  /\ teardown' = [teardown EXCEPT ![a] = "done"]
  /\ refused' = refused \cup {a}
  /\ Detach(Mine(a))
  /\ UNCHANGED <<id, stack, creationVars, flushed, machine, owner, factoryVars, initiatorVars>>

\* agents.closeIfIdle(id): never a driver at work.
CloseIfIdle(a) ==
  /\ Attached("agents", a) /\ machine[a] = "idle"
  /\ Dispose(a)

\* Fault: the driver is not waited for.
StoppedUnawaited(a) ==
  /\ Quiet /\ teardown[a] = "stopping"
  /\ teardown' = [teardown EXCEPT ![a] = IF machine[a] = "none" THEN "done" ELSE "unwinding"]
  /\ UNCHANGED <<id, registryVars, stack, creationVars, abort, refused, flushed, machine,
                 owner, factoryVars, initiatorVars>>

\* await machine.whenIdle()
Stopped(a) ==
  /\ Quiet /\ teardown[a] = "stopping" /\ machine[a] \in {"none", "idle"}
  /\ teardown' = [teardown EXCEPT ![a] = IF machine[a] = "none" THEN "done" ELSE "unwinding"]
  /\ UNCHANGED <<id, registryVars, stack, creationVars, abort, refused, flushed, machine,
                 owner, factoryVars, initiatorVars>>

\* await machine.scope.dispose(), whose failure is only kept for the caller.
ScopeUnwound(a) ==
  /\ Quiet /\ teardown[a] = "unwinding"
  /\ teardown' = [teardown EXCEPT ![a] = IF Attached("sessions", a) THEN "flushing" ELSE "done"]
  /\ UNCHANGED <<id, registryVars, stack, creationVars, abort, refused, flushed, machine,
                 owner, factoryVars, initiatorVars>>

\* await sessions.flush(session), stored or not; then the agent leaves and its
\* listeners are told, before the session does.
AgentLeaves(a) ==
  /\ Quiet /\ teardown[a] = "flushing"
  /\ flushed' = flushed \cup {a}
  /\ IF stage["agents"][a] = "announced"
     THEN /\ Detach({<<"agents", a>>})
          /\ stack' = <<Frame("leaving", a)>>
          /\ teardown' = [teardown EXCEPT ![a] = "leaving"]
     ELSE /\ Detach(Mine(a))
          /\ teardown' = [teardown EXCEPT ![a] = "done"]
          /\ UNCHANGED stack
  /\ UNCHANGED <<id, creationVars, abort, refused, machine, owner, factoryVars, initiatorVars>>

SessionLeaves(a) ==
  /\ Top("leaving", a)
  /\ stack' = Tail(stack)
  /\ Detach({<<"sessions", a>>})
  /\ teardown' = [teardown EXCEPT ![a] = "done"]
  /\ UNCHANGED <<id, creationVars, abort, refused, flushed, machine, owner, factoryVars,
                 initiatorVars>>

-----------------------------------------------------------------------------
(* Creation.                                                               *)

ByFactory(a) == kind[a] \in {"config", "restore"}   \* owned by the factory's fiber
Signalled == {"loading", "setup", "sessionWindow", "agentWindow", "startWindow"}
Settled == {"live", "rejected"}
MayPrepare(a) == factory = "active" /\ owner[a] = "active" /\ ~abort[a]

\* Fault: the reserved log is kept.
RejectKeepingLoad(a) == pc' = [pc EXCEPT ![a] = "rejected"] /\ UNCHANGED load

\* The creation fails before anything needs a teardown.
Reject(a) ==
  /\ pc' = [pc EXCEPT ![a] = "rejected"]
  /\ load' = [load EXCEPT ![a] = IF @ = "held" THEN "released" ELSE @]

\* publish() threw: its caller disposes what was prepared and, unless the
\* creation is synchronous, waits for that.
RollBack(a, after) ==
  /\ Stopping({a})
  /\ pc' = [pc EXCEPT ![a] = after]
  /\ UNCHANGED load

\* prepare(): the driver is constructed, or its construction throws and the
\* teardown finds none.
Constructed(a) == machine' = [machine EXCEPT ![a] = "idle"]
ConstructionFails(a) ==
  /\ Stopping({a}) /\ Reject(a)
  /\ UNCHANGED <<machine, registryVars, stack>>

\* publish(): the session enters, then the agent, then the session is told of.
Publish(a, after) ==
  \/ /\ ~abort[a] /\ Free("sessions", id[a]) /\ Free("agents", id[a])
     /\ stage' = [stage EXCEPT !["sessions"][a] = "announcing", !["agents"][a] = "entered"]
     /\ pc' = [pc EXCEPT ![a] = "sessionWindow"]
     /\ Push("publish", a)
     /\ UNCHANGED <<deferred, load, abort, teardown>>
  \/ /\ ~abort[a] /\ Free("sessions", id[a]) /\ ~Free("agents", id[a])
     /\ stage' = [stage EXCEPT !["sessions"][a] = "entered"]
     /\ RollBack(a, after)
     /\ UNCHANGED <<deferred, stack>>
  \/ /\ abort[a] \/ ~Free("sessions", id[a])
     /\ RollBack(a, after)
     /\ UNCHANGED <<registryVars, stack>>

Asked(a, k) == pc[a] = "none" /\ kind[a] = k /\ factory \in {"active", "unloading"}

StartVars == <<id, refused, flushed, owner, factoryVars, initiatorVars>>

\* agents.create(): setup runs on the prepared, unpublished agent.
Create(a) ==
  /\ Asked(a, "create")
  /\ \/ /\ Free("sessions", id[a]) /\ MayPrepare(a)
        /\ \/ /\ Constructed(a)
              /\ pc' = [pc EXCEPT ![a] = "setup"]
              /\ UNCHANGED <<registryVars, stack, load, abort, teardown>>
           \/ ConstructionFails(a)
     \/ /\ ~Free("sessions", id[a]) \/ ~MayPrepare(a)
        /\ Reject(a)
        /\ UNCHANGED <<registryVars, stack, machine, abort, teardown>>
  /\ UNCHANGED <<StartVars, kind>>

\* The synchronous create(): no setup, published in the same call.
CreateAtOnce(a) ==
  \/ /\ Free("sessions", id[a]) /\ MayPrepare(a)
     /\ (Constructed(a) /\ Publish(a, "rejected")) \/ ConstructionFails(a)
  \/ /\ ~Free("sessions", id[a]) \/ ~MayPrepare(a)
     /\ Reject(a)
     /\ UNCHANGED <<registryVars, stack, machine, abort, teardown>>

CreateConfigured(a) == Asked(a, "config") /\ CreateAtOnce(a) /\ UNCHANGED <<StartVars, kind>>

\* The load begins under the fused signal of its caller, owner and factory.
Load(a) ==
  /\ pc' = [pc EXCEPT ![a] = "loading"]
  /\ load' = [load EXCEPT ![a] = "pending"]

Resume(a) ==
  /\ Asked(a, "resume")
  /\ IF owner[a] = "active" THEN Load(a) ELSE Reject(a)
  /\ UNCHANGED <<StartVars, registryVars, stack, kind, machine, abort, teardown>>

\* A configured agent of an exact identity first waits for a former holder.
Restore(a) ==
  /\ Asked(a, "restore")
  /\ IF \A s \in Stores : Free(s, id[a])
     THEN Load(a)
     ELSE pc' = [pc EXCEPT ![a] = "draining"] /\ UNCHANGED load
  /\ UNCHANGED <<StartVars, registryVars, stack, kind, machine, abort, teardown>>

FormerLeft(a) ==
  /\ Quiet /\ pc[a] = "draining"
  /\ (\A s \in Stores : Free(s, id[a])) \/ factory = "disposing"
  /\ IF factory = "active" THEN Load(a) ELSE Reject(a)
  /\ UNCHANGED <<StartVars, registryVars, stack, kind, machine, abort, teardown>>

\* persistence.prepare() gave a session: nobody else has it, or is live.
Loaded(a) ==
  /\ Quiet /\ pc[a] = "loading" /\ Free("sessions", id[a])
  /\ \A b \in Attempts : load[b] = "held" => id[b] # id[a]
  /\ \/ /\ MayPrepare(a)
        /\ Constructed(a)
        /\ pc' = [pc EXCEPT ![a] = "setup"]
        /\ load' = [load EXCEPT ![a] = "held"]
        /\ UNCHANGED <<abort, teardown>>
     \/ /\ IF MayPrepare(a) THEN Stopping({a}) ELSE UNCHANGED <<abort, teardown>>
        /\ pc' = [pc EXCEPT ![a] = "rejected"]
        /\ load' = [load EXCEPT ![a] = "released"]
        /\ UNCHANGED machine
  /\ UNCHANGED <<StartVars, registryVars, stack, kind>>

\* It failed, or an abort overtook it.  A configured agent of a log that does
\* not exist is created instead.
LoadEnds(a) ==
  /\ Quiet /\ pc[a] = "loading"
  /\ \/ load' = [load EXCEPT ![a] = "released"]
     \/ abort[a] /\ UNCHANGED load
  /\ pc' = [pc EXCEPT ![a] =
       IF kind[a] = "restore" /\ factory = "active" THEN "listing" ELSE "rejected"]
  /\ UNCHANGED <<StartVars, registryVars, stack, kind, machine, abort, teardown>>

\* A preparation that arrives for nobody is released.
AbandonedLoadEnds(a) ==
  /\ Quiet /\ pc[a] # "loading" /\ load[a] = "pending"
  /\ load' = [load EXCEPT ![a] = "released"]
  /\ UNCHANGED <<StartVars, registryVars, stack, kind, pc, machine, abort, teardown>>

Listed(a, exists) ==
  /\ Quiet /\ pc[a] = "listing"
  /\ IF exists
     THEN Reject(a) /\ UNCHANGED <<registryVars, stack, kind, machine, abort, teardown>>
     ELSE kind' = [kind EXCEPT ![a] = "config"] /\ CreateAtOnce(a)
  /\ UNCHANGED StartVars

\* Setup settled, or an abort overtook it.
SetupEnds(a, ok) ==
  /\ Quiet /\ pc[a] = "setup"
  /\ IF ok THEN Publish(a, "failing") ELSE RollBack(a, "failing") /\ UNCHANGED <<registryVars, stack>>
  /\ UNCHANGED <<StartVars, kind, machine>>

AfterRollBack(a) == IF kind[a] = "config" THEN "rejected" ELSE "failing"

\* The listeners of session/created returned, or one threw.
SessionTold(a, veto) ==
  /\ Top("publish", a) /\ pc[a] = "sessionWindow"
  /\ deferred' = deferred \ {<<"sessions", a>>}
  /\ IF veto \/ abort[a] \/ stage["agents"][a] # "entered"
     THEN /\ stage' = [stage EXCEPT !["sessions"][a] = Unwound("sessions", a)]
          /\ stack' = Tail(stack)
          /\ RollBack(a, AfterRollBack(a))
     ELSE /\ stage' = [stage EXCEPT !["sessions"][a] = Unwound("sessions", a),
                                    !["agents"][a] = "announcing"]
          /\ pc' = [pc EXCEPT ![a] = "agentWindow"]
          /\ UNCHANGED <<stack, load, abort, teardown>>
  /\ UNCHANGED <<StartVars, kind, machine>>

\* The listeners of agent/created returned, or one threw.
AgentTold(a, veto) ==
  /\ Top("publish", a) /\ pc[a] = "agentWindow"
  /\ stage' = [stage EXCEPT !["agents"][a] = Unwound("agents", a)]
  /\ deferred' = deferred \ {<<"agents", a>>}
  /\ IF veto \/ abort[a]
     THEN stack' = Tail(stack) /\ RollBack(a, AfterRollBack(a))
     ELSE /\ pc' = [pc EXCEPT ![a] = "startWindow"]
          /\ UNCHANGED <<stack, load, abort, teardown>>
  /\ UNCHANGED <<StartVars, kind, machine>>

\* Fault: an abort during agent/session-start is not looked at.
StartToldUnchecked(a) ==
  /\ Top("publish", a) /\ pc[a] = "startWindow"
  /\ stack' = Tail(stack)
  /\ pc' = [pc EXCEPT ![a] = "live"]
  /\ load' = [load EXCEPT ![a] = IF @ = "held" THEN "released" ELSE @]
  /\ UNCHANGED <<StartVars, registryVars, kind, machine, abort, teardown>>

\* The listeners of agent/session-start returned; the handle is handed out.
StartTold(a) ==
  /\ Top("publish", a) /\ pc[a] = "startWindow"
  /\ stack' = Tail(stack)
  /\ IF abort[a]
     THEN RollBack(a, AfterRollBack(a))
     ELSE /\ pc' = [pc EXCEPT ![a] = "live"]
          /\ load' = [load EXCEPT ![a] = IF @ = "held" THEN "released" ELSE @]
          /\ UNCHANGED <<abort, teardown>>
  /\ UNCHANGED <<StartVars, registryVars, kind, machine>>

\* The failed creation waited for its teardown.
RolledBack(a) ==
  /\ Quiet /\ pc[a] = "failing" /\ teardown[a] = "done"
  /\ Reject(a)
  /\ UNCHANGED <<StartVars, registryVars, stack, kind, machine, abort, teardown>>

\* The caller's signal; nothing reads it once the agent is live.
CallerAborts(a) ==
  /\ pc[a] \in Signalled /\ ~ByFactory(a) /\ ~abort[a]
  /\ abort' = [abort EXCEPT ![a] = TRUE]
  /\ UNCHANGED <<StartVars, registryVars, stack, creationVars, machine, teardown>>

-----------------------------------------------------------------------------
(* Owners, the factory's fiber and the initiator scope.                    *)

OwnerUnloads(a) ==
  /\ owner[a] = "active" /\ kind[a] \in {"create", "resume"}
  /\ owner' = [owner EXCEPT ![a] = "unloading"]
  /\ UNCHANGED <<id, registryVars, stack, creationVars, teardownVars, machine, factoryVars,
                 initiatorVars>>

\* Its effects abort a load or tear the agent down; a teardown begun by
\* somebody else they leave alone, and do not wait for.
OwnerEffects(a) ==
  /\ Quiet /\ owner[a] = "unloading"
  /\ IF Tracked(a) /\ teardown[a] = "none"
     THEN Stopping({a})
     ELSE abort' = [abort EXCEPT ![a] = @ \/ pc[a] = "loading"] /\ UNCHANGED teardown
  /\ owner' = [owner EXCEPT ![a] = "unloaded"]
  /\ UNCHANGED <<id, registryVars, stack, creationVars, refused, flushed, machine,
                 factoryVars, initiatorVars>>

\* The provider's fiber begins to unload.
FactoryUnloads ==
  /\ factory = "active" /\ factory' = "unloading"
  /\ UNCHANGED <<id, registryVars, stack, creationVars, teardownVars, machine, owner, awaited,
                 initiatorVars>>

Creating == {a \in Attempts : pc[a] \notin Settled \cup {"none"}}
Undisposed == {a \in Attempts : Tracked(a) /\ teardown[a] = "none"}
TearingDown == {a \in Attempts : teardown[a] \notin {"none", "done"}}

\* What the factory's teardown aborts, and what it waits for.
AbortedByFactory == Creating \cup Undisposed
\* Fault: a teardown somebody else began is not waited for, nor a creation.
AwaitedUndisposed == Undisposed \cup TearingDown
Awaited == Creating \cup Undisposed \cup TearingDown

\* FactoryOwnership.dispose(): every live agent is torn down, every creation
\* aborted, and what is in flight now is waited for.
FactoryDisposes ==
  /\ Quiet /\ factory = "unloading" /\ factory' = "disposing"
  /\ abort' = [a \in Attempts |-> abort[a] \/ a \in AbortedByFactory]
  /\ teardown' = [a \in Attempts |-> IF a \in Undisposed THEN "stopping" ELSE teardown[a]]
  /\ awaited' = Awaited
  /\ UNCHANGED <<id, registryVars, stack, creationVars, refused, flushed, machine, owner,
                 initiatorVars>>

FactoryDisposed ==
  /\ Quiet /\ factory = "disposing" /\ factory' = "disposed"
  /\ \A a \in awaited : pc[a] \in Settled /\ teardown[a] \in {"none", "done"}
  /\ UNCHANGED <<id, registryVars, stack, creationVars, teardownVars, machine, owner, awaited,
                 initiatorVars>>

\* A waking message to an idle agent.  The driver runs inside an initiator
\* boundary; when the registry refuses one the send throws, but the agent is
\* marked running by then.
Wake(a, by) ==
  /\ Attached("agents", a) /\ machine[a] = "idle" /\ teardown[a] = "none" /\ ~Appending(a)
  /\ IF initiators = "active"
     THEN /\ machine' = [machine EXCEPT ![a] = "busy"]
          /\ boundary' = [boundary EXCEPT ![a] = "counted"]
          /\ parent' = [parent EXCEPT ![a] = by]
     ELSE machine' = [machine EXCEPT ![a] = "stranded"] /\ UNCHANGED <<boundary, parent>>
  /\ UNCHANGED <<id, registryVars, stack, creationVars, teardownVars, owner, factoryVars,
                 initiators, unloader>>

\* The driver converged; the boundaries below its own still lead above it.
Converges(a) ==
  /\ Quiet /\ machine[a] = "busy"
  /\ machine' = [machine EXCEPT ![a] = "idle"]
  /\ boundary' = [boundary EXCEPT ![a] = "none"]
  /\ parent' = [c \in Attempts |-> CASE c = a -> NoOne
                                     [] parent[c] = a -> parent[a]
                                     [] OTHER -> parent[c]]
  /\ UNCHANGED <<id, registryVars, stack, creationVars, teardownVars, owner, factoryVars,
                 initiators, unloader>>

\* The registry's fiber, or one above it, begins to unload.
RegistryUnloads(by) ==
  /\ initiators = "active" /\ initiators' = "closing"
  /\ unloader' = by
  /\ UNCHANGED <<id, registryVars, stack, creationVars, teardownVars, machine, owner,
                 factoryVars, boundary, parent>>

\* Fault: only the caller's own boundary is released, not those around it.
OwnBoundary(a) == {a}
\* The boundary a driver runs in and those around it.
Chain(a) == {b \in Attempts : \A closed \in SUBSET Attempts :
  (a \in closed /\ \A c \in closed : parent[c] # NoOne => parent[c] \in closed) => b \in closed}

\* disposeInitiators(): the chain that began the unload does not count.
DisposeInitiators ==
  /\ Quiet /\ initiators = "closing" /\ initiators' = "draining"
  /\ boundary' = [a \in Attempts |->
       IF unloader # NoOne /\ a \in Chain(unloader) /\ boundary[a] = "counted"
       THEN "released" ELSE boundary[a]]
  /\ UNCHANGED <<id, registryVars, stack, creationVars, teardownVars, machine, owner,
                 factoryVars, parent, unloader>>

InitiatorsDrained ==
  /\ Quiet /\ initiators = "draining" /\ initiators' = "disposed"
  /\ \A a \in Attempts : boundary[a] # "counted"
  /\ UNCHANGED <<id, registryVars, stack, creationVars, teardownVars, machine, owner,
                 factoryVars, boundary, parent, unloader>>

-----------------------------------------------------------------------------
Init ==
  /\ \E plan \in Plans : id = plan.id /\ kind = plan.kind /\ calls = plan.calls
  /\ stage = [s \in Stores |-> [h \in Holders |-> "out"]]
  /\ deferred = {} /\ stack = <<>>
  /\ pc = [a \in Attempts |-> "none"]
  /\ load = [a \in Attempts |-> "none"]
  /\ abort = [a \in Attempts |-> FALSE]
  /\ machine = [a \in Attempts |-> "none"]
  /\ teardown = [a \in Attempts |-> "none"]
  /\ refused = {} /\ flushed = {}
  /\ owner = [a \in Attempts |-> "active"]
  /\ factory = "active" /\ awaited = {}
  /\ initiators = "active" /\ unloader = NoOne
  /\ boundary = [a \in Attempts |-> "none"]
  /\ parent = [a \in Attempts |-> NoOne]

\* Whose boundary the present call may run in.
Callers == {NoOne} \cup {b \in Attempts : boundary[b] # "none"}

\* What an attempt and the backends it uses may do, at any time or never.
Asks ==
  \E a \in Attempts :
    \/ Create(a) \/ CreateConfigured(a) \/ Resume(a) \/ Restore(a)
    \/ Loaded(a) \/ LoadEnds(a) \/ SetupEnds(a, TRUE) \/ SetupEnds(a, FALSE)

\* What everybody else may do, at any time or never.
Calls ==
  \/ \E h \in Holders : AppendBegins(h)
  \/ \E g \in Guests, s \in Stores : GuestEnters(s, g) \/ GuestLeaves(s, g)
  \/ \E a \in Attempts :
       \/ CallerAborts(a) \/ OwnerUnloads(a)
       \/ Dispose(a) \/ DisposeRefused(a) \/ CloseIfIdle(a)
       \/ \E by \in Callers : Wake(a, by)
  \/ FactoryUnloads
  \/ \E by \in Callers : RegistryUnloads(by)
CountedCalls == calls > 0 /\ Calls /\ calls' = calls - 1

\* Listeners return and settled awaits resume.
Returns ==
  \/ \E h \in Holders : AppendEnds(h)
  \/ \E g \in Guests, s \in Stores : \E veto \in BOOLEAN : GuestTold(s, g, veto)
  \/ \E a \in Attempts :
       \/ \E veto \in BOOLEAN : SessionTold(a, veto) \/ AgentTold(a, veto)
       \/ StartTold(a) \/ SessionLeaves(a)

Continues(a) ==
  \/ FormerLeft(a) \/ RolledBack(a) \/ Stopped(a) \/ ScopeUnwound(a) \/ AgentLeaves(a)
  \/ OwnerEffects(a)
  \/ \E exists \in BOOLEAN : Listed(a, exists)
\* The factory needs the registry, and is unloaded with it.
FactoryContinues ==
  FactoryDisposes \/ FactoryDisposed \/ (initiators # "active" /\ FactoryUnloads)
InitiatorsContinue == DisposeInitiators \/ InitiatorsDrained

Next ==
  \/ CountedCalls
  \/ /\ \/ Asks \/ Returns \/ FactoryContinues \/ InitiatorsContinue
        \/ \E a \in Attempts : Continues(a) \/ AbandonedLoadEnds(a) \/ Converges(a)
     /\ UNCHANGED calls

Spec == Init /\ [][Next]_vars

\* The activity of a may be waiting for the registry's teardown it began, or
\* for the teardown of an agent it woke.
Waits(a) ==
  \/ a = unloader /\ initiators \in {"closing", "draining"}
  \/ \E c \in Attempts : parent[c] = a /\ machine[c] = "busy"
                           /\ teardown[c] \notin {"none", "done"}
Cancelled(a) == teardown[a] = "stopping" /\ ~Waits(a)

\* A cancelled driver converges, an aborted load or setup is given up, a fiber
\* is unloaded with the services it depends on.  A load, a setup or a driver
\* that nobody aborted may last forever.
FairSpec ==
  /\ Spec
  /\ WF_vars(Returns /\ UNCHANGED calls)
  /\ \A a \in Attempts :
       /\ WF_vars(Continues(a) /\ UNCHANGED calls)
       /\ WF_vars(Cancelled(a) /\ Converges(a) /\ UNCHANGED calls)
       /\ WF_vars(abort[a] /\ (LoadEnds(a) \/ SetupEnds(a, FALSE)) /\ UNCHANGED calls)
  /\ WF_vars(FactoryContinues /\ UNCHANGED calls)
  /\ WF_vars(InitiatorsContinue /\ UNCHANGED calls)

-----------------------------------------------------------------------------
(* Properties.                                                             *)

TypeOK ==
  /\ id \in [Holders -> Ids]
  /\ stage \in [Stores -> [Holders ->
       {"out", "entered", "announcing", "announced", "disposed", "dropped"}]]
  /\ deferred \subseteq Stores \X Holders
  /\ \A n \in DOMAIN stack :
       stack[n] \in ({"publish", "leaving"} \X Attempts) \cup ({"append"} \X Holders)
                      \cup (Stores \X Guests)
  /\ Len(stack) <= MaxDepth + 1 /\ calls \in Nat
  /\ kind \in [Holders -> Kinds]
  /\ pc \in [Attempts -> Signalled \cup Settled \cup {"none", "draining", "listing", "failing"}]
  /\ load \in [Attempts -> {"none", "pending", "held", "released"}]
  /\ abort \in [Attempts -> BOOLEAN]
  /\ machine \in [Attempts -> {"none", "idle", "busy", "stranded"}]
  /\ teardown \in [Attempts ->
       {"none", "stopping", "unwinding", "flushing", "leaving", "done"}]
  /\ refused \subseteq Attempts /\ flushed \subseteq Attempts
  /\ owner \in [Attempts -> {"active", "unloading", "unloaded"}]
  /\ factory \in {"active", "unloading", "disposing", "disposed"}
  /\ awaited \subseteq Attempts
  /\ initiators \in {"active", "closing", "draining", "disposed"}
  /\ boundary \in [Attempts -> {"none", "counted", "released"}]
  /\ parent \in [Attempts -> Attempts \cup {NoOne}]
  /\ unloader \in Attempts \cup {NoOne}

\* Holders whose creation a registry is telling right now.
Telling(s) ==
  {g \in Guests : Delivering(s, g)} \cup
  {a \in Attempts : pc[a] = IF s = "agents" THEN "agentWindow" ELSE "sessionWindow"}

AgentDirectory == INSTANCE LifecycleDirectory WITH
  stage <- stage["agents"], telling <- Telling("agents")
SessionDirectory == INSTANCE LifecycleDirectory WITH
  stage <- stage["sessions"], telling <- Telling("sessions")

\* Both registries keep what they promise: one live entry per identity, an
\* entry alive until its whole creation was told, a disposal told of exactly
\* the entries whose creation was.
Directories == AgentDirectory!Spec /\ SessionDirectory!Spec

\* An agent the factory published has its session in the store, and by the
\* time it leaves the registry its driver is at rest, its scope unwound and
\* its session flushed; a teardown that could not cancel the driver is apart.
LeavesQuiescent == \A a \in Attempts \ refused :
  /\ Attached("agents", a) => Attached("sessions", a)
  /\ stage["agents"][a] \in {"disposed", "dropped"}
       => a \in flushed /\ machine[a] = "idle" /\ teardown[a] \in {"leaving", "done"}
  /\ teardown[a] = "done" => ~Attached("sessions", a) /\ machine[a] \in {"none", "idle"}

\* A creation that rejected left nothing behind: no entry, no driver, no
\* reserved log; a synchronous one leaves a teardown in flight at most.
RejectedLeavesNothing == \A a \in Attempts : pc[a] = "rejected" =>
  /\ load[a] # "held"
  /\ Tracked(a) => teardown[a] # "none"
  /\ Attached("agents", a) \/ Attached("sessions", a)
       => kind[a] = "config" \/ Delivering("append", a)

\* Whoever is handed an agent is handed a live one: told of in both registries,
\* leaving neither, torn down by nobody, of a factory that is not closing.
HandedOutAlive == [][\A a \in Attempts : pc[a] # "live" /\ pc'[a] = "live" =>
  /\ \A s \in Stores : stage'[s][a] = "announced" /\ <<s, a>> \notin deferred'
  /\ teardown'[a] = "none" /\ load'[a] # "held"
  /\ factory \in {"active", "unloading"}]_vars

\* Once the factory's teardown resolved nothing of it is alive, being created
\* or being torn down, and nothing of it comes to life again.
FactoryQuiescent == factory = "disposed" => \A a \in Attempts :
  /\ pc[a] \in Settled \cup {"none"}
  /\ teardown[a] = (IF machine[a] = "none" /\ teardown[a] = "none" THEN "none" ELSE "done")
  /\ \A s \in Stores : Attached(s, a) => Appending(a)

\* Every teardown ends, every aborted creation settles and the factory's
\* teardown ends, unless a driver was marked running without running.
Stranded == \E a \in Attempts : machine[a] = "stranded"
LifecyclesSettle ==
  /\ \A a \in Attempts :
       /\ teardown[a] # "none" ~> (teardown[a] = "done" \/ machine[a] = "stranded")
       /\ (pc[a] \notin Settled /\ abort[a]) ~> (pc[a] \in Settled \/ machine[a] = "stranded")
  /\ factory # "active" ~> (factory = "disposed" \/ Stranded)

\* The registry's teardown outlasts the drivers it drains and ends even when
\* it was begun inside the boundary of one of them.
InitiatorsDrain ==
  initiators = "closing" ~> (initiators = "disposed" \/ \E a \in refused : machine[a] = "busy")
=============================================================================
