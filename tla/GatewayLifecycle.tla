-------------------------- MODULE GatewayLifecycle --------------------------
(***************************************************************************)
(* start() and stop() of GatewayService, with the core gateway process     *)
(* that start() spawns, the HTTP server it opens and the marker by which a *)
(* later run of the application recognises a core gateway left behind.     *)
(*                                                                         *)
(* Calls run on one event loop and interleave at their awaits.  start()    *)
(* begins with a stop() of what runs, and ends with one if it fails; and a *)
(* stop() can fail itself, before it writes the state.  The process can    *)
(* die at any moment; its exit event arrives later.  The application can   *)
(* crash; the process then sees its IPC channel close.                     *)
(*                                                                         *)
(* A start spawns at most one process and opens at most one server, so     *)
(* both are named after the call.                                          *)
(***************************************************************************)
EXTENDS Integers, FiniteSets

CONSTANTS Starts,      \* calls of start
          Ensures,     \* those of them made by ensureStarted
          ServerOnly,  \* those whose configuration needs no core gateway
          Disabled,    \* those whose configuration needs no server either
          Stops,       \* calls of stop
          None,
          Overlapping, \* may a call begin while another one is under way?
          MaxFaults,   \* bound: core gateways that die unasked
          MaxCrashes   \* bound: crashes of the application

Calls == Starts \union Stops

ASSUME LifecycleAssumption ==
    /\ Ensures \subseteq Starts
    /\ ServerOnly \subseteq Starts /\ Disabled \subseteq ServerOnly
    /\ Starts \intersect Stops = {} /\ None \notin Calls
    /\ Overlapping \in BOOLEAN
    /\ {MaxFaults, MaxCrashes} \subseteq Nat

VARIABLES
    state,   \* this.status.state
    child,   \* this.child
    server,  \* this.server
    open,    \* servers that listen on the gateway port
    marker,  \* the core gateway the persisted runtime state names
    proc,    \* per start: its core gateway process
    orphans, \* processes of an application that crashed
    pc,      \* where each call is
    phase,   \* what the stop() inside a call is for
    seen,    \* the process the marker named when a start looked
    asked,   \* history: the call that was begun last is a stop()
    stale,   \* history: the last stop() failed before it wrote the state
    faults, crashes

serviceVars == <<state, child, server, open>>
history == <<asked, stale>>
vars == <<serviceVars, marker, proc, orphans, pc, phase, seen, history, faults, crashes>>

\* killed is child.killed, term a signal on its way, known a delivered exit event.
Process == [life : {"none", "booting", "serving", "dead"},
            served : BOOLEAN, killed : BOOLEAN, term : BOOLEAN, known : BOOLEAN]

NoProcess == [life |-> "none", served |-> FALSE, killed |-> FALSE,
              term |-> FALSE, known |-> FALSE]

Alive(p) == proc[p].life \in {"booting", "serving"}
Serving == {p \in Starts : proc[p].life = "serving"}

Over == {"new", "done", "lost"}
Idle == \A c \in Calls : pc[c] \in Over

TypeOK ==
    /\ state \in {"stopped", "starting", "running", "error"}
    /\ {child, server, marker} \subseteq Starts \union {None}
    /\ open \subseteq Starts /\ Cardinality(open) <= 1
    /\ proc \in [Starts -> Process] /\ Cardinality(Serving) <= 1
    /\ orphans \subseteq Starts
    /\ pc \in [Calls -> Over \union {"wait", "services", "prepare", "plugins", "compile",
                                     "identify", "terminate", "health", "accept", "ready", "serve"}]
    /\ phase \in [Calls -> {"stop", "before", "failed"}]
    /\ seen \in [Starts -> Starts \union {None}]
    /\ {asked, stale} \subseteq BOOLEAN

Init ==
    /\ state = "stopped" /\ child = None /\ server = None /\ open = {}
    /\ marker = None
    /\ proc = [c \in Starts |-> NoProcess]
    /\ orphans = {}
    /\ pc = [c \in Calls |-> "new"]
    /\ phase = [c \in Calls |-> IF c \in Stops THEN "stop" ELSE "before"]
    /\ seen = [c \in Starts |-> None]
    /\ asked = FALSE /\ stale = FALSE
    /\ faults = 0 /\ crashes = 0

Go(c, to) == pc' = [pc EXCEPT ![c] = to]

-----------------------------------------------------------------------------
(* stop()                                                                  *)

\* stop() that clears this.child before it looks for one to kill.
StoppingAfterClearing(c, ch, srv) ==
    /\ child' = None
    /\ server' = None
    /\ open' = open \ {srv}
    /\ Go(c, "services")
    /\ UNCHANGED proc

\* stop() up to its first await, where this.child is ch and this.server is srv.
Stopping(c, ch, srv) ==
    /\ child' = None
    /\ IF ch # None
       THEN /\ proc' = [proc EXCEPT ![ch].killed = TRUE, ![ch].term = TRUE]
            /\ server' = srv
            /\ Go(c, "wait")
            /\ UNCHANGED open
       ELSE /\ server' = None
            /\ open' = open \ {srv}
            /\ Go(c, "services")
            /\ UNCHANGED proc

\* stop() that waits for the end of the core gateway, however long it takes.
StopWaitedForever(c) ==
    /\ pc[c] = "wait" /\ Serving = {}
    /\ marker' = None
    /\ server' = None
    /\ open' = open \ {server}
    /\ Go(c, "services")
    /\ UNCHANGED <<state, child, proc, orphans, phase, seen, history, faults, crashes>>

\* The core gateway is no longer healthy, or it was polled for two seconds.
StopWaited(c) ==
    /\ pc[c] = "wait"
    /\ marker' = None
    /\ server' = None
    /\ open' = open \ {server}
    /\ Go(c, "services")
    /\ UNCHANGED <<state, child, proc, orphans, phase, seen, history, faults, crashes>>

\* The connections, raw traces, scripts, media, proxy, plugins and backends
\* ended; or ending one of them failed (media, for one, writes its jobs), and the
\* call is rejected with its state unwritten, also inside start().
StopEnds(c) ==
    /\ pc[c] = "services"
    /\ \/ /\ state' = IF phase[c] = "failed" THEN "error" ELSE "stopped"
          /\ Go(c, IF phase[c] = "before" THEN "prepare" ELSE "done")
          /\ stale' = FALSE
       \/ /\ Go(c, "done")
          /\ stale' = TRUE
          /\ UNCHANGED state
    /\ UNCHANGED <<child, server, open, marker, proc, orphans, phase, seen, asked,
                   faults, crashes>>

\* A start whose configuration is refused touches nothing but the state.
Begin(c) ==
    /\ pc[c] = "new"
    /\ Overlapping \/ Idle
    /\ asked' = (c \in Stops)
    /\ \/ /\ ~(c \in Ensures /\ state = "running")
          /\ Stopping(c, child, server)
          /\ UNCHANGED state
       \/ /\ c \in Ensures /\ state = "running"
          /\ Go(c, "done")
          /\ UNCHANGED <<serviceVars, proc>>
       \/ /\ c \in Starts /\ ~(c \in Ensures /\ state = "running")
          /\ state' = "error"
          /\ Go(c, "done")
          /\ UNCHANGED <<child, server, open, proc>>
    /\ UNCHANGED <<marker, orphans, phase, seen, stale, faults, crashes>>

-----------------------------------------------------------------------------
(* start()                                                                 *)

\* An error inside start(): it is caught and everything is stopped.
Throw(c, ch, srv) ==
    /\ phase' = [phase EXCEPT ![c] = "failed"]
    /\ Stopping(c, ch, srv)

Prepared(c) ==
    /\ pc[c] = "prepare"
    /\ state' = "starting"
    /\ Go(c, "plugins")
    /\ UNCHANGED <<child, server, open, marker, proc, orphans, phase, seen, history,
                   faults, crashes>>

\* Neither a server nor a core gateway is wanted: the services are ended again.
Unneeded(c) ==
    /\ pc[c] = "plugins" /\ c \in Disabled
    /\ \/ /\ state' = "stopped"
          /\ Go(c, "done")
          /\ UNCHANGED <<child, server, open, proc, phase>>
       \/ Throw(c, child, server) /\ UNCHANGED state
    /\ UNCHANGED <<marker, orphans, seen, history, faults, crashes>>

Listen(c) ==
    /\ pc[c] = "plugins" /\ c \notin Disabled
    /\ \/ /\ open = {}
          /\ server' = c
          /\ open' = {c}
          /\ Go(c, IF c \in ServerOnly THEN "serve" ELSE "compile")
          /\ UNCHANGED <<child, proc, phase>>
       \/ /\ open # {}
          /\ Throw(c, child, c)
       \/ Throw(c, child, server)    \* a plugin failed, or there is no model
    /\ UNCHANGED <<state, marker, orphans, seen, history, faults, crashes>>

\* The proxy is attached to the server, and no core gateway is wanted.
ServesAlone(c) ==
    /\ pc[c] = "serve"
    /\ state' = "running"
    /\ Go(c, "done")
    /\ UNCHANGED <<child, server, open, marker, proc, orphans, phase, seen, history,
                   faults, crashes>>

\* stopPreviousManagedCoreGateway reads the marker.
LookForPrevious(c) ==
    /\ pc[c] = "compile"
    /\ seen' = [seen EXCEPT ![c] = marker]
    /\ IF marker # None /\ Alive(marker)
       THEN Go(c, "identify") /\ UNCHANGED marker
       ELSE Go(c, "health") /\ marker' = None
    /\ UNCHANGED <<serviceVars, proc, orphans, phase, history, faults, crashes>>

\* Only a process that answers health requests as the marked one is stopped.
Identify(c) ==
    /\ pc[c] = "identify"
    /\ \/ /\ seen[c] \in Serving
          /\ proc' = [proc EXCEPT ![seen[c]].term = TRUE]
          /\ Go(c, "terminate")
          /\ UNCHANGED marker
       \/ /\ marker' = None          \* another one, or no answer in time
          /\ Go(c, "health")
          /\ UNCHANGED proc
    /\ UNCHANGED <<serviceVars, orphans, phase, seen, history, faults, crashes>>

\* It stops within two seconds or is killed.
Terminated(c) ==
    /\ pc[c] = "terminate"
    /\ proc' = IF seen[c] \in Serving THEN [proc EXCEPT ![seen[c]].life = "dead"] ELSE proc
    /\ marker' = None
    /\ Go(c, "health")
    /\ UNCHANGED <<serviceVars, orphans, phase, seen, history, faults, crashes>>

\* The port must be free, or else StartFails; a health request that times out
\* counts as free.
Spawn(c) ==
    /\ pc[c] = "health"
    /\ child' = c
    /\ proc' = [proc EXCEPT ![c] = [NoProcess EXCEPT !.life = "booting"]]
    /\ marker' = c
    /\ Go(c, "accept")
    /\ UNCHANGED <<state, server, open, orphans, phase, seen, history, faults, crashes>>

\* An assertion that looks at child.killed alone.
ContinuesUnlessKilled(c) == ~proc[c].killed

\* assertManagedGatewayStartupContinues
Continues(c) == ~proc[c].known /\ ~proc[c].killed

Accepted(c) ==
    /\ pc[c] = "accept"
    /\ Continues(c)
    /\ Go(c, "ready")
    /\ UNCHANGED <<serviceVars, marker, proc, orphans, phase, seen, history, faults, crashes>>

\* The process answered a health request under its own runtime id.
Ready(c) ==
    /\ pc[c] = "ready"
    /\ proc[c].served /\ Continues(c)
    /\ state' = "running"
    /\ Go(c, "done")
    /\ UNCHANGED <<child, server, open, marker, proc, orphans, phase, seen, history,
                   faults, crashes>>

\* The proxy cannot be attached, the configuration cannot be compiled, the
\* marker not be removed, the port is in use; and of the core gateway, a timeout,
\* its exit or kill, or another runtime on the port.
StartFails(c) ==
    /\ pc[c] \in {"serve", "compile", "identify", "health", "accept", "ready"}
    /\ Throw(c, child, server)
    /\ UNCHANGED <<state, marker, orphans, seen, history, faults, crashes>>

-----------------------------------------------------------------------------
(* The core gateway process.                                               *)

\* A core gateway that binds its port for shared use.
BootsOnSharedPort(p) ==
    /\ proc[p].life = "booting"
    /\ proc' = [proc EXCEPT ![p].life = "serving", ![p].served = TRUE]
    /\ UNCHANGED <<serviceVars, marker, orphans, pc, phase, seen, history, faults, crashes>>

Boots(p) ==
    /\ proc[p].life = "booting"
    /\ proc' = IF Serving = {}
               THEN [proc EXCEPT ![p].life = "serving", ![p].served = TRUE]
               ELSE [proc EXCEPT ![p].life = "dead"]    \* the port is taken
    /\ UNCHANGED <<serviceVars, marker, orphans, pc, phase, seen, history, faults, crashes>>

Dies(p) ==
    /\ Alive(p)
    /\ \/ (proc[p].term \/ p \in orphans) /\ UNCHANGED faults
       \/ faults < MaxFaults /\ faults' = faults + 1
    /\ proc' = [proc EXCEPT ![p].life = "dead"]
    /\ UNCHANGED <<serviceVars, marker, orphans, pc, phase, seen, history, crashes>>

\* Its exit event: handleCoreGatewayTermination.
ExitEvent(p) ==
    /\ proc[p].life = "dead" /\ ~proc[p].known /\ p \notin orphans
    /\ proc' = [proc EXCEPT ![p].known = TRUE]
    /\ IF child = p /\ state # "stopped"
       THEN child' = None /\ marker' = None /\ state' = "error"
       ELSE UNCHANGED <<child, marker, state>>
    /\ UNCHANGED <<server, open, orphans, pc, phase, seen, history, faults, crashes>>

\* The application dies; what it had in memory and its sockets are gone.
Crash ==
    /\ crashes < MaxCrashes
    /\ crashes' = crashes + 1
    /\ state' = "stopped" /\ child' = None /\ server' = None /\ open' = {}
    /\ orphans' = {p \in Starts : proc[p].life # "none"}
    /\ pc' = [c \in Calls |-> IF pc[c] \in Over THEN pc[c] ELSE "lost"]
    /\ stale' = FALSE
    /\ UNCHANGED <<marker, proc, phase, seen, asked, faults>>

StartStep(c) ==
    \/ Prepared(c) \/ Unneeded(c) \/ Listen(c) \/ ServesAlone(c)
    \/ LookForPrevious(c) \/ Identify(c) \/ Terminated(c)
    \/ Spawn(c) \/ Accepted(c) \/ Ready(c) \/ StartFails(c)

StopStep(c) == StopWaited(c) \/ StopEnds(c)

Next ==
    \/ \E c \in Calls : Begin(c) \/ StopStep(c)
    \/ \E c \in Starts : StartStep(c) \/ Boots(c) \/ Dies(c) \/ ExitEvent(c)
    \/ Crash

Spec == Init /\ [][Next]_vars

\* Awaited promises settle: every one of them has a timer or ends with a process.
Fairness ==
    /\ \A c \in Calls : WF_vars(StopStep(c))
    /\ \A c \in Starts : WF_vars(StartStep(c))
FairSpec == Spec /\ Fairness

-----------------------------------------------------------------------------
(* Properties.                                                             *)

Unattended == {p \in Starts : Alive(p) /\ ~proc[p].term /\ p \notin orphans}

\* When calls do not overlap, nothing is forgotten: at most one core gateway is
\* left running unsignalled at any time, and between calls it is this.child and
\* the server that listens is this.server, however starts failed before.
NothingForgotten ==
    /\ Cardinality(Unattended) <= 1
    /\ Idle => Unattended \subseteq {child} /\ open \subseteq {server}

\* Between calls the reported state is true: "running" has a listening server
\* and, unless the start that opened it wanted none, the core gateway of the same
\* start, which was ready and whose end was not announced; "stopped" has neither.
\* The one exception is a stop(), alone or inside a start, that failed half-way:
\* then the state may be any, whatever ensureStarted answers, but nothing is
\* there, until a stop() that succeeds makes the state true again.
StatusTruthful ==
    Idle => IF stale THEN child = None /\ open = {}
            ELSE /\ state = "running" =>
                     /\ server \in open
                     /\ server \notin ServerOnly =>
                         /\ child = server
                         /\ proc[child].served /\ ~proc[child].known
                 /\ state = "stopped" => child = None /\ open = {}
                 /\ state # "starting"

\* Every call returns, or is lost with the application, whether the core gateway
\* becomes ready, dies or ignores its signal.
EveryCallReturns == \A c \in Calls : []<>(pc[c] \in Over)

\* The user interface offers Stop while the gateway is starting and then reports
\* that the service is paused: after a stop that did not fail and that no start
\* followed, nothing runs.
StopHolds ==
    Idle /\ asked /\ ~stale =>
        child = None /\ open = {} /\ state # "running"
=============================================================================
