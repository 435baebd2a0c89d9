------------------------ MODULE GatewayLifecycleProofs ------------------------
(***************************************************************************)
(* When calls do not overlap, the lifecycle of the gateway forgets neither *)
(* a core gateway nor a server and reports its true state; for any number  *)
(* of calls, failing starts, dying core gateways and crashes.              *)
(***************************************************************************)
EXTENDS GatewayLifecycle, FiniteSetTheorems, TLAPS

Places == Over \union {"wait", "services", "prepare", "plugins", "compile", "identify",
                       "terminate", "health", "accept", "ready", "serve"}

\* TypeOK without its two cardinalities.
Shape ==
    /\ state \in {"stopped", "starting", "running", "error"}
    /\ {child, server, marker} \subseteq Starts \union {None}
    /\ open \subseteq Starts
    /\ proc \in [Starts -> Process]
    /\ orphans \subseteq Starts
    /\ pc \in [Calls -> Places]
    /\ phase \in [Calls -> {"stop", "before", "failed"}]
    /\ seen \in [Starts -> Starts \union {None}]
    /\ asked \in BOOLEAN /\ stale \in BOOLEAN

\* The core gateways share one port.
OneServes == \A p, q \in Serving : p = q

\* A call that is neither over nor yet to begin.
Active(c) == pc[c] \notin Over

\* Calls do not overlap.
Sole == \A c, d \in Calls : Active(c) /\ Active(d) => c = d

\* A stop inside a start comes back to the start unless the start has failed.
Phases ==
    \A c \in Calls :
        /\ c \in Stops => phase[c] = "stop" /\ pc[c] \in Over \union {"wait", "services"}
        /\ c \in Starts => phase[c] \in {"before", "failed"}
        /\ c \in Starts /\ pc[c] = "new" => phase[c] = "before"

\* Before a start comes to spawn its core gateway, it has none.
BeforeSpawn(c) ==
    \/ pc[c] \in {"new", "prepare", "plugins", "compile", "identify", "terminate", "health"}
    \/ pc[c] \in {"wait", "services"} /\ phase[c] = "before"

Unspawned ==
    /\ \A c \in Starts : BeforeSpawn(c) => proc[c].life = "none"
    /\ \A c \in orphans : proc[c].life # "none"

\* What a call finds in this.child and this.server, stage by stage.
Stages ==
    \A c \in Calls :
        /\ pc[c] \in {"wait", "services", "prepare", "plugins", "compile", "identify",
                      "terminate", "health", "serve"} => child = None
        /\ pc[c] \in {"services", "prepare", "plugins"} => server = None
        /\ pc[c] \in {"compile", "identify", "terminate", "health", "accept", "ready"}
              => server = c /\ open = {c} /\ c \notin ServerOnly
        /\ pc[c] = "serve" => server = c /\ open = {c} /\ c \in ServerOnly
        /\ pc[c] \in {"accept", "ready"} /\ ~proc[c].known => child = c
        /\ pc[c] \in {"prepare", "plugins", "compile", "identify", "terminate", "health",
                      "accept", "ready", "serve"} => ~stale

Attended == Unattended \subseteq {child}

Listening == open \subseteq {server}

LifeInv ==
    /\ Shape
    /\ OneServes
    /\ Sole
    /\ Phases
    /\ Unspawned
    /\ Stages
    /\ Attended
    /\ Listening
    /\ StatusTruthful

-----------------------------------------------------------------------------
(* Consequences of the invariant.                                          *)

LEMMA AtMostOne ==
    ASSUME NEW S, \A x, y \in S : x = y
    PROVE  Cardinality(S) <= 1
<1>1. CASE S = {}
  BY <1>1, FS_EmptySet
<1>2. CASE S # {}
  <2>1. PICK x \in S : S = {x}
    BY <1>2
  <2> QED BY <2>1, FS_Singleton
<1> QED BY <1>1, <1>2

LEMMA LifeInvImpliesTypeOK == LifeInv => TypeOK
<1> SUFFICES ASSUME LifeInv PROVE TypeOK
  OBVIOUS
<1>1. Cardinality(open) <= 1
  BY AtMostOne DEF LifeInv, Listening
<1>2. Cardinality(Serving) <= 1
  BY AtMostOne DEF LifeInv, OneServes
<1> QED BY <1>1, <1>2 DEF LifeInv, Shape, TypeOK, Places

LEMMA LifeInvImpliesNothingForgotten == LifeInv => NothingForgotten
<1> SUFFICES ASSUME LifeInv PROVE NothingForgotten
  OBVIOUS
<1>1. Cardinality(Unattended) <= 1
  BY AtMostOne DEF LifeInv, Attended
<1> QED BY <1>1 DEF LifeInv, NothingForgotten, Attended, Listening

LEMMA InitLife == Init => LifeInv
<1> SUFFICES ASSUME Init PROVE LifeInv
  OBVIOUS
<1> USE LifecycleAssumption DEF Init
<1>1. \A c \in Starts : proc[c] = NoProcess
  OBVIOUS
<1>2. Unattended = {} /\ Serving = {}
  BY <1>1 DEF Unattended, Alive, NoProcess, Serving
<1>3. Shape /\ OneServes
  <2>1. NoProcess \in Process
    BY DEF NoProcess, Process
  <2> QED BY <1>2, <2>1 DEF Shape, OneServes, Places, Over
<1>4. Sole /\ Phases /\ Unspawned /\ Stages
  BY <1>1 DEF Sole, Active, Over, Phases, Unspawned, NoProcess, Stages, Calls
<1>5. Attended /\ Listening /\ StatusTruthful
  BY <1>2 DEF Attended, Listening, StatusTruthful
<1> QED BY <1>3, <1>4, <1>5 DEF LifeInv

-----------------------------------------------------------------------------
(* What one step of one call leaves alone.                                 *)

\* A call that moves while it is under way, or begins alone, stays the only one.
LEMMA MoveKeepsSole ==
    ASSUME LifeInv, NEW c \in Calls, Active(c) \/ Idle, NEW to, Go(c, to)
    PROVE  /\ Sole'
           /\ \A d \in Calls \ {c} : pc[d] \in Over /\ pc'[d] = pc[d]
           /\ pc'[c] = to
           /\ to \notin Over => ~Idle'
<1> USE DEF LifeInv, Shape, Go
<1>1. \A d \in Calls \ {c} : pc[d] \in Over /\ pc'[d] = pc[d]
  BY DEF Sole, Active, Idle
<1>2. pc'[c] = to
  OBVIOUS
<1>3. Sole'
  BY <1>1 DEF Sole, Active
<1>4. to \notin Over => ~Idle'
  BY <1>2 DEF Idle
<1> QED BY <1>1, <1>2, <1>3, <1>4

\* Processes that stay, end or are signalled do not disturb the invariant.
Quieter ==
    \A p \in Starts :
        /\ proc'[p].life = proc[p].life \/ (proc'[p].life = "dead" /\ proc[p].life # "none")
        /\ proc[p].term => proc'[p].term

LEMMA QuieterProcesses ==
    ASSUME LifeInv, Quieter, orphans' = orphans
    PROVE  OneServes' /\ Serving' \subseteq Serving /\ Unattended' \subseteq Unattended
<1>1. \A p \in Starts : Alive(p)' => Alive(p)
  BY DEF Quieter, Alive
<1>2. Serving' \subseteq Serving
  BY DEF Quieter, Serving
<1>3. Unattended' \subseteq Unattended
  BY <1>1 DEF Quieter, Unattended
<1> QED BY <1>2, <1>3 DEF LifeInv, OneServes

-----------------------------------------------------------------------------
(* stop().                                                                 *)

\* What the synchronous part of stop() reaches.
LEMMA StoppingReaches ==
    ASSUME LifeInv, NEW c \in Calls, NEW srv, Stopping(c, child, srv),
           srv = server \/ (child = None /\ server = None),
           Active(c) \/ Idle, UNCHANGED orphans
    PROVE  /\ proc' \in [Starts -> Process] /\ Quieter
           /\ child' = None /\ Unattended' = {}
           /\ pc'[c] \in {"wait", "services"}
           /\ pc'[c] = "services" => server' = None
           /\ server' \in Starts \union {None} /\ open' \subseteq {server'}
           /\ open' \subseteq Starts
           /\ \A p \in Starts : proc'[p].life = proc[p].life /\ proc'[p].known = proc[p].known
           /\ \A d \in Calls \ {c} : pc[d] \in Over /\ pc'[d] = pc[d]
           /\ pc' \in [Calls -> Places]
           /\ Sole' /\ ~Idle'
<1> USE LifecycleAssumption
<1>0. PICK to \in {"wait", "services"} : Go(c, to)
  BY DEF Stopping
<1>1. /\ pc'[c] = to /\ Sole' /\ ~Idle'
      /\ \A d \in Calls \ {c} : pc[d] \in Over /\ pc'[d] = pc[d]
  BY <1>0, MoveKeepsSole DEF Over
<1>2. pc' \in [Calls -> Places]
  BY <1>0 DEF LifeInv, Shape, Go, Places
<1>3. CASE child # None
  <2>1. child \in Starts
    BY <1>3 DEF LifeInv, Shape
  <2>2. /\ proc' = [proc EXCEPT ![child].killed = TRUE, ![child].term = TRUE]
        /\ server' = srv /\ open' = open /\ Go(c, "wait") /\ child' = None
        /\ srv = server
    BY <1>3 DEF Stopping
  <2>3. proc \in [Starts -> Process]
    BY DEF LifeInv, Shape
  <2>4. /\ proc' \in [Starts -> Process]
        /\ \A p \in Starts : proc'[p].life = proc[p].life /\ proc'[p].known = proc[p].known
        /\ \A p \in Starts : proc[p].term => proc'[p].term
        /\ proc'[child].term
    BY <2>1, <2>2, <2>3 DEF Process
  <2>5. Quieter
    BY <2>4 DEF Quieter
  <2>6. Unattended' = {}
    <3>1. Unattended' \subseteq {child}
      BY <2>5, QuieterProcesses DEF LifeInv, Attended
    <3> QED BY <3>1, <2>4 DEF Unattended
  <2>7. pc'[c] = "wait"
    BY <2>2 DEF LifeInv, Shape, Go
  <2> QED BY <1>1, <1>2, <2>2, <2>4, <2>5, <2>6, <2>7 DEF LifeInv, Listening, Shape
<1>4. CASE child = None
  <2>1. /\ server' = None /\ open' = open \ {srv} /\ Go(c, "services") /\ child' = None
        /\ proc' = proc
    BY <1>4 DEF Stopping
  <2>2. open' = {}
    <3>1. open \subseteq {server} /\ open \subseteq Starts
      BY DEF LifeInv, Listening, Shape
    <3> QED BY <3>1, <2>1 DEF Calls
  <2>3. proc' \in [Starts -> Process] /\ Quieter
    BY <2>1 DEF LifeInv, Shape, Quieter
  <2>4. Unattended' = {}
    <3>1. Unattended' \subseteq {None} /\ Unattended' \subseteq Starts
      BY <2>3, <1>4, QuieterProcesses DEF LifeInv, Attended, Unattended
    <3> QED BY <3>1 DEF Calls
  <2> QED BY <1>0, <1>1, <1>2, <2>1, <2>2, <2>3, <2>4
<1> QED BY <1>3, <1>4

\* A stop() that is part of a call leads from the invariant to the invariant.
LEMMA StoppingKeeps ==
    ASSUME LifeInv, NEW c \in Calls, NEW srv, Stopping(c, child, srv),
           srv = server \/ (child = None /\ server = None),
           Active(c) \/ Idle,
           \/ (phase' = phase /\ pc[c] = "new")
           \/ (phase' = [phase EXCEPT ![c] = "failed"] /\ c \in Starts),
           UNCHANGED <<state, marker, orphans, seen, stale>>, asked' \in BOOLEAN
    PROVE  LifeInv'
<1> USE LifecycleAssumption
<1>1. /\ proc' \in [Starts -> Process] /\ Quieter
      /\ child' = None /\ Unattended' = {}
      /\ pc'[c] \in {"wait", "services"}
      /\ pc'[c] = "services" => server' = None
      /\ server' \in Starts \union {None} /\ open' \subseteq {server'}
      /\ open' \subseteq Starts
      /\ \A p \in Starts : proc'[p].life = proc[p].life /\ proc'[p].known = proc[p].known
      /\ \A d \in Calls \ {c} : pc[d] \in Over /\ pc'[d] = pc[d]
      /\ pc' \in [Calls -> Places]
      /\ Sole' /\ ~Idle'
  BY StoppingReaches
<1>2. /\ phase' \in [Calls -> {"stop", "before", "failed"}]
      /\ \A d \in Calls \ {c} : phase'[d] = phase[d]
      /\ phase'[c] = "failed" \/ phase'[c] = phase[c]
      /\ phase'[c] = "before" => pc[c] = "new"
      /\ c \in Stops => phase'[c] = phase[c]
  BY DEF LifeInv, Shape, Calls
<1>3. Shape'
  BY <1>1, <1>2 DEF LifeInv, Shape
<1>4. OneServes'
  BY <1>1, QuieterProcesses
<1>5. Phases'
  <2> SUFFICES ASSUME NEW d \in Calls
               PROVE  /\ d \in Stops => phase'[d] = "stop" /\ pc'[d] \in Over \union {"wait", "services"}
                      /\ d \in Starts => phase'[d] \in {"before", "failed"}
                      /\ d \in Starts /\ pc'[d] = "new" => phase'[d] = "before"
    BY DEF Phases
  <2>1. CASE d = c
    BY <1>1, <1>2, <2>1 DEF LifeInv, Phases, Over
  <2>2. CASE d # c
    BY <1>1, <1>2, <2>2 DEF LifeInv, Phases
  <2> QED BY <2>1, <2>2
<1>6. Unspawned'
  <2>1. ASSUME NEW d \in Starts, BeforeSpawn(d)' PROVE BeforeSpawn(d)
    <3>1. CASE d = c
      BY <1>1, <1>2, <2>1, <3>1 DEF BeforeSpawn
    <3>2. CASE d # c
      BY <1>1, <1>2, <2>1, <3>2 DEF BeforeSpawn, Calls
    <3> QED BY <3>1, <3>2
  <2> QED BY <2>1, <1>1 DEF LifeInv, Shape, Unspawned
<1>7. Stages'
  <2> SUFFICES ASSUME NEW d \in Calls, d # c PROVE pc'[d] \in Over
    BY <1>1 DEF Stages, Over
  <2> QED BY <1>1
<1>8. Attended' /\ Listening' /\ StatusTruthful'
  BY <1>1 DEF Attended, Listening, StatusTruthful
<1> QED BY <1>1, <1>3, <1>4, <1>5, <1>6, <1>7, <1>8 DEF LifeInv

LEMMA BeginKeeps ==
    ASSUME LifeInv, ~Overlapping, NEW c \in Calls, Begin(c)
    PROVE  LifeInv'
<1>1. /\ pc[c] = "new" /\ Idle /\ UNCHANGED <<marker, orphans, phase, seen, stale>>
      /\ asked' \in BOOLEAN
  BY DEF Begin
<1>2. CASE Go(c, "done") /\ (state' = state \/ state' = "error") /\ UNCHANGED <<child, server, open, proc>>
  <2> USE LifecycleAssumption
  <2>1. Go(c, "done") /\ UNCHANGED <<child, server, open, proc>>
    BY <1>2
  <2>2. /\ Sole' /\ pc'[c] = "done"
        /\ \A d \in Calls \ {c} : pc[d] \in Over /\ pc'[d] = pc[d]
    BY <1>1, <2>1, MoveKeepsSole
  <2>3. pc' \in [Calls -> Places]
    BY <2>1 DEF LifeInv, Shape, Go, Places, Over
  <2>4. Quieter
    BY <2>1 DEF Quieter
  <2>5. Shape' /\ OneServes'
    BY <1>1, <1>2, <2>1, <2>3, <2>4, QuieterProcesses DEF LifeInv, Shape
  <2>6. Phases'
    BY <1>1, <2>2 DEF LifeInv, Phases, Over
  <2>7. Unspawned'
    BY <1>1, <2>1, <2>2 DEF LifeInv, Unspawned, BeforeSpawn, Calls
  <2>8. Stages'
    BY <2>2 DEF Stages, Over
  <2>9. Attended' /\ Listening'
    BY <1>1, <2>1, <2>4, QuieterProcesses DEF LifeInv, Attended, Listening
  <2>10. StatusTruthful'
    BY <1>1, <1>2, <2>1 DEF LifeInv, StatusTruthful
  <2> QED BY <2>2, <2>5, <2>6, <2>7, <2>8, <2>9, <2>10 DEF LifeInv
<1>3. CASE Stopping(c, child, server) /\ UNCHANGED state
  BY <1>1, <1>3, StoppingKeeps
<1> QED BY <1>2, <1>3 DEF Begin, serviceVars

LEMMA StopWaitedKeeps ==
    ASSUME LifeInv, NEW c \in Calls, StopWaited(c)
    PROVE  LifeInv'
<1> USE LifecycleAssumption
<1>1. /\ pc[c] = "wait" /\ Go(c, "services") /\ server' = None /\ open' = open \ {server}
      /\ marker' = None
      /\ UNCHANGED <<state, child, proc, orphans, phase, seen, asked, stale>>
  BY DEF StopWaited, history
<1>2. /\ Sole' /\ pc'[c] = "services" /\ ~Idle'
      /\ \A d \in Calls \ {c} : pc[d] \in Over /\ pc'[d] = pc[d]
  BY <1>1, MoveKeepsSole DEF Active, Over
<1>3. open' = {} /\ child = None
  BY <1>1 DEF LifeInv, Listening, Stages
<1>4. pc' \in [Calls -> Places]
  BY <1>1 DEF LifeInv, Shape, Go, Places
<1>5. Quieter
  BY <1>1 DEF Quieter
<1>6. Shape' /\ OneServes'
  BY <1>1, <1>3, <1>4, <1>5, QuieterProcesses DEF LifeInv, Shape
<1>7. Phases'
  BY <1>1, <1>2 DEF LifeInv, Phases
<1>8. Unspawned'
  <2>1. ASSUME NEW d \in Starts, BeforeSpawn(d)' PROVE BeforeSpawn(d)
    BY <1>1, <1>2, <2>1 DEF BeforeSpawn, Calls
  <2> QED BY <1>1, <2>1 DEF LifeInv, Unspawned
<1>9. Stages'
  BY <1>1, <1>2, <1>3 DEF Stages, Over
<1>10. Attended' /\ Listening' /\ StatusTruthful'
  BY <1>1, <1>2, <1>3, <1>5, QuieterProcesses
  DEF LifeInv, Attended, Listening, StatusTruthful
<1> QED BY <1>2, <1>6, <1>7, <1>8, <1>9, <1>10 DEF LifeInv

LEMMA StopEndsKeeps ==
    ASSUME LifeInv, NEW c \in Calls, StopEnds(c)
    PROVE  LifeInv'
<1> USE LifecycleAssumption
<1>1. PICK to \in {"prepare", "done"} :
        /\ pc[c] = "services" /\ Go(c, to)
        /\ \/ state' \in {"error", "stopped"} /\ stale' = FALSE
           \/ state' = state /\ stale' = TRUE /\ to = "done"
        /\ to = "prepare" => phase[c] = "before"
        /\ UNCHANGED <<child, server, open, marker, proc, orphans, phase, seen, asked>>
  BY DEF StopEnds
<1>2. /\ Sole' /\ pc'[c] = to
      /\ \A d \in Calls \ {c} : pc[d] \in Over /\ pc'[d] = pc[d]
  BY <1>1, MoveKeepsSole DEF Active, Over
<1>3. child = None /\ server = None /\ open = {}
  <2>1. child = None /\ server = None
    BY <1>1 DEF LifeInv, Stages
  <2> QED BY <2>1 DEF LifeInv, Listening, Shape, Calls
<1>4. pc' \in [Calls -> Places]
  BY <1>1 DEF LifeInv, Shape, Go, Places, Over
<1>5. Quieter
  BY <1>1 DEF Quieter
<1>6. Shape' /\ OneServes'
  BY <1>1, <1>4, <1>5, QuieterProcesses DEF LifeInv, Shape
<1>7. Phases'
  <2>1. c \in Stops => to = "done"
    BY <1>1 DEF LifeInv, Phases
  <2> QED BY <1>1, <1>2, <2>1 DEF LifeInv, Phases, Over
<1>8. Unspawned'
  <2>1. ASSUME NEW d \in Starts, BeforeSpawn(d)' PROVE BeforeSpawn(d)
    BY <1>1, <1>2, <2>1 DEF BeforeSpawn, Calls
  <2> QED BY <1>1, <2>1 DEF LifeInv, Unspawned
<1>9. Stages'
  BY <1>1, <1>2, <1>3 DEF Stages, Over
<1>10. Attended' /\ Listening' /\ StatusTruthful'
  BY <1>1, <1>3, <1>5, QuieterProcesses
  DEF LifeInv, Attended, Listening, StatusTruthful
<1> QED BY <1>2, <1>6, <1>7, <1>8, <1>9, <1>10 DEF LifeInv

-----------------------------------------------------------------------------
(* start().                                                                *)

\* A start goes on to another stage.
LEMMA GoesOn ==
    ASSUME LifeInv, NEW c \in Starts, pc[c] \notin Over, NEW to \in Places \ {"new"},
           Go(c, to), UNCHANGED phase
    PROVE  /\ Sole' /\ Phases'
           /\ c \in Calls /\ pc'[c] = to
           /\ \A d \in Calls \ {c} : pc[d] \in Over /\ pc'[d] = pc[d]
           /\ pc' \in [Calls -> Places]
           /\ to \notin Over => ~Idle'
<1> USE LifecycleAssumption
<1>1. /\ Sole' /\ c \in Calls /\ pc'[c] = to
      /\ \A d \in Calls \ {c} : pc[d] \in Over /\ pc'[d] = pc[d]
      /\ to \notin Over => ~Idle'
  BY MoveKeepsSole DEF Active, Calls
<1>2. pc' \in [Calls -> Places]
  BY DEF LifeInv, Shape, Go
<1>3. Phases'
  BY <1>1 DEF LifeInv, Phases, Calls
<1> QED BY <1>1, <1>2, <1>3

\* The stages in which a start has no core gateway yet.
LEMMA StillUnspawned ==
    ASSUME LifeInv, NEW c \in Starts, BeforeSpawn(c),
           \A d \in Calls \ {c} : pc'[d] = pc[d],
           UNCHANGED <<phase, orphans>>,
           \A p \in Starts : \/ proc'[p].life = proc[p].life
                             \/ proc'[p].life = "dead" /\ proc[p].life # "none"
    PROVE  Unspawned'
<1>1. ASSUME NEW d \in Starts, BeforeSpawn(d)' PROVE BeforeSpawn(d)
  BY <1>1 DEF BeforeSpawn, Calls
<1> QED BY <1>1 DEF LifeInv, Shape, Unspawned

LEMMA EarlyStepKeeps ==
    ASSUME LifeInv, NEW c \in Starts, Prepared(c) \/ Unneeded(c) \/ ServesAlone(c)
    PROVE  LifeInv'
<1> USE LifecycleAssumption
<1>a. CASE Throw(c, child, server) /\ pc[c] = "plugins" /\ UNCHANGED <<state, marker, orphans, seen, history>>
  <2>1. Active(c) /\ c \in Calls /\ UNCHANGED <<state, marker, orphans, seen, stale>> /\ asked' \in BOOLEAN
    BY <1>a DEF Active, Over, Calls, history, LifeInv, Shape
  <2> QED BY <1>a, <2>1, StoppingKeeps DEF Throw
<1>0. SUFFICES ASSUME ~(/\ Throw(c, child, server) /\ pc[c] = "plugins"
                        /\ UNCHANGED <<state, marker, orphans, seen, history>>)
               PROVE  LifeInv'
  BY <1>a
<1>1. PICK to \in {"plugins", "done"} :
        /\ Go(c, to)
        /\ \/ pc[c] = "prepare" /\ to = "plugins" /\ state' = "starting"
           \/ pc[c] = "plugins" /\ to = "done" /\ state' = "stopped"
           \/ pc[c] = "serve" /\ to = "done" /\ state' = "running"
        /\ UNCHANGED <<child, server, open, marker, proc, orphans, phase, seen, history>>
  BY <1>0 DEF Prepared, Unneeded, ServesAlone
<1>2. pc[c] \notin Over /\ to \in Places \ {"new"}
  BY <1>1 DEF Over, Places
<1>3. /\ Sole' /\ Phases'
      /\ c \in Calls /\ pc'[c] = to
      /\ \A d \in Calls \ {c} : pc[d] \in Over /\ pc'[d] = pc[d]
      /\ pc' \in [Calls -> Places]
      /\ to \notin Over => ~Idle'
  BY <1>1, <1>2, GoesOn
<1>4. Quieter
  BY <1>1 DEF Quieter
<1>5. Shape' /\ OneServes'
  BY <1>1, <1>3, <1>4, QuieterProcesses DEF LifeInv, Shape, history
<1>6. Unspawned'
  <2>1. ASSUME NEW d \in Starts, BeforeSpawn(d)' PROVE BeforeSpawn(d)
    BY <1>1, <1>3, <2>1 DEF BeforeSpawn, Calls
  <2> QED BY <1>1, <2>1 DEF LifeInv, Unspawned
<1>7. /\ pc[c] \in {"prepare", "plugins"} => child = None /\ server = None /\ open = {}
      /\ pc[c] = "serve" => server = c /\ open = {c} /\ c \in ServerOnly
      /\ ~stale
  <2>1. server = None => open = {}
    BY DEF LifeInv, Listening, Shape, Calls
  <2>2. pc[c] \in {"prepare", "plugins", "serve"}
    BY <1>1
  <2> QED BY <1>3, <2>1, <2>2 DEF LifeInv, Stages
<1>8. Stages'
  BY <1>1, <1>3, <1>7 DEF Stages, Over, history
<1>9. Attended' /\ Listening'
  BY <1>1, <1>4, QuieterProcesses DEF LifeInv, Attended, Listening
<1>10. StatusTruthful'
  BY <1>1, <1>3, <1>7 DEF StatusTruthful, Over, history
<1> QED BY <1>3, <1>5, <1>6, <1>8, <1>9, <1>10 DEF LifeInv

LEMMA ListenKeeps ==
    ASSUME LifeInv, NEW c \in Starts, Listen(c)
    PROVE  LifeInv'
<1> USE LifecycleAssumption
<1>1. pc[c] = "plugins" /\ c \in Calls /\ UNCHANGED <<state, marker, orphans, seen, asked, stale>>
      /\ asked' \in BOOLEAN
  BY DEF Listen, Calls, history, LifeInv, Shape
<1>2. child = None /\ server = None /\ pc[c] \notin Over /\ ~stale
  BY <1>1 DEF LifeInv, Stages, Over
<1>3. ASSUME NEW srv, Throw(c, child, srv) PROVE LifeInv'
  BY <1>1, <1>2, <1>3, StoppingKeeps DEF Throw, Active
<1>4. CASE ~\E srv : Throw(c, child, srv)
  <2>1. PICK to \in {"serve", "compile"} :
          /\ server' = c /\ open' = {c} /\ Go(c, to)
          /\ to = "serve" <=> c \in ServerOnly
          /\ UNCHANGED <<child, proc, phase>>
    BY <1>4 DEF Listen
  <2>2. /\ Sole' /\ Phases' /\ ~Idle'
        /\ pc'[c] = to
        /\ \A d \in Calls \ {c} : pc[d] \in Over /\ pc'[d] = pc[d]
        /\ pc' \in [Calls -> Places]
    <3>1. to \in Places \ {"new"} /\ to \notin Over
      BY DEF Places, Over
    <3> QED BY <1>2, <2>1, <3>1, GoesOn
  <2>3. Quieter
    BY <2>1 DEF Quieter
  <2>4. Shape' /\ OneServes'
    BY <1>1, <2>1, <2>2, <2>3, QuieterProcesses DEF LifeInv, Shape
  <2>5. Unspawned'
    BY <1>1, <2>1, <2>2, StillUnspawned DEF BeforeSpawn
  <2>6. Stages'
    BY <1>1, <1>2, <2>1, <2>2 DEF Stages, Over
  <2>7. Attended' /\ Listening' /\ StatusTruthful'
    BY <1>1, <2>1, <2>2, <2>3, QuieterProcesses
    DEF LifeInv, Attended, Listening, StatusTruthful
  <2> QED BY <2>2, <2>4, <2>5, <2>6, <2>7 DEF LifeInv
<1> QED BY <1>3, <1>4

\* The steps by which a start gets rid of the core gateway the marker names.
LEMMA PreviousStepKeeps ==
    ASSUME LifeInv, NEW c \in Starts, LookForPrevious(c) \/ Identify(c) \/ Terminated(c)
    PROVE  LifeInv'
<1> USE LifecycleAssumption
<1>1. /\ pc[c] \in {"compile", "identify", "terminate"}
      /\ UNCHANGED <<serviceVars, orphans, phase, asked, stale>>
  BY DEF LookForPrevious, Identify, Terminated, history
<1>2. PICK to \in {"identify", "terminate", "health"} : Go(c, to)
  BY DEF LookForPrevious, Identify, Terminated
<1>3. /\ Sole' /\ Phases' /\ ~Idle'
      /\ c \in Calls /\ pc'[c] = to
      /\ \A d \in Calls \ {c} : pc[d] \in Over /\ pc'[d] = pc[d]
      /\ pc' \in [Calls -> Places]
  <2>1. to \in Places \ {"new"} /\ to \notin Over /\ pc[c] \notin Over
    BY <1>1 DEF Places, Over
  <2> QED BY <1>1, <1>2, <2>1, GoesOn
<1>4. proc' \in [Starts -> Process] /\ Quieter
  <2>1. \A p \in Serving : p \in Starts /\ proc[p].life = "serving"
    BY DEF Serving
  <2>2. CASE proc' = proc
    BY <2>2 DEF LifeInv, Shape, Quieter
  <2>3. CASE seen[c] \in Serving /\ proc' = [proc EXCEPT ![seen[c]].term = TRUE]
    BY <2>1, <2>3, ZenonT(60) DEF LifeInv, Shape, Quieter, Process
  <2>4. CASE seen[c] \in Serving /\ proc' = [proc EXCEPT ![seen[c]].life = "dead"]
    BY <2>1, <2>4 DEF LifeInv, Shape, Quieter, Process
  <2> QED BY <2>2, <2>3, <2>4 DEF LookForPrevious, Identify, Terminated
<1>5. seen' \in [Starts -> Starts \union {None}] /\ marker' \in Starts \union {None}
  BY DEF LifeInv, Shape, LookForPrevious, Identify, Terminated
<1>6. Shape' /\ OneServes'
  BY <1>1, <1>3, <1>4, <1>5, QuieterProcesses DEF LifeInv, Shape, serviceVars
<1>7. Unspawned'
  BY <1>1, <1>3, <1>4, StillUnspawned DEF BeforeSpawn, Quieter
<1>8. Stages'
  <2>1. child = None /\ server = c /\ open = {c} /\ c \notin ServerOnly /\ ~stale
    BY <1>1, <1>3 DEF LifeInv, Stages
  <2> QED BY <1>1, <1>3, <2>1 DEF Stages, Over, serviceVars
<1>9. Attended' /\ Listening' /\ StatusTruthful'
  BY <1>1, <1>3, <1>4, QuieterProcesses
  DEF LifeInv, Attended, Listening, StatusTruthful, serviceVars
<1> QED BY <1>3, <1>6, <1>7, <1>8, <1>9 DEF LifeInv

LEMMA SpawnKeeps ==
    ASSUME LifeInv, NEW c \in Starts, Spawn(c)
    PROVE  LifeInv'
<1> USE LifecycleAssumption
<1>1. /\ pc[c] = "health" /\ Go(c, "accept") /\ child' = c /\ marker' = c
      /\ proc' = [proc EXCEPT ![c] = [NoProcess EXCEPT !.life = "booting"]]
      /\ UNCHANGED <<state, server, open, orphans, phase, seen, asked, stale>>
  BY DEF Spawn, history
<1>2. /\ Sole' /\ Phases' /\ ~Idle'
      /\ c \in Calls /\ pc'[c] = "accept"
      /\ \A d \in Calls \ {c} : pc[d] \in Over /\ pc'[d] = pc[d]
      /\ pc' \in [Calls -> Places]
  <2>1. pc[c] \notin Over /\ "accept" \in Places \ {"new"} /\ "accept" \notin Over
    BY <1>1 DEF Places, Over
  <2> QED BY <1>1, <2>1, GoesOn
<1>3. /\ proc' \in [Starts -> Process]
      /\ proc'[c].life = "booting"
      /\ \A p \in Starts \ {c} : proc'[p] = proc[p]
  BY <1>1 DEF LifeInv, Shape, Process, NoProcess
<1>4. OneServes'
  <2>1. Serving' \subseteq Serving
    BY <1>3 DEF Serving
  <2> QED BY <2>1 DEF LifeInv, OneServes
<1>5. Shape'
  BY <1>1, <1>2, <1>3 DEF LifeInv, Shape
<1>6. Unspawned'
  <2>1. ASSUME NEW d \in Starts, BeforeSpawn(d)' PROVE BeforeSpawn(d) /\ d # c
    BY <1>1, <1>2, <2>1 DEF BeforeSpawn, Calls
  <2>2. c \notin orphans
    BY <1>1 DEF LifeInv, Unspawned, BeforeSpawn
  <2> QED BY <1>1, <1>3, <2>1, <2>2 DEF LifeInv, Shape, Unspawned
<1>7. Stages'
  <2>1. server = c /\ open = {c} /\ c \notin ServerOnly /\ ~stale
    BY <1>1, <1>2 DEF LifeInv, Stages
  <2> QED BY <1>1, <1>2, <2>1 DEF Stages, Over
<1>8. Attended'
  <2>1. child = None
    BY <1>1, <1>2 DEF LifeInv, Stages
  <2>2. Unattended = {}
    BY <2>1 DEF LifeInv, Attended, Unattended, Calls
  <2>3. Unattended' \subseteq Unattended \union {c}
    BY <1>1, <1>3 DEF Unattended, Alive
  <2> QED BY <1>1, <2>2, <2>3 DEF Attended
<1>9. Listening' /\ StatusTruthful'
  BY <1>1, <1>2 DEF LifeInv, Listening, StatusTruthful
<1> QED BY <1>2, <1>4, <1>5, <1>6, <1>7, <1>8, <1>9 DEF LifeInv

LEMMA FailureKeeps ==
    ASSUME LifeInv, NEW c \in Starts, StartFails(c)
    PROVE  LifeInv'
<1>1. /\ pc[c] \in {"serve", "compile", "identify", "health", "accept", "ready"} /\ c \in Calls
      /\ Throw(c, child, server)
      /\ UNCHANGED <<state, marker, orphans, seen, stale>> /\ asked' \in BOOLEAN
  BY DEF StartFails, Calls, history, LifeInv, Shape
<1>2. Active(c)
  BY <1>1 DEF Active, Over
<1> QED BY <1>1, <1>2, StoppingKeeps DEF Throw

LEMMA AcceptedKeeps ==
    ASSUME LifeInv, NEW c \in Starts, Accepted(c)
    PROVE  LifeInv'
<1> USE LifecycleAssumption
<1>1. /\ pc[c] = "accept" /\ Go(c, "ready")
      /\ UNCHANGED <<state, child, server, open, marker, proc, orphans, phase, seen, asked, stale>>
  BY DEF Accepted, serviceVars, history
<1>2. /\ Sole' /\ Phases' /\ ~Idle'
      /\ c \in Calls /\ pc'[c] = "ready"
      /\ \A d \in Calls \ {c} : pc[d] \in Over /\ pc'[d] = pc[d]
      /\ pc' \in [Calls -> Places]
  <2>1. pc[c] \notin Over /\ "ready" \in Places \ {"new"} /\ "ready" \notin Over
    BY <1>1 DEF Places, Over
  <2> QED BY <1>1, <2>1, GoesOn
<1>3. Quieter
  BY <1>1 DEF Quieter
<1>4. Shape' /\ OneServes'
  BY <1>1, <1>2, <1>3, QuieterProcesses DEF LifeInv, Shape
<1>5. Unspawned'
  <2>1. ASSUME NEW d \in Starts, BeforeSpawn(d)' PROVE BeforeSpawn(d)
    BY <1>1, <1>2, <2>1 DEF BeforeSpawn, Calls
  <2> QED BY <1>1, <2>1 DEF LifeInv, Unspawned
<1>6. Stages'
  <2>1. /\ server = c /\ open = {c} /\ c \notin ServerOnly /\ ~stale
        /\ ~proc[c].known => child = c
    BY <1>1, <1>2 DEF LifeInv, Stages
  <2> QED BY <1>1, <1>2, <2>1 DEF Stages, Over
<1>7. Attended' /\ Listening' /\ StatusTruthful'
  BY <1>1, <1>2, <1>3, QuieterProcesses
  DEF LifeInv, Attended, Listening, StatusTruthful
<1> QED BY <1>2, <1>4, <1>5, <1>6, <1>7 DEF LifeInv

LEMMA ReadyKeeps ==
    ASSUME LifeInv, NEW c \in Starts, Ready(c)
    PROVE  LifeInv'
<1> USE LifecycleAssumption
<1>1. /\ pc[c] = "ready" /\ Go(c, "done") /\ state' = "running"
      /\ proc[c].served /\ ~proc[c].known
      /\ UNCHANGED <<child, server, open, marker, proc, orphans, phase, seen, asked, stale>>
  BY DEF Ready, Continues, history
<1>2. /\ Sole' /\ Phases'
      /\ c \in Calls /\ pc'[c] = "done"
      /\ \A d \in Calls \ {c} : pc[d] \in Over /\ pc'[d] = pc[d]
      /\ pc' \in [Calls -> Places]
  <2>1. pc[c] \notin Over /\ "done" \in Places \ {"new"}
    BY <1>1 DEF Places, Over
  <2> QED BY <1>1, <2>1, GoesOn
<1>3. Quieter
  BY <1>1 DEF Quieter
<1>4. Shape' /\ OneServes'
  BY <1>1, <1>2, <1>3, QuieterProcesses DEF LifeInv, Shape
<1>5. Unspawned'
  <2>1. ASSUME NEW d \in Starts, BeforeSpawn(d)' PROVE BeforeSpawn(d)
    BY <1>1, <1>2, <2>1 DEF BeforeSpawn, Calls
  <2> QED BY <1>1, <2>1 DEF LifeInv, Unspawned
<1>6. Stages'
  BY <1>2 DEF Stages, Over
<1>7. Attended' /\ Listening'
  BY <1>1, <1>3, QuieterProcesses DEF LifeInv, Attended, Listening
<1>8. StatusTruthful'
  <2>1. server = c /\ open = {c} /\ child = c /\ ~stale
    BY <1>1, <1>2 DEF LifeInv, Stages
  <2> QED BY <1>1, <2>1 DEF StatusTruthful
<1> QED BY <1>2, <1>4, <1>5, <1>6, <1>7, <1>8 DEF LifeInv

-----------------------------------------------------------------------------
(* The core gateway process, and crashes.                                  *)

\* What a process does leaves the calls where they are.
LEMMA CallsStay ==
    ASSUME LifeInv, UNCHANGED <<pc, phase, orphans>>,
           \A p \in Starts : proc[p].life = "none" <=> proc'[p].life = "none"
    PROVE  Sole' /\ Phases' /\ Unspawned'
<1>1. Sole' /\ Phases'
  BY DEF LifeInv, Sole, Active, Phases
<1>2. Unspawned'
  BY DEF LifeInv, Shape, Unspawned, BeforeSpawn
<1> QED BY <1>1, <1>2

LEMMA BootsKeeps ==
    ASSUME LifeInv, NEW p \in Starts, Boots(p)
    PROVE  LifeInv'
<1> USE LifecycleAssumption
<1>1. /\ proc[p].life = "booting"
      /\ UNCHANGED <<state, child, server, open, marker, orphans, pc, phase, seen, asked, stale>>
  BY DEF Boots, serviceVars, history
<1>2. /\ proc' \in [Starts -> Process]
      /\ \A q \in Starts \ {p} : proc'[q] = proc[q]
      /\ (proc'[p].life = "serving" /\ Serving = {}) \/ proc'[p].life = "dead"
      /\ proc'[p].term = proc[p].term /\ proc'[p].known = proc[p].known
      /\ proc[p].served => proc'[p].served
  BY ZenonT(60) DEF LifeInv, Shape, Boots, Process
<1>3. OneServes'
  <2>1. CASE Serving = {}
    <3>1. Serving' \subseteq {p}
      BY <1>2, <2>1 DEF Serving
    <3> QED BY <3>1 DEF OneServes
  <2>2. CASE Serving # {}
    <3>1. Serving' \subseteq Serving
      BY <1>2, <2>2 DEF Serving
    <3> QED BY <3>1 DEF LifeInv, OneServes
  <2> QED BY <2>1, <2>2
<1>4. Unattended' \subseteq Unattended
  BY <1>1, <1>2 DEF Unattended, Alive
<1>5. Shape'
  BY <1>1, <1>2 DEF LifeInv, Shape
<1>6. Sole' /\ Phases' /\ Unspawned'
  <2>1. \A q \in Starts : proc[q].life = "none" <=> proc'[q].life = "none"
    BY <1>1, <1>2
  <2> QED BY <1>1, <2>1, CallsStay
<1>7. \A q \in Starts : proc'[q].known = proc[q].known /\ (proc[q].served => proc'[q].served)
  BY <1>2
<1>8. Stages'
  <2>1. \A c \in Calls : pc[c] \in {"accept", "ready"} => c \in Starts
    BY DEF LifeInv, Phases, Over, Calls
  <2> QED BY <1>1, <1>7, <2>1 DEF LifeInv, Stages
<1>9. Attended' /\ Listening'
  BY <1>1, <1>4 DEF LifeInv, Attended, Listening
<1>10. StatusTruthful'
  <2>1. server \in open => server \in Starts
    BY DEF LifeInv, Shape
  <2> QED BY <1>1, <1>7, <2>1 DEF LifeInv, StatusTruthful, Idle
<1> QED BY <1>3, <1>5, <1>6, <1>8, <1>9, <1>10 DEF LifeInv

LEMMA DiesKeeps ==
    ASSUME LifeInv, NEW p \in Starts, Dies(p)
    PROVE  LifeInv'
<1> USE LifecycleAssumption
<1>1. /\ Alive(p) /\ proc' = [proc EXCEPT ![p].life = "dead"]
      /\ UNCHANGED <<state, child, server, open, marker, orphans, pc, phase, seen, asked, stale>>
  BY DEF Dies, serviceVars, history
<1>2. /\ proc' \in [Starts -> Process]
      /\ \A q \in Starts : /\ proc'[q].term = proc[q].term
                           /\ proc'[q].known = proc[q].known
                           /\ proc'[q].served = proc[q].served
      /\ \A q \in Starts \ {p} : proc'[q].life = proc[q].life
      /\ proc'[p].life = "dead" /\ proc[p].life # "none"
  BY <1>1 DEF LifeInv, Shape, Process, Alive
<1>3. Quieter
  BY <1>2 DEF Quieter
<1>4. OneServes' /\ Unattended' \subseteq Unattended
  BY <1>1, <1>3, QuieterProcesses
<1>5. Shape'
  BY <1>1, <1>2 DEF LifeInv, Shape
<1>6. Sole' /\ Phases' /\ Unspawned'
  <2>1. \A q \in Starts : proc[q].life = "none" <=> proc'[q].life = "none"
    BY <1>2
  <2> QED BY <1>1, <2>1, CallsStay
<1>7. Stages'
  <2>1. \A c \in Calls : pc[c] \in {"accept", "ready"} => c \in Starts
    BY DEF LifeInv, Phases, Over, Calls
  <2> QED BY <1>1, <1>2, <2>1 DEF LifeInv, Stages
<1>8. Attended' /\ Listening'
  BY <1>1, <1>4 DEF LifeInv, Attended, Listening
<1>9. StatusTruthful'
  <2>1. server \in open => server \in Starts
    BY DEF LifeInv, Shape
  <2> QED BY <1>1, <1>2, <2>1 DEF LifeInv, StatusTruthful, Idle
<1> QED BY <1>4, <1>5, <1>6, <1>7, <1>8, <1>9 DEF LifeInv

LEMMA ExitEventKeeps ==
    ASSUME LifeInv, NEW p \in Starts, ExitEvent(p)
    PROVE  LifeInv'
<1> USE LifecycleAssumption
<1>1. /\ proc[p].life = "dead" /\ p \notin orphans
      /\ proc' = [proc EXCEPT ![p].known = TRUE]
      /\ UNCHANGED <<server, open, orphans, pc, phase, seen, asked, stale>>
      /\ \/ child = p /\ state # "stopped" /\ child' = None /\ marker' = None
            /\ state' = "error"
         \/ ~(child = p /\ state # "stopped") /\ UNCHANGED <<child, marker, state>>
  BY DEF ExitEvent, history
<1>2. /\ proc' \in [Starts -> Process]
      /\ \A q \in Starts : /\ proc'[q].term = proc[q].term
                           /\ proc'[q].life = proc[q].life
                           /\ proc'[q].served = proc[q].served
      /\ \A q \in Starts \ {p} : proc'[q].known = proc[q].known
      /\ proc'[p].known
  BY <1>1, ZenonT(60) DEF LifeInv, Shape, Process
<1>3. Quieter
  BY <1>2 DEF Quieter
<1>4. OneServes' /\ Unattended' \subseteq Unattended
  BY <1>1, <1>3, QuieterProcesses
<1>5. Shape'
  BY <1>1, <1>2 DEF LifeInv, Shape
<1>6. Sole' /\ Phases' /\ Unspawned'
  BY <1>1, <1>2, CallsStay
<1>7. Stages'
  <2>1. \A c \in Calls : pc[c] \in {"accept", "ready"} => c \in Starts
    BY DEF LifeInv, Phases, Over, Calls
  <2>2. ASSUME NEW c \in Calls, pc[c] \in {"accept", "ready"}, ~proc'[c].known
        PROVE  child' = c
    BY <1>1, <1>2, <2>1, <2>2 DEF LifeInv, Stages
  <2>3. child = None => child' = None
    BY <1>1
  <2> QED BY <1>1, <2>2, <2>3 DEF LifeInv, Stages
<1>8. Attended'
  <2>1. p \notin Unattended'
    BY <1>1, <1>2 DEF Unattended, Alive
  <2> QED BY <1>1, <1>4, <2>1 DEF LifeInv, Attended
<1>9. Listening'
  BY <1>1 DEF LifeInv, Listening
<1>10. StatusTruthful'
  <2>1. server \in open => server \in Starts
    BY DEF LifeInv, Shape
  <2>2. CASE child = p /\ state # "stopped"
    <3>1. ~(Idle /\ stale)
      BY <2>2 DEF LifeInv, StatusTruthful, Calls
    <3> QED BY <1>1, <2>2, <3>1 DEF StatusTruthful, Idle
  <2>3. CASE ~(child = p /\ state # "stopped")
    BY <1>1, <1>2, <2>1, <2>3 DEF LifeInv, StatusTruthful, Idle
  <2> QED BY <2>2, <2>3
<1> QED BY <1>4, <1>5, <1>6, <1>7, <1>8, <1>9, <1>10 DEF LifeInv

LEMMA CrashKeeps ==
    ASSUME LifeInv, Crash
    PROVE  LifeInv'
<1> USE LifecycleAssumption
<1>1. /\ state' = "stopped" /\ child' = None /\ server' = None /\ open' = {}
      /\ orphans' = {p \in Starts : proc[p].life # "none"}
      /\ pc' = [c \in Calls |-> IF pc[c] \in Over THEN pc[c] ELSE "lost"]
      /\ stale' = FALSE
      /\ UNCHANGED <<marker, proc, phase, seen, asked>>
  BY DEF Crash
<1>2. \A c \in Calls : pc'[c] \in Over /\ (pc'[c] = "new" => pc[c] = "new")
  BY <1>1 DEF Over
<1>3. Shape'
  BY <1>1 DEF LifeInv, Shape, Places, Over
<1>4. OneServes'
  BY <1>1 DEF LifeInv, OneServes, Serving
<1>5. Sole' /\ Stages'
  BY <1>2 DEF Sole, Active, Stages, Over
<1>6. Phases'
  BY <1>1, <1>2 DEF LifeInv, Phases
<1>7. Unspawned'
  <2>1. ASSUME NEW c \in Starts, BeforeSpawn(c)' PROVE BeforeSpawn(c)
    BY <1>1, <1>2, <2>1 DEF BeforeSpawn, Over, Calls
  <2> QED BY <1>1, <2>1 DEF LifeInv, Unspawned
<1>8. Attended'
  <2>1. Unattended' = {}
    BY <1>1 DEF Unattended, Alive
  <2> QED BY <2>1 DEF Attended
<1>9. Listening' /\ StatusTruthful'
  BY <1>1 DEF Listening, StatusTruthful
<1> QED BY <1>3, <1>4, <1>5, <1>6, <1>7, <1>8, <1>9 DEF LifeInv

LEMMA StutterKeeps ==
    ASSUME LifeInv, UNCHANGED vars
    PROVE  LifeInv'
<1>1. UNCHANGED <<state, child, server, open, marker, proc, orphans, pc, phase, seen, asked, stale>>
  BY DEF vars, serviceVars, history
<1>2. Shape' /\ OneServes' /\ Sole' /\ Phases'
  BY <1>1 DEF LifeInv, Shape, OneServes, Serving, Sole, Active, Phases
<1>3. Unspawned' /\ Stages'
  BY <1>1 DEF LifeInv, Unspawned, BeforeSpawn, Stages
<1>4. Attended' /\ Listening' /\ StatusTruthful'
  BY <1>1 DEF LifeInv, Attended, Unattended, Alive, Listening, StatusTruthful, Idle
<1> QED BY <1>2, <1>3, <1>4 DEF LifeInv

-----------------------------------------------------------------------------
(* The theorems.                                                           *)

LEMMA NextKeeps ==
    ASSUME ~Overlapping, LifeInv, [Next]_vars
    PROVE  LifeInv'
<1>1. ASSUME NEW c \in Calls, Begin(c) PROVE LifeInv'
  BY <1>1, BeginKeeps
<1>2. ASSUME NEW c \in Calls, StopStep(c) PROVE LifeInv'
  BY <1>2, StopWaitedKeeps, StopEndsKeeps DEF StopStep
<1>3. ASSUME NEW c \in Starts, StartStep(c) PROVE LifeInv'
  <2>1. CASE Prepared(c) \/ Unneeded(c) \/ ServesAlone(c)
    BY <2>1, EarlyStepKeeps
  <2>2. CASE Listen(c)
    BY <2>2, ListenKeeps
  <2>3. CASE LookForPrevious(c) \/ Identify(c) \/ Terminated(c)
    BY <2>3, PreviousStepKeeps
  <2>4. CASE Spawn(c)
    BY <2>4, SpawnKeeps
  <2>5. CASE StartFails(c)
    BY <2>5, FailureKeeps
  <2>6. CASE Accepted(c)
    BY <2>6, AcceptedKeeps
  <2>7. CASE Ready(c)
    BY <2>7, ReadyKeeps
  <2> QED BY <1>3, <2>1, <2>2, <2>3, <2>4, <2>5, <2>6, <2>7 DEF StartStep
<1>4. ASSUME NEW p \in Starts, Boots(p) \/ Dies(p) \/ ExitEvent(p) PROVE LifeInv'
  BY <1>4, BootsKeeps, DiesKeeps, ExitEventKeeps
<1>5. CASE Crash
  BY <1>5, CrashKeeps
<1>6. CASE UNCHANGED vars
  BY <1>6, StutterKeeps
<1> QED BY <1>1, <1>2, <1>3, <1>4, <1>5, <1>6 DEF Next

LEMMA LifeInvariant ==
    ASSUME ~Overlapping
    PROVE  Spec => []LifeInv
<1>1. Init => LifeInv
  BY InitLife
<1>2. LifeInv /\ [Next]_vars => LifeInv'
  BY NextKeeps
<1> QED BY <1>1, <1>2, PTL DEF Spec

\* Every variable of the service keeps its range; never do two core gateways
\* serve, nor two servers listen, at the same time.
THEOREM LifecycleIsTyped ==
    ASSUME ~Overlapping
    PROVE  Spec => []TypeOK
<1>1. LifeInv => TypeOK
  BY LifeInvImpliesTypeOK
<1> QED BY <1>1, LifeInvariant, PTL

\* However many starts fail half-way, core gateways die and applications crash, no
\* core gateway is left running unsignalled besides this.child, and no server is
\* left listening besides this.server.
THEOREM NothingIsForgotten ==
    ASSUME ~Overlapping
    PROVE  Spec => []NothingForgotten
<1>1. LifeInv => NothingForgotten
  BY LifeInvImpliesNothingForgotten
<1> QED BY <1>1, LifeInvariant, PTL

\* Between calls "running" means a listening server and the core gateway of the
\* same start, and "stopped" means neither; and after a stop() that failed half-way
\* nothing is there, whatever the state.
THEOREM StatusIsTruthful ==
    ASSUME ~Overlapping
    PROVE  Spec => []StatusTruthful
<1>1. LifeInv => StatusTruthful
  BY DEF LifeInv
<1> QED BY <1>1, LifeInvariant, PTL

=============================================================================
