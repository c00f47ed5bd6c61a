--------------------------- MODULE StackLifecycle ---------------------------
(***************************************************************************)
(* The Docker federation of one test run (internal/stack/stack.go): how    *)
(* its containers are created, registered, stopped, replaced, logged and   *)
(* removed.  One goroutine of the test process calls it; Docker and the    *)
(* processes in the containers run beside it and may fail on their own.    *)
(*                                                                         *)
(* Docker and testcontainers are external, modelled from how the code uses *)
(* them: GenericContainer may fail before a container exists or, when it   *)
(* never becomes ready, after it runs; IsRunning is a flag of the client,  *)
(* set when the wait inside Start has succeeded and cleared by Stop, so a  *)
(* Start that fails in its wait leaves a process the client takes for      *)
(* stopped; every boot maps fresh host ports, so an endpoint is a          *)
(* container and its boot.  Only the API is ever restarted, so readiness   *)
(* is kept for it and implied for the others.                              *)
(***************************************************************************)
EXTENDS Naturals, FiniteSets

CONSTANTS
  MaxContainers,  \* bound: containers Docker is asked to create
  MaxBoots,       \* bound: boots of one container
  MaxExits        \* bound: API processes that end on their own

Containers == 1 .. MaxContainers
None == 0

API == "aero-arc-api"
Crashed == "aero-arc-api-crashed"

(* The order in which Start brings the services up.                         *)
Service(step) ==
  CASE step = 1 -> "postgis" [] step = 2 -> "fixture"
    [] step = 3 -> "toxiproxy" [] step = 4 -> API

(* Mutant of ClosedNames: the replaced container is forgotten.              *)
ClosedNamesWithoutCrashed == {API, "toxiproxy", "fixture", "postgis"}

(* The names Close removes.                                                 *)
ClosedNames == {API, Crashed, "toxiproxy", "fixture", "postgis"}

(* The names Start and StartReplacementAPI register.                        *)
Names == {Service(i) : i \in 1 .. 4} \cup {Crashed}

ASSUME StackAssumption == 
  MaxContainers \in Nat /\ MaxBoots \in Nat /\ MaxExits \in Nat

VARIABLES
  registry,  \* Stack.containers
  network,   \* Stack.network exists
  baseURL,   \* Stack.APIBaseURL as <<container, boot>>
  phase,     \* of Start and of the run around it
  step,      \* the service Start is at
  op,        \* where a StartAPI in progress stands
  docker,    \* external: every container's process
  exits,     \* external: API processes that ended on their own
  flag       \* testcontainers: the client believes the container runs

(* History: how the latest call handed the API over, and what went wrong.   *)
VARIABLES
  handover,   \* "usable" or "unusable" at the latest nil error, else "none"
  tainted,    \* the API's flag may disagree with its process or its URL
  unready,    \* containers whose start was reported as failed
  stray,      \* containers left running when their restart's wait failed
  displaced,  \* containers that lost their name to another one
  logged,     \* containers whose logs were saved
  captured,   \* Capture ran
  trouble     \* a Docker call of Capture or of a removal failed

run == <<phase, step, op, exits>>
history == <<unready, stray, displaced, logged, captured, trouble>>
vars == <<registry, network, baseURL, phase, step, op, docker, exits, flag,
          handover, tainted, unready, stray, displaced, logged, captured,
          trouble>>

Process ==
  [state : {"unused", "running", "exited", "gone"}, api : BOOLEAN,
   ready : BOOLEAN, boot : Nat]
Unused == [state |-> "unused", api |-> FALSE, ready |-> FALSE, boot |-> 0]

Registered == {registry[n] : n \in Names} \ {None}
Running == {c \in Containers : docker[c].state = "running"}
Started == {c \in Containers : docker[c].state # "unused"}
Fresh == {c \in Containers : c = Cardinality(Started) + 1}
Live == {c \in Containers : docker[c].state \in {"running", "exited"}}

(* Names stand for different containers, and only running processes are    *)
(* ready.                                                                   *)
TypeOK ==
  /\ registry \in [Names -> Containers \cup {None}]
  /\ \A m, n \in Names : registry[m] = registry[n] /\ m # n =>
                           registry[m] = None
  /\ network \in BOOLEAN
  /\ baseURL \in (Containers \cup {None}) \X Nat
  /\ phase \in {"starting", "failing", "up", "closed"}
  /\ step \in 1 .. 5
  /\ op \in {"idle", "booting", "polling"}
  /\ docker \in [Containers -> Process]
  /\ \A c \in Containers : docker[c].ready => docker[c].state = "running"
  /\ exits \in Nat
  /\ flag \in [Containers -> BOOLEAN]
  /\ handover \in {"none", "usable", "unusable"}
  /\ tainted \in BOOLEAN
  /\ unready \subseteq Containers /\ stray \subseteq Containers
  /\ displaced \subseteq Containers /\ logged \subseteq Containers
  /\ captured \in BOOLEAN /\ trouble \in BOOLEAN

Init ==
  /\ registry = [n \in Names |-> None]
  /\ network = FALSE
  /\ baseURL = <<None, 0>>
  /\ phase = "starting" /\ step = 1 /\ op = "idle"
  /\ docker = [c \in Containers |-> Unused]
  /\ exits = 0
  /\ flag = [c \in Containers |-> FALSE]
  /\ handover = "none" /\ tainted = FALSE
  /\ unready = {} /\ stray = {} /\ displaced = {} /\ logged = {}
  /\ captured = FALSE /\ trouble = FALSE

-----------------------------------------------------------------------------
(* External: Docker and the processes *)

Booted(c, isAPI, isReady) ==
  [state |-> "running", api |-> isAPI, ready |-> isReady,
   boot |-> docker[c].boot + 1]

(* A service becomes ready after its client stopped waiting, or in time.    *)
BecomeReady(c) ==
  /\ docker[c].state = "running" /\ ~docker[c].ready
  /\ docker' = [docker EXCEPT ![c].ready = TRUE]
  /\ UNCHANGED <<registry, network, baseURL, run, flag, handover, tainted,
                 history>>

(* The API's process ends on its own; nothing tells the client.             *)
Exit(c) ==
  /\ phase = "up" /\ docker[c].state = "running" /\ docker[c].api
  /\ exits < MaxExits /\ exits' = exits + 1
  /\ docker' = [docker EXCEPT ![c].state = "exited", ![c].ready = FALSE]
  /\ tainted' = TRUE
  /\ UNCHANGED <<registry, network, baseURL, phase, step, op, flag, handover,
                 history>>

-----------------------------------------------------------------------------
(* Start *)

CreateNetwork ==
  /\ phase = "starting" /\ step = 1 /\ ~network
  /\ \/ network' = TRUE /\ phase' = phase
     \/ network' = FALSE /\ phase' = "failing"
  /\ UNCHANGED <<registry, baseURL, step, op, docker, flag, handover, tainted,
                 history, exits>>

(* startContainer fails: before the container exists, or because it does    *)
(* not become ready, in which case it runs on without a name (and without   *)
(* anyone who could ask for its flag).                                      *)
StartServiceFails ==
  /\ phase = "starting" /\ network /\ step <= 4
  /\ phase' = "failing"
  /\ \/ UNCHANGED <<docker, unready>>
     \/ \E c \in Fresh :
          /\ docker' = [docker EXCEPT ![c] =
                          Booted(c, Service(step) = API, FALSE)]
          /\ unready' = unready \cup {c}
  /\ UNCHANGED <<registry, network, baseURL, step, op, flag, handover, tainted,
                 stray, displaced, logged, captured, trouble, exits>>

(* startContainer succeeds and the container is registered; an endpoint,    *)
(* the DSS proxy or the manifest may fail after that.                       *)
StartService ==
  /\ phase = "starting" /\ network /\ step <= 4
  /\ \E c \in Fresh :
       /\ docker' = [docker EXCEPT ![c] =
                       Booted(c, Service(step) = API, TRUE)]
       /\ flag' = [flag EXCEPT ![c] = TRUE]
       /\ registry' = [registry EXCEPT ![Service(step)] = c]
       /\ \/ phase' = "failing" /\ UNCHANGED <<baseURL, handover>>
          \/ /\ phase' = IF step = 4 THEN "up" ELSE "starting"
             /\ baseURL' = IF step = 4 THEN <<c, docker'[c].boot>> ELSE baseURL
             /\ handover' = IF step = 4 THEN "usable" ELSE "none"
  /\ step' = step + 1
  /\ UNCHANGED <<network, op, exits, tainted, history>>

-----------------------------------------------------------------------------
(* The API's lifecycle *)

CanCall == phase = "up" /\ op = "idle"

(* What the scenario gets when a call returns nil.                          *)
Handed(url) ==
  IF docker[url[1]].ready /\ url = <<registry[API], docker[url[1]].boot>>
  THEN "usable" ELSE "unusable"

StopAPI ==
  LET c == registry[API]
  IN /\ CanCall
     /\ handover' = "none"
     /\ \/ /\ docker' = [docker EXCEPT ![c].state = "exited",
                                       ![c].ready = FALSE]
           /\ flag' = [flag EXCEPT ![c] = FALSE]
           /\ stray' = stray \ {c}
           /\ tainted' = FALSE
        \/ /\ docker' \in {docker, [docker EXCEPT ![c].state = "exited",
                                                 ![c].ready = FALSE]}
           /\ UNCHANGED <<flag, stray>>
           /\ tainted' = TRUE
     /\ UNCHANGED <<registry, network, baseURL, run, unready, displaced, logged,
                    captured, trouble>>

(* StartAPI, the early return.                                              *)
StartAPIRunning ==
  /\ CanCall /\ flag[registry[API]]
  /\ handover' = Handed(baseURL)
  /\ UNCHANGED <<registry, network, baseURL, run, docker, flag, tainted,
                 history>>

(* StartAPI, the restart: api.Start runs the process, unless it still runs  *)
(* from a start that failed in its wait, and then waits.                    *)
StartAPI ==
  LET c == registry[API]
  IN /\ CanCall /\ ~flag[c]
     /\ handover' = "none"
     /\ \/ /\ \/ docker[c].state = "running" /\ docker' = docker
              \/ /\ docker[c].state # "running" /\ docker[c].boot < MaxBoots
                 /\ docker' = [docker EXCEPT ![c] = Booted(c, TRUE, FALSE)]
           /\ op' = "booting" /\ tainted' = tainted
        \/ UNCHANGED <<docker, op>> /\ tainted' = TRUE
     /\ UNCHANGED <<registry, network, baseURL, phase, step, flag, history,
                    exits>>

(* Mutant of APIBooted: the URL of the former boot is kept.                 *)
APIBootedStaleURL ==
  /\ op = "booting" /\ docker[registry[API]].ready
  /\ op' = "polling"
  /\ flag' = [flag EXCEPT ![registry[API]] = TRUE]
  /\ stray' = stray \ {registry[API]}
  /\ UNCHANGED <<registry, network, baseURL, phase, step, docker, handover,
                 tainted, unready, displaced, logged, captured, trouble, exits>>

(* api.Start's own wait ends and the flag is set; then the endpoint is read,*)
(* or cannot be.                                                            *)
APIBooted ==
  LET c == registry[API]
  IN /\ op = "booting" /\ docker[c].ready
     /\ flag' = [flag EXCEPT ![c] = TRUE]
     /\ stray' = stray \ {c}
     /\ \/ /\ baseURL' = <<c, docker[c].boot>>
           /\ op' = "polling" /\ tainted' = tainted
        \/ UNCHANGED baseURL /\ op' = "idle" /\ tainted' = TRUE
     /\ UNCHANGED <<registry, network, phase, step, docker, handover, unready,
                    displaced, logged, captured, trouble, exits>>

(* waitForAPI sees 200.                                                     *)
APIReady ==
  /\ op = "polling" /\ docker[registry[API]].ready
  /\ op' = "idle" /\ handover' = Handed(baseURL)
  /\ UNCHANGED <<registry, network, baseURL, phase, step, docker, flag,
                 tainted, history, exits>>

(* Mutant of Deadline: waitForAPI does not look at its context.             *)
DeadlineWhileBooting ==
  /\ op = "booting"
  /\ op' = "idle" /\ tainted' = TRUE
  /\ stray' = stray \cup {registry[API]}
  /\ UNCHANGED <<registry, network, baseURL, phase, step, docker, flag,
                 handover, unready, displaced, logged, captured, trouble,
                 exits>>

(* The context ends while api.Start or waitForAPI waits; in the former the  *)
(* flag was not set yet.                                                    *)
Deadline ==
  /\ op \in {"booting", "polling"}
  /\ op' = "idle" /\ tainted' = TRUE
  /\ stray' = IF op = "booting" THEN stray \cup {registry[API]} ELSE stray
  /\ UNCHANGED <<registry, network, baseURL, phase, step, docker, flag,
                 handover, unready, displaced, logged, captured, trouble,
                 exits>>

(* Mutant of Replaceable: whether the API still runs is not asked.          *)
ReplaceableRunning == CanCall

Replaceable == CanCall /\ ~flag[registry[API]]

(* StartReplacementAPI, when startContainer or the endpoint fails; after    *)
(* the latter the new container is terminated.                              *)
ReplacementFails ==
  /\ Replaceable
  /\ handover' = "none"
  /\ \/ UNCHANGED <<docker, unready, trouble>>
     \/ \E c \in Fresh :
          \/ /\ docker' = [docker EXCEPT ![c] = Booted(c, TRUE, FALSE)]
             /\ unready' = unready \cup {c} /\ trouble' = trouble
          \/ /\ docker' = [docker EXCEPT ![c] =
                             [Booted(c, TRUE, FALSE) EXCEPT !.state = "gone"]]
             /\ UNCHANGED <<unready, trouble>>
          \/ /\ docker' = [docker EXCEPT ![c] = Booted(c, TRUE, TRUE)]
             /\ unready' = unready \cup {c} /\ trouble' = TRUE
  /\ UNCHANGED <<registry, network, baseURL, run, flag, tainted, stray,
                 displaced, logged, captured>>

(* Mutant of Replaced: the new container is also kept as the crashed one.   *)
ReplacedTwiceNamed(c) == [registry EXCEPT ![API] = c, ![Crashed] = c]

Replaced(c) == [registry EXCEPT ![API] = c, ![Crashed] = registry[API]]

(* StartReplacementAPI: the new container takes the name, the old one is    *)
(* kept as crashed.  A manifest that cannot be written is reported, with    *)
(* everything already in place.                                             *)
StartReplacementAPI ==
  /\ Replaceable
  /\ \E c \in Fresh :
       /\ docker' = [docker EXCEPT ![c] = Booted(c, TRUE, TRUE)]
       /\ flag' = [flag EXCEPT ![c] = TRUE]
       /\ registry' = Replaced(c)
       /\ baseURL' = <<c, docker'[c].boot>>
  /\ displaced' = displaced \cup ({registry[Crashed]} \ {None})
  /\ tainted' = FALSE
  /\ handover' \in {"usable", "none"}
  /\ UNCHANGED <<network, run, unready, stray, logged, captured, trouble>>

-----------------------------------------------------------------------------
(* The end of a run, and of a Start that failed *)

(* Mutant of Asked: the replaced container is forgotten.                    *)
AskedWithoutCrashed == {registry[n] : n \in Names \ {Crashed}} \ {None}

(* The containers Capture asks for their logs.                              *)
Asked == Registered

(* Every one of them is asked, whatever the others answered.                *)
Capture ==
  /\ CanCall \/ phase = "failing"
  /\ ~captured
  /\ \E answered \in SUBSET Asked :
       /\ logged' = logged \cup answered
       /\ trouble' = (trouble \/ answered # Asked)
  /\ captured' = TRUE
  /\ UNCHANGED <<registry, network, baseURL, run, docker, flag, handover,
                 tainted, unready, stray, displaced>>

(* Docker refuses to remove a network with running members.                 *)
Close ==
  /\ CanCall \/ (phase = "failing" /\ captured)
  /\ LET named == {registry[n] : n \in ClosedNames} \ {None}
     IN \E removed \in SUBSET named :
          /\ docker' = [c \in Containers |->
                          IF c \in removed
                          THEN [docker[c] EXCEPT !.state = "gone",
                                                 !.ready = FALSE]
                          ELSE docker[c]]
          /\ trouble' = (trouble \/ removed # named)
          /\ network' = (network /\ Running \ removed # {})
  /\ phase' = "closed"
  /\ handover' = "none"
  /\ UNCHANGED <<registry, baseURL, step, op, flag, tainted, unready, stray,
                 displaced, logged, captured, exits>>

-----------------------------------------------------------------------------
StartStep == CreateNetwork \/ StartServiceFails \/ StartService
Waiting == APIBooted \/ APIReady \/ Deadline

Next ==
  \/ StartStep \/ StopAPI \/ StartAPIRunning \/ StartAPI \/ Waiting
  \/ ReplacementFails \/ StartReplacementAPI \/ Capture \/ Close
  \/ \E c \in Containers : BecomeReady(c) \/ Exit(c)

(* The test process keeps running, and a context's deadline fires: a        *)
(* StartAPI that waits takes its next step.                                 *)
Spec == Init /\ [][Next]_vars /\ WF_vars(Waiting)

-----------------------------------------------------------------------------
(* Properties *)

(* Lease takeover is tested against one worker: two API processes never run *)
(* at once, over stops, crashes, restarts and replacements, except for one  *)
(* that was reported as not ready and left running, and one whose restart   *)
(* failed in its wait and that nothing stopped since, which                 *)
(* PreviousIsStopped is about (StopAPI, StartAPI, StartReplacementAPI).     *)
OneWorker ==
  Cardinality({c \in Running : docker[c].api} \ (unready \cup stray)) <= 1

(* A nil error hands over an API that is ready behind the current URL,      *)
(* unless an earlier call failed or the process died since it was last      *)
(* stopped or replaced: IsRunning may then be a memory, and StartAPI returns*)
(* nil for it without the wait its comment speaks of (StartAPI,             *)
(* StartReplacementAPI).                                                    *)
HandoverUsableUnlessTainted == handover = "unusable" => tainted

(* After Close without a Docker failure the only containers that remain are *)
(* those reported as not ready and those displaced by a second replacement, *)
(* and the network remains only under a running one (Close, registration in *)
(* Start and StartReplacementAPI).                                          *)
CloseRemovesWhatIsNamed ==
  phase = "closed" /\ ~trouble =>
    /\ Live \subseteq unready \cup displaced
    /\ network => Running # {}

(* A Capture whose Docker calls succeed has the logs of every container that*)
(* is not removed, through crashes, replacements and a Start that failed,   *)
(* except those that started and were reported as not ready, which no name  *)
(* stands for, and those displaced by a second replacement.  README.md      *)
(* makes no such exception: "logs for every started container" (Capture,    *)
(* registration in Start and StartReplacementAPI).                          *)
CaptureIsComplete ==
  [][~captured /\ captured' /\ ~trouble' =>
       Live \subseteq logged' \cup unready \cup displaced]_vars

(* StartAPI returns: its waits end with readiness or with the deadline, even*)
(* if the process never becomes ready or dies under it (waitForAPI).        *)
StartAPIReturns == op # "idle" ~> op = "idle"

(* internal/stack/stack.go: "Aero Arc API must be stopped before            *)
(* replacement".  The container that a replacement retains as the crashed   *)
(* one does not run (StartReplacementAPI, line 247).                        *)
PreviousIsStopped ==
  registry[Crashed] # None => docker[registry[Crashed]].state # "running"
=============================================================================
