---------------------------- MODULE StackProofs ----------------------------
(***************************************************************************)
(* Theorems about StackLifecycle for any number of containers, boots and   *)
(* processes that end on their own.                                        *)
(***************************************************************************)
EXTENDS StackLifecycle, FiniteSetTheorems, TLAPS

-----------------------------------------------------------------------------
(* The names *)

LEMMA NamesAre ==
  /\ Names = {"postgis", "fixture", "toxiproxy", API, Crashed}
  /\ ClosedNames = Names
<1>1. {Service(i) : i \in 1 .. 4}
        = {Service(1), Service(2), Service(3), Service(4)}
  OBVIOUS
<1>2. /\ Service(1) = "postgis" /\ Service(2) = "fixture"
      /\ Service(3) = "toxiproxy" /\ Service(4) = API
  BY DEF Service
<1> QED BY <1>1, <1>2 DEF Names, ClosedNames

LEMMA ServiceNames ==
  /\ \A i \in 1 .. 4 : /\ Service(i) \in Names
                       /\ Service(i) = API <=> i = 4
                       /\ Service(i) # Crashed
  /\ \A i, j \in 1 .. 4 : Service(i) = Service(j) => i = j
  /\ API \in Names /\ Crashed \in Names /\ API # Crashed
<1>1. /\ Service(1) = "postgis" /\ Service(2) = "fixture"
      /\ Service(3) = "toxiproxy" /\ Service(4) = API
  BY DEF Service
<1>2. \A i \in 1 .. 4 : i = 1 \/ i = 2 \/ i = 3 \/ i = 4
  OBVIOUS
<1>3. API \in Names /\ Crashed \in Names /\ API # Crashed
  BY NamesAre DEF API, Crashed
<1>4. \A i \in 1 .. 4 : Service(i) \in Names
  BY <1>1, <1>2, NamesAre
<1>5. \A i \in 1 .. 4 : /\ Service(i) = API <=> i = 4
                        /\ Service(i) # Crashed
  BY <1>1, <1>2 DEF API, Crashed
<1>6. \A i, j \in 1 .. 4 : Service(i) = Service(j) => i = j
  BY <1>1, <1>2 DEF API
<1> QED BY <1>3, <1>4, <1>5, <1>6

-----------------------------------------------------------------------------
(* What an operation does to a container's process *)

Becomes(c, state, api, ready, boot) ==
  /\ docker' \in [Containers -> Process]
  /\ docker'[c].state = state /\ docker'[c].api = api
  /\ docker'[c].ready = ready /\ docker'[c].boot = boot
  /\ \A d \in Containers \ {c} : docker'[d] = docker[d]

LEMMA BootView ==
  ASSUME TypeOK, NEW c \in Containers, NEW a \in BOOLEAN, NEW b \in BOOLEAN,
         docker' = [docker EXCEPT ![c] = Booted(c, a, b)]
  PROVE  Becomes(c, "running", a, b, docker[c].boot + 1)
<1>1. docker \in [Containers -> Process] /\ docker[c].boot \in Nat
  BY DEF TypeOK, Process
<1>2. /\ Booted(c, a, b) \in Process
      /\ Booted(c, a, b).state = "running" /\ Booted(c, a, b).api = a
      /\ Booted(c, a, b).ready = b /\ Booted(c, a, b).boot = docker[c].boot + 1
  BY <1>1 DEF Booted, Process
<1> QED BY <1>1, <1>2 DEF Becomes

LEMMA StopView ==
  ASSUME TypeOK, NEW c \in Containers,
         docker' = [docker EXCEPT ![c].state = "exited", ![c].ready = FALSE]
  PROVE  Becomes(c, "exited", docker[c].api, FALSE, docker[c].boot)
<1>1. docker \in [Containers -> Process] /\ docker[c] \in Process
  BY DEF TypeOK
<1> DEFINE p == [docker[c] EXCEPT !.state = "exited", !.ready = FALSE]
<1>2. /\ p \in Process /\ p.state = "exited" /\ p.api = docker[c].api
      /\ p.ready = FALSE /\ p.boot = docker[c].boot
  BY <1>1 DEF Process
<1>3. docker' = [docker EXCEPT ![c] = p]
  BY <1>1
<1> HIDE DEF p
<1> QED BY <1>1, <1>2, <1>3 DEF Becomes

-----------------------------------------------------------------------------
(* The inductive invariant *)

(* Docker numbers the containers it creates, and only created containers    *)
(* have names.                                                              *)
Numbered ==
  /\ \E k \in 0 .. MaxContainers : Started = 1 .. k
  /\ \A n \in Names : registry[n] # None => registry[n] \in Started

(* Start registers one name after the other, a running stack has an API,    *)
(* and only a running stack waits for one.                                  *)
Phases ==
  /\ phase = "starting" =>
       step <= 4 /\ \A i \in 1 .. 4 : i >= step => registry[Service(i)] = None
  /\ phase = "up" => registry[API] # None
  /\ op # "idle" => phase = "up"

(* An API process that runs is the registered one, and its flag is up or    *)
(* StartAPI waits for it, or the call that started it has failed: it was    *)
(* reported as not ready, or its restart ended in the wait.  So a flag that *)
(* is down before a replacement means a stopped API or one of the latter.   *)
Workers ==
  \A c \in Containers : docker[c].state = "running" /\ docker[c].api =>
    \/ c \in unready \/ c \in stray
    \/ c = registry[API] /\ (flag[c] \/ op = "booting")

(* While nothing went wrong a raised flag means a ready API at the URL, and *)
(* waitForAPI polls the URL of the current boot.                            *)
Handing ==
  /\ handover = "unusable" => tainted
  /\ phase = "up" /\ op = "idle" /\ ~tainted /\ flag[registry[API]] =>
       /\ docker[registry[API]].ready
       /\ baseURL = <<registry[API], docker[registry[API]].boot>>
  /\ op = "polling" =>
       baseURL = <<registry[API], docker[registry[API]].boot>>

(* Every container that is not gone has a name, lost it, or never got one.  *)
Leftovers ==
  /\ phase # "closed" => Live \subseteq unready \cup displaced \cup Registered
  /\ phase = "closed" /\ ~trouble =>
       /\ Live \subseteq unready \cup displaced
       /\ network => Running # {}

StackInv == Numbered /\ Phases /\ Workers /\ Handing /\ Leftovers

(* A container Docker is about to create is not in use under any name.      *)
LEMMA FreshIsUnused ==
  ASSUME TypeOK, Numbered, NEW c \in Fresh
  PROVE  /\ c \in Containers /\ c \notin Started /\ c # None
         /\ \A n \in Names : registry[n] # c
         /\ \E k \in 0 .. MaxContainers : Started \cup {c} = 1 .. k
<1>1. PICK k \in 0 .. MaxContainers : Started = 1 .. k
  BY DEF Numbered
<1>2. k \in Nat /\ MaxContainers \in Nat
  BY StackAssumption
<1>3. Cardinality(1 .. k) = k
  <2>1. 1 \in Int /\ k \in Int /\ k - 1 + 1 = k
    BY <1>2
  <2>2. Cardinality(1 .. k) = IF 1 > k THEN 0 ELSE k - 1 + 1
    BY <2>1, FS_Interval
  <2> QED BY <1>2, <2>2
<1>4. c = k + 1 /\ c \in Containers
  BY <1>1, <1>3 DEF Fresh
<1>5. c \notin Started /\ c # None /\ c <= MaxContainers
  BY <1>1, <1>2, <1>4 DEF None, Containers
<1>6. Started \cup {c} = 1 .. c /\ c \in 0 .. MaxContainers
  BY <1>1, <1>2, <1>4, <1>5
<1> QED BY <1>4, <1>5, <1>6 DEF Numbered

(* The sets of containers after one of them changed.                        *)
LEMMA SetsAfter ==
  ASSUME NEW c \in Containers, NEW s \in {"running", "exited", "gone"},
         NEW a, NEW b, NEW n, Becomes(c, s, a, b, n)
  PROVE  /\ Started' = Started \cup {c}
         /\ Live' = IF s = "gone" THEN Live \ {c} ELSE Live \cup {c}
         /\ Running' = IF s = "running" THEN Running \cup {c}
                       ELSE Running \ {c}
BY DEF Becomes, Started, Live, Running

(* Types: what the changed variables must be.                               *)
LEMMA ReadyIsRunning ==
  ASSUME TypeOK, NEW c \in Containers, NEW s, NEW a, NEW b \in BOOLEAN,
         NEW n, Becomes(c, s, a, b, n), b => s = "running"
  PROVE  \A d \in Containers : docker'[d].ready => docker'[d].state = "running"
BY DEF Becomes, TypeOK

-----------------------------------------------------------------------------
(* Steps that change no process *)

LEMMA QuietParts ==
  ASSUME StackInv, UNCHANGED <<registry, docker>>
  PROVE  /\ Numbered' /\ Live' = Live /\ Running' = Running
         /\ Registered' = Registered
<1>1. Started' = Started /\ Live' = Live /\ Running' = Running
  BY DEF Started, Live, Running
<1>2. Numbered'
  BY <1>1 DEF StackInv, Numbered
<1>3. Registered' = Registered
  BY DEF Registered
<1> QED BY <1>1, <1>2, <1>3

LEMMA QuietWorkers ==
  ASSUME StackInv, op' \in {op, "booting"},
         UNCHANGED <<registry, docker, flag, unready, stray>>
  PROVE  Workers'
BY DEF StackInv, Workers

LEMMA CreateNetworkStep ==
  ASSUME TypeOK, StackInv, CreateNetwork
  PROVE  TypeOK' /\ StackInv'
<1>1. UNCHANGED <<registry, docker, flag, unready, stray, displaced, op>>
  BY DEF CreateNetwork, history
<1>2. TypeOK'
  BY DEF CreateNetwork, TypeOK, history
<1>3. Phases'
  BY DEF CreateNetwork, StackInv, Phases
<1>4. Handing'
  BY <1>1 DEF CreateNetwork, StackInv, Handing
<1>5. Leftovers'
  BY <1>1, QuietParts DEF CreateNetwork, StackInv, Leftovers
<1> QED BY <1>1, <1>2, <1>3, <1>4, <1>5, QuietParts, QuietWorkers DEF StackInv

LEMMA CaptureStep ==
  ASSUME TypeOK, StackInv, Capture
  PROVE  TypeOK' /\ StackInv'
<1>1. UNCHANGED <<registry, docker, flag, unready, stray, displaced, phase,
                  step, op, baseURL, handover, tainted, exits, network>>
  BY DEF Capture, run
<1>2. Asked \subseteq Containers
  BY DEF Asked, Registered, TypeOK
<1>3. TypeOK'
  BY <1>1, <1>2 DEF Capture, TypeOK
<1>4. Phases' /\ Handing'
  BY <1>1 DEF StackInv, Phases, Handing
<1>5. phase # "closed"
  BY DEF Capture, CanCall
<1>6. Leftovers'
  BY <1>1, <1>5, QuietParts DEF StackInv, Leftovers
<1> QED BY <1>1, <1>3, <1>4, <1>6, QuietParts, QuietWorkers DEF StackInv

(* Waiting for the API, and the calls of StartAPI that start nothing.       *)
LEMMA WaitingStep ==
  ASSUME TypeOK, StackInv, Waiting \/ StartAPIRunning
  PROVE  TypeOK' /\ StackInv'
<1>1. /\ UNCHANGED <<registry, docker, unready, displaced, phase, step, network,
                     exits, logged, captured, trouble>>
      /\ phase = "up"
  BY DEF Waiting, APIBooted, APIReady, Deadline, StartAPIRunning, run,
         history, StackInv, Phases, CanCall
<1> DEFINE c == registry[API]
<1>2. c \in Containers
  BY <1>1, ServiceNames DEF StackInv, Phases, TypeOK
<1>3. docker[c].boot \in Nat
  BY <1>2 DEF TypeOK, Process
<1>4. ASSUME baseURL = <<c, docker[c].boot>>, docker[c].ready
      PROVE  Handed(baseURL) = "usable"
  <2>1. baseURL[1] = c
    BY <1>4
  <2> QED BY <1>4, <2>1 DEF Handed
<1>5. Handed(baseURL) \in {"usable", "unusable"}
  BY DEF Handed
<1>0. ASSUME APIBooted
      PROVE  /\ handover' = handover /\ op = "booting"
             /\ flag' = [flag EXCEPT ![c] = TRUE] /\ stray' = stray \ {c}
             /\ \/ /\ baseURL' = <<c, docker[c].boot>>
                   /\ op' = "polling" /\ tainted' = tainted
                \/ baseURL' = baseURL /\ op' = "idle" /\ tainted' = TRUE
  BY <1>0, Zenon DEF APIBooted
<1>a. ASSUME APIReady \/ Deadline \/ StartAPIRunning
      PROVE  flag' = flag
  BY <1>a DEF APIReady, Deadline, StartAPIRunning
<1>b. ASSUME APIReady \/ StartAPIRunning
      PROVE  stray' = stray /\ op # "booting"
  BY <1>b DEF APIReady, StartAPIRunning, history, CanCall
<1>c. ASSUME Deadline
      PROVE  stray' = IF op = "booting" THEN stray \cup {c} ELSE stray
  BY <1>c DEF Deadline
<1>d. flag' \in [Containers -> BOOLEAN] /\ stray' \subseteq Containers
  <2>1. CASE APIBooted
    BY <1>0, <1>2, <2>1 DEF TypeOK
  <2>2. CASE Deadline
    BY <1>2, <1>a, <1>c, <2>2 DEF TypeOK
  <2>3. CASE APIReady \/ StartAPIRunning
    BY <1>a, <1>b, <2>3 DEF TypeOK
  <2> QED BY <2>1, <2>2, <2>3 DEF Waiting
<1>e. Workers'
  <2>1. CASE APIBooted
    <3>1. flag'[c] /\ \A d \in Containers \ {c} : flag'[d] = flag[d]
      BY <1>0, <1>2, <2>1 DEF TypeOK
    <3> QED BY <1>0, <1>1, <2>1, <3>1 DEF StackInv, Workers
  <2>2. CASE Deadline
    BY <1>1, <1>a, <1>c, <2>2 DEF StackInv, Workers
  <2>3. CASE APIReady \/ StartAPIRunning
    BY <1>1, <1>a, <1>b, <2>3 DEF StackInv, Workers
  <2> QED BY <2>1, <2>2, <2>3 DEF Waiting
<1>6. /\ op' \in {"idle", "polling"} /\ tainted' \in BOOLEAN
      /\ handover' \in {"none", "usable", "unusable"}
      /\ baseURL' \in (Containers \cup {None}) \X Nat
  <2>1. CASE APIBooted
    <3>1. <<c, docker[c].boot>> \in (Containers \cup {None}) \X Nat
      BY <1>2, <1>3
    <3> QED BY <1>0, <2>1, <3>1 DEF TypeOK
  <2>2. CASE APIReady
    BY <1>5, <2>2 DEF APIReady, TypeOK
  <2>3. CASE Deadline
    BY <2>3 DEF Deadline, TypeOK
  <2>4. CASE StartAPIRunning
    BY <1>5, <2>4 DEF StartAPIRunning, run, CanCall, TypeOK
  <2> QED BY <2>1, <2>2, <2>3, <2>4 DEF Waiting
<1>7. TypeOK'
  BY <1>1, <1>6, <1>d DEF TypeOK
<1>8. Phases'
  BY <1>1 DEF StackInv, Phases
<1>9. Handing'
  <2>1. CASE APIBooted
    BY <1>0, <1>1, <2>1 DEF StackInv, Handing
  <2>2. CASE APIReady
    <3>1. baseURL = <<c, docker[c].boot>> /\ docker[c].ready
      BY <2>2 DEF APIReady, StackInv, Handing
    <3>2. handover' = "usable"
      BY <1>4, <2>2, <3>1 DEF APIReady
    <3>3. op' = "idle" /\ baseURL' = baseURL
      BY <2>2 DEF APIReady
    <3> QED BY <1>1, <3>1, <3>2, <3>3 DEF Handing
  <2>3. CASE Deadline
    BY <1>1, <2>3 DEF Deadline, StackInv, Handing
  <2>4. CASE StartAPIRunning
    <3>1. op = "idle" /\ flag[c] /\ UNCHANGED <<op, baseURL, tainted>>
          /\ handover' = Handed(baseURL)
      BY <2>4 DEF StartAPIRunning, CanCall, run
    <3>2. ~tainted => handover' = "usable"
      BY <1>1, <1>4, <3>1 DEF StackInv, Handing
    <3> QED BY <1>1, <1>a, <2>4, <3>1, <3>2 DEF StackInv, Handing
  <2> QED BY <2>1, <2>2, <2>3, <2>4 DEF Waiting
<1>10. Leftovers'
  BY <1>1, QuietParts DEF StackInv, Leftovers
<1> QED BY <1>1, <1>7, <1>8, <1>9, <1>10, <1>e, QuietParts DEF StackInv

-----------------------------------------------------------------------------
(* The processes themselves *)

LEMMA BecomeReadyStep ==
  ASSUME TypeOK, StackInv, NEW c \in Containers, BecomeReady(c)
  PROVE  TypeOK' /\ StackInv'
<1>1. /\ UNCHANGED <<registry, network, baseURL, phase, step, op, exits, flag,
                     handover, tainted, unready, stray, displaced, logged,
                     captured, trouble>>
      /\ docker[c].state = "running"
  BY DEF BecomeReady, run, history
<1>2. Becomes(c, "running", docker[c].api, TRUE, docker[c].boot)
  <2>1. docker \in [Containers -> Process] /\ docker[c] \in Process
    BY DEF TypeOK
  <2> DEFINE p == [docker[c] EXCEPT !.ready = TRUE]
  <2>2. /\ p \in Process /\ p.state = "running" /\ p.api = docker[c].api
        /\ p.ready = TRUE /\ p.boot = docker[c].boot
    BY <1>1, <2>1 DEF Process
  <2>3. docker' = [docker EXCEPT ![c] = p]
    BY <2>1 DEF BecomeReady
  <2> HIDE DEF p
  <2> QED BY <2>1, <2>2, <2>3 DEF Becomes
<1>3. Started' = Started /\ Live' = Live /\ Running' = Running
  BY <1>1, <1>2, SetsAfter DEF Started, Live, Running
<1>4. TypeOK'
  BY <1>1, <1>2, ReadyIsRunning DEF TypeOK, Becomes
<1>5. Numbered' /\ Phases'
  BY <1>1, <1>3 DEF StackInv, Numbered, Phases
<1>6. Workers'
  BY <1>1, <1>2 DEF StackInv, Workers, Becomes
<1>7. Handing'
  <2>1. phase = "up" => registry[API] \in Containers
    BY ServiceNames DEF StackInv, Phases, TypeOK
  <2>2. \A d \in Containers : /\ docker'[d].boot = docker[d].boot
                              /\ docker[d].ready => docker'[d].ready
    BY <1>2 DEF Becomes
  <2> QED BY <1>1, <2>1, <2>2 DEF StackInv, Handing, Phases
<1>8. Leftovers'
  BY <1>1, <1>3 DEF StackInv, Leftovers, Registered
<1> QED BY <1>4, <1>5, <1>6, <1>7, <1>8 DEF StackInv

(* A process that ends, by itself or because the client stopped it.         *)
LEMMA EndsStep ==
  ASSUME TypeOK, StackInv, NEW c \in Containers, phase = "up",
         docker[c].state # "unused",
         docker' = [docker EXCEPT ![c].state = "exited", ![c].ready = FALSE],
         \/ tainted' = TRUE /\ flag' = flag /\ stray' = stray
         \/ /\ tainted' = FALSE /\ handover' # "unusable" /\ op = "idle"
            /\ c = registry[API] /\ flag' = [flag EXCEPT ![c] = FALSE]
            /\ stray' = stray \ {c},
         exits' \in Nat, handover' \in {handover, "none"},
         docker[c].state = "gone" => c \in Registered,
         UNCHANGED <<registry, network, baseURL, phase, step, op, unready,
                     displaced, logged, captured, trouble>>
  PROVE  TypeOK' /\ StackInv'
<1>1. Becomes(c, "exited", docker[c].api, FALSE, docker[c].boot)
  BY StopView
<1>2. Started' = Started /\ Live' = Live \cup {c} /\ Running' = Running \ {c}
  <2>1. c \in Started
    BY DEF Started
  <2> QED BY <1>1, <2>1 DEF Becomes, Started, Live, Running
<1>3. \A d \in Containers \ {c} : d \in stray => d \in stray'
  OBVIOUS
<1>4. TypeOK'
  <2>1. /\ flag' \in [Containers -> BOOLEAN] /\ tainted' \in BOOLEAN
        /\ stray' \subseteq Containers
        /\ handover' \in {"none", "usable", "unusable"}
    BY DEF TypeOK
  <2>2. /\ docker' \in [Containers -> Process]
        /\ \A d \in Containers :
             docker'[d].ready => docker'[d].state = "running"
    BY <1>1, ReadyIsRunning DEF Becomes
  <2> QED BY <2>1, <2>2 DEF TypeOK
<1>5. Numbered' /\ Phases'
  BY <1>2 DEF StackInv, Numbered, Phases
<1>6. Workers'
  <2>1. flag \in [Containers -> BOOLEAN]
    BY DEF TypeOK
  <2>2. \A d \in Containers \ {c} : docker'[d] = docker[d] /\ flag'[d] = flag[d]
    BY <1>1, <2>1 DEF Becomes
  <2>3. docker'[c].state # "running"
    BY <1>1 DEF Becomes
  <2> QED BY <1>3, <2>2, <2>3 DEF StackInv, Workers
<1>7. Handing'
  <2>1. registry[API] \in Containers
    BY ServiceNames DEF StackInv, Phases, TypeOK
  <2>2. \A d \in Containers : docker'[d].boot = docker[d].boot
    BY <1>1 DEF Becomes
  <2>3. tainted' = FALSE => op # "polling" /\ ~flag'[registry[API]]
    BY DEF TypeOK
  <2> QED BY <2>1, <2>2, <2>3 DEF StackInv, Handing
<1>8. c \in Live \/ c \in Registered
  BY DEF Live, TypeOK, Process
<1>9. Leftovers'
  BY <1>2, <1>8 DEF StackInv, Leftovers, Registered
<1> QED BY <1>4, <1>5, <1>6, <1>7, <1>9 DEF StackInv

LEMMA ExitStep ==
  ASSUME TypeOK, StackInv, NEW c \in Containers, Exit(c)
  PROVE  TypeOK' /\ StackInv'
<1>1. exits' \in Nat
  BY DEF Exit, TypeOK
<1> QED BY <1>1, EndsStep DEF Exit, history

(* The API is registered and created whenever a call may be made.           *)
LEMMA APIExists ==
  ASSUME TypeOK, StackInv, phase = "up"
  PROVE  /\ registry[API] \in Containers /\ registry[API] \in Registered
         /\ registry[API] \in Started
         /\ docker[registry[API]].state # "unused"
         /\ docker[registry[API]].boot \in Nat
<1>1. registry[API] \in Containers /\ registry[API] \in Registered
  BY ServiceNames DEF StackInv, Phases, TypeOK, Registered
<1>2. registry[API] \in Started
  BY ServiceNames DEF StackInv, Phases, Numbered
<1> QED BY <1>1, <1>2 DEF Started, TypeOK, Process

LEMMA StopAPIStep ==
  ASSUME TypeOK, StackInv, StopAPI
  PROVE  TypeOK' /\ StackInv'
<1> DEFINE c == registry[API]
<1>1. phase = "up" /\ op = "idle"
  BY DEF StopAPI, CanCall
<1>2. /\ c \in Containers /\ c \in Registered
      /\ docker[c].state # "unused"
  BY <1>1, APIExists
<1>3. /\ UNCHANGED <<registry, network, baseURL, phase, step, op, unready,
                     displaced, logged, captured, trouble>>
      /\ exits' \in Nat /\ handover' = "none"
  BY DEF StopAPI, run, TypeOK
<1>4. \/ /\ docker' = [docker EXCEPT ![c].state = "exited", ![c].ready = FALSE]
         /\ \/ tainted' = TRUE /\ flag' = flag /\ stray' = stray
            \/ /\ tainted' = FALSE /\ flag' = [flag EXCEPT ![c] = FALSE]
               /\ stray' = stray \ {c}
      \/ docker' = docker /\ flag' = flag /\ stray' = stray /\ tainted' = TRUE
  BY Zenon DEF StopAPI
<1>5. CASE docker' = docker /\ flag' = flag /\ stray' = stray /\ tainted' = TRUE
  <2>1. UNCHANGED <<registry, docker, flag, unready, stray, displaced, logged,
                    captured, trouble, op>>
    BY <1>3, <1>5
  <2>2. TypeOK'
    BY <1>3, <1>5, <2>1 DEF TypeOK
  <2>3. Phases' /\ Handing'
    BY <1>1, <1>3, <1>5, <2>1 DEF StackInv, Phases, Handing
  <2>4. Leftovers'
    BY <1>3, <2>1, QuietParts DEF StackInv, Leftovers
  <2> QED BY <2>1, <2>2, <2>3, <2>4, QuietParts, QuietWorkers DEF StackInv
<1>6. CASE /\ docker' = [docker EXCEPT ![c].state = "exited",
                                       ![c].ready = FALSE]
           /\ \/ tainted' = TRUE /\ flag' = flag /\ stray' = stray
              \/ /\ tainted' = FALSE /\ flag' = [flag EXCEPT ![c] = FALSE]
                 /\ stray' = stray \ {c}
  BY <1>1, <1>2, <1>3, <1>6, EndsStep
<1> QED BY <1>4, <1>5, <1>6

-----------------------------------------------------------------------------
(* Containers that are created *)

Created(c, state) ==
  /\ docker' \in [Containers -> Process]
  /\ docker'[c].state = state /\ (docker'[c].ready => state = "running")
  /\ \A d \in Containers \ {c} : docker'[d] = docker[d]

(* One that gets no name: left running as not ready, or removed again.      *)
LEMMA UnnamedStep ==
  ASSUME TypeOK, StackInv, NEW c \in Fresh, NEW s \in {"running", "gone"},
         Created(c, s),
         unready' = IF s = "running" THEN unready \cup {c} ELSE unready,
         trouble' \in BOOLEAN,
         phase # "closed",
         phase' = phase \/ (phase = "starting" /\ phase' = "failing"),
         handover' \in {handover, "none"},
         UNCHANGED <<registry, network, baseURL, step, op, exits, flag,
                     tainted, stray, displaced, logged, captured>>
  PROVE  TypeOK' /\ StackInv'
<1>1. /\ c \in Containers /\ c \notin Started /\ c # None
      /\ \A m \in Names : registry[m] # c
      /\ \E k \in 0 .. MaxContainers : Started \cup {c} = 1 .. k
  BY FreshIsUnused DEF StackInv
<1>2. /\ Started' = Started \cup {c} /\ Live' \subseteq Live \cup {c}
      /\ s = "gone" => Live' \subseteq Live
  BY <1>1 DEF Created, Started, Live
<1>3. TypeOK'
  <2>1. unready' \subseteq Containers
    BY <1>1 DEF TypeOK
  <2>2. /\ docker' \in [Containers -> Process]
        /\ \A d \in Containers :
             docker'[d].ready => docker'[d].state = "running"
    BY <1>1 DEF Created, TypeOK
  <2>3. /\ phase' \in {"starting", "failing", "up", "closed"}
        /\ handover' \in {"none", "usable", "unusable"}
    BY DEF TypeOK
  <2> QED BY <2>1, <2>2, <2>3 DEF TypeOK
<1>4. Numbered'
  BY <1>1, <1>2 DEF StackInv, Numbered
<1>5. Phases'
  BY DEF StackInv, Phases
<1>6. Workers'
  <2>1. /\ \A d \in Containers \ {c} : docker'[d] = docker[d]
        /\ docker'[c].state = s
    BY <1>1 DEF Created, TypeOK
  <2> QED BY <2>1 DEF StackInv, Workers
<1>7. Handing'
  <2>1. phase = "up" => docker'[registry[API]] = docker[registry[API]]
    BY <1>1, APIExists, ServiceNames DEF Created, TypeOK
  <2> QED BY <2>1 DEF StackInv, Handing, Phases
<1>8. Leftovers'
  BY <1>2 DEF StackInv, Leftovers, Registered
<1> QED BY <1>3, <1>4, <1>5, <1>6, <1>7, <1>8 DEF StackInv

LEMMA StartServiceFailsStep ==
  ASSUME TypeOK, StackInv, StartServiceFails
  PROVE  TypeOK' /\ StackInv'
<1>1. /\ phase = "starting" /\ phase' = "failing"
      /\ UNCHANGED <<registry, network, baseURL, step, op, exits, flag,
                     handover, tainted, stray, displaced, logged, captured,
                     trouble>>
  BY DEF StartServiceFails
<1>2. CASE UNCHANGED <<docker, unready>>
  <2>1. TypeOK'
    BY <1>1, <1>2 DEF TypeOK
  <2>2. Phases' /\ Handing'
    BY <1>1, <1>2 DEF StackInv, Phases, Handing
  <2>3. Leftovers'
    BY <1>1, <1>2, QuietParts DEF StackInv, Leftovers
  <2> QED BY <1>1, <1>2, <2>1, <2>2, <2>3, QuietParts, QuietWorkers
          DEF StackInv
<1>3. ASSUME NEW c \in Fresh,
             docker' = [docker EXCEPT ![c] =
                          Booted(c, Service(step) = API, FALSE)],
             unready' = unready \cup {c}
      PROVE  TypeOK' /\ StackInv'
  <2>1. c \in Containers /\ (Service(step) = API) \in BOOLEAN
    BY DEF Fresh
  <2>2. Becomes(c, "running", Service(step) = API, FALSE, docker[c].boot + 1)
    BY <1>3, <2>1, BootView
  <2>4. Created(c, "running")
    BY <2>2 DEF Becomes, Created
  <2>3. trouble' \in BOOLEAN
    BY <1>1 DEF TypeOK
  <2> QED BY <1>1, <1>3, <2>3, <2>4, UnnamedStep
<1> QED BY <1>2, <1>3 DEF StartServiceFails

LEMMA ReplacementFailsStep ==
  ASSUME TypeOK, StackInv, ReplacementFails
  PROVE  TypeOK' /\ StackInv'
<1>1. /\ phase = "up" /\ phase' = "up" /\ handover' = "none"
      /\ UNCHANGED <<registry, network, baseURL, step, op, exits, flag,
                     tainted, stray, displaced, logged, captured>>
  BY DEF ReplacementFails, Replaceable, CanCall, run
<1>2. CASE UNCHANGED <<docker, unready, trouble>>
  <2>1. TypeOK'
    BY <1>1, <1>2 DEF TypeOK
  <2>2. Phases' /\ Handing'
    BY <1>1, <1>2 DEF StackInv, Phases, Handing
  <2>3. Leftovers'
    BY <1>1, <1>2, QuietParts DEF StackInv, Leftovers
  <2> QED BY <1>1, <1>2, <2>1, <2>2, <2>3, QuietParts, QuietWorkers
          DEF StackInv
<1>3. ASSUME NEW c \in Fresh,
             \/ /\ docker' = [docker EXCEPT ![c] = Booted(c, TRUE, FALSE)]
                /\ unready' = unready \cup {c} /\ trouble' = trouble
             \/ /\ docker' = [docker EXCEPT ![c] =
                                [Booted(c, TRUE, FALSE) EXCEPT
                                   !.state = "gone"]]
                /\ UNCHANGED <<unready, trouble>>
             \/ /\ docker' = [docker EXCEPT ![c] = Booted(c, TRUE, TRUE)]
                /\ unready' = unready \cup {c} /\ trouble' = TRUE
      PROVE  TypeOK' /\ StackInv'
  <2>1. c \in Containers /\ trouble' \in BOOLEAN
    BY <1>3 DEF Fresh, TypeOK
  <2>a. /\ phase # "closed" /\ phase' = phase
        /\ handover' \in {handover, "none"}
    BY <1>1
  <2>2. CASE /\ docker' = [docker EXCEPT ![c] = Booted(c, TRUE, FALSE)]
             /\ unready' = unready \cup {c}
    <3>1. Becomes(c, "running", TRUE, FALSE, docker[c].boot + 1)
      BY <2>1, <2>2, BootView
    <3>2. Created(c, "running")
      BY <3>1 DEF Becomes, Created
    <3>3. unready' = unready \cup {c}
      BY <2>2
    <3> QED BY <1>1, <2>1, <2>a, <3>2, <3>3, UnnamedStep
  <2>3. CASE /\ docker' = [docker EXCEPT ![c] =
                             [Booted(c, TRUE, FALSE) EXCEPT !.state = "gone"]]
             /\ unready' = unready
    <3> DEFINE p == [Booted(c, TRUE, FALSE) EXCEPT !.state = "gone"]
    <3>1. docker \in [Containers -> Process] /\ docker[c].boot \in Nat
      BY <2>1 DEF TypeOK, Process
    <3>2. p \in Process /\ p.state = "gone" /\ p.ready = FALSE
      <4>1. Booted(c, TRUE, FALSE) \in Process
            /\ Booted(c, TRUE, FALSE).ready = FALSE
        BY <3>1 DEF Booted, Process
      <4> QED BY <4>1 DEF Process
    <3> HIDE DEF p
    <3>3. docker' = [docker EXCEPT ![c] = p]
      BY <2>3 DEF p
    <3>4. Created(c, "gone")
      BY <2>1, <3>1, <3>2, <3>3 DEF Created
    <3>5. unready' = unready
      BY <2>3
    <3> QED BY <1>1, <2>1, <2>a, <3>4, <3>5, UnnamedStep
  <2>4. CASE /\ docker' = [docker EXCEPT ![c] = Booted(c, TRUE, TRUE)]
             /\ unready' = unready \cup {c}
    <3>1. Becomes(c, "running", TRUE, TRUE, docker[c].boot + 1)
      BY <2>1, <2>4, BootView
    <3>2. Created(c, "running")
      BY <3>1 DEF Becomes, Created
    <3>3. unready' = unready \cup {c}
      BY <2>4
    <3> QED BY <1>1, <2>1, <2>a, <3>2, <3>3, UnnamedStep
  <2> QED BY <1>3, <2>2, <2>3, <2>4
<1> QED BY <1>2, <1>3 DEF ReplacementFails

LEMMA StartServiceStep ==
  ASSUME TypeOK, StackInv, StartService
  PROVE  TypeOK' /\ StackInv'
<1> DEFINE n == Service(step)
<1>1. /\ phase = "starting" /\ step \in 1 .. 4 /\ step' = step + 1
      /\ UNCHANGED <<network, op, exits, tainted, unready, stray, displaced,
                     logged, captured, trouble>>
  BY DEF StartService, history, TypeOK
<1>2. PICK c \in Fresh :
        /\ docker' = [docker EXCEPT ![c] = Booted(c, n = API, TRUE)]
        /\ flag' = [flag EXCEPT ![c] = TRUE]
        /\ registry' = [registry EXCEPT ![n] = c]
        /\ \/ phase' = "failing" /\ UNCHANGED <<baseURL, handover>>
           \/ /\ phase' = IF step = 4 THEN "up" ELSE "starting"
              /\ baseURL' = IF step = 4 THEN <<c, docker'[c].boot>>
                            ELSE baseURL
              /\ handover' = IF step = 4 THEN "usable" ELSE "none"
  BY DEF StartService
<1>3. /\ c \in Containers /\ c \notin Started /\ c # None
      /\ \A m \in Names : registry[m] # c
      /\ \E k \in 0 .. MaxContainers : Started \cup {c} = 1 .. k
  BY FreshIsUnused DEF StackInv
<1>4. /\ n \in Names /\ (n = API <=> step = 4) /\ (n = API) \in BOOLEAN
      /\ registry[n] = None /\ registry[API] = None /\ API \in Names
  <2>1. registry[Service(4)] = None /\ registry[n] = None
    BY <1>1 DEF StackInv, Phases
  <2>2. Service(4) = API
    BY ServiceNames
  <2> QED BY <1>1, <2>1, <2>2, ServiceNames
<1>5. Becomes(c, "running", n = API, TRUE, docker[c].boot + 1)
  <2> HIDE DEF n
  <2> QED BY <1>2, <1>3, <1>4, BootView
<1>6. docker'[c].boot \in Nat /\ docker' \in [Containers -> Process]
  BY <1>3, <1>5 DEF Becomes, Process
<1>7. /\ registry' \in [Names -> Containers \cup {None}] /\ registry'[n] = c
      /\ \A m \in Names \ {n} : registry'[m] = registry[m]
  BY <1>2, <1>3, <1>4 DEF TypeOK
<1>8. \/ phase' = "failing" /\ baseURL' = baseURL /\ handover' = handover
      \/ /\ step = 4 /\ phase' = "up" /\ handover' = "usable"
         /\ baseURL' = <<c, docker'[c].boot>>
      \/ /\ step # 4 /\ phase' = "starting" /\ handover' = "none"
         /\ baseURL' = baseURL
  BY <1>2, Zenon
<1> HIDE DEF n
<1>9. TypeOK'
  <2>1. \A m, l \in Names : registry'[m] = registry'[l] /\ m # l =>
                              registry'[m] = None
    BY <1>3, <1>4, <1>7 DEF TypeOK
  <2>2. step' \in 1 .. 5
    BY <1>1
  <2>5. flag' \in [Containers -> BOOLEAN]
    <3>1. flag' = [flag EXCEPT ![c] = TRUE]
      BY <1>2
    <3> QED BY <3>1 DEF TypeOK
  <2>3. \A d \in Containers : docker'[d].ready => docker'[d].state = "running"
    BY <1>3, <1>5 DEF Becomes, TypeOK
  <2>4. /\ baseURL' \in (Containers \cup {None}) \X Nat
        /\ phase' \in {"starting", "failing", "up", "closed"}
        /\ handover' \in {"none", "usable", "unusable"}
    <3>1. <<c, docker'[c].boot>> \in (Containers \cup {None}) \X Nat
      BY <1>3, <1>6
    <3> QED BY <1>8, <3>1 DEF TypeOK
  <2> QED BY <1>1, <1>6, <1>7, <2>1, <2>2, <2>3, <2>4, <2>5 DEF TypeOK
<1>10. Started' = Started \cup {c} /\ Live' = Live \cup {c}
  BY <1>3, <1>5 DEF Becomes, Started, Live
<1>11. Numbered'
  BY <1>3, <1>7, <1>10 DEF StackInv, Numbered
<1>12. Phases'
  <2>1. op = "idle"
    BY <1>1 DEF StackInv, Phases
  <2>2. ASSUME phase' = "starting", NEW i \in 1 .. 4, i >= step'
        PROVE  registry'[Service(i)] = None
    <3>1. i # step /\ i >= step
      BY <1>1, <2>2
    <3>2. Service(i) \in Names /\ Service(i) # n
      BY <1>1, <3>1, ServiceNames DEF n
    <3>3. registry[Service(i)] = None
      BY <1>1, <3>1 DEF StackInv, Phases
    <3> QED BY <1>7, <3>2, <3>3
  <2>3. phase' = "starting" => step' <= 4
    BY <1>1, <1>8
  <2>4. phase' = "up" => registry'[API] # None
    BY <1>3, <1>4, <1>7, <1>8
  <2> QED BY <1>1, <2>1, <2>2, <2>3, <2>4 DEF Phases
<1>13. Workers'
  <2>1. \A d \in Containers \ {c} : docker'[d] = docker[d] /\ flag'[d] = flag[d]
    BY <1>2, <1>3, <1>5 DEF Becomes, TypeOK
  <2>2. flag'[c] /\ (docker'[c].api => c = registry'[API])
    BY <1>2, <1>3, <1>5, <1>7 DEF Becomes, TypeOK
  <2>3. \A d \in Containers : d # registry[API]
    BY <1>4 DEF Containers, None
  <2> QED BY <1>1, <2>1, <2>2, <2>3 DEF StackInv, Workers
<1>14. Handing'
  <2>1. op = "idle"
    BY <1>1 DEF StackInv, Phases
  <2>2. phase' = "up" => /\ registry'[API] = c /\ docker'[c].ready
                         /\ baseURL' = <<c, docker'[c].boot>>
    BY <1>4, <1>5, <1>7, <1>8 DEF Becomes
  <2>3. handover' = "unusable" => handover = "unusable"
    BY <1>8
  <2> QED BY <1>1, <2>1, <2>2, <2>3 DEF StackInv, Handing
<1>15. Leftovers'
  <2>1. Registered \cup {c} \subseteq Registered'
    BY <1>3, <1>4, <1>7 DEF Registered
  <2> QED BY <1>1, <1>8, <1>10, <2>1 DEF StackInv, Leftovers
<1> QED BY <1>9, <1>11, <1>12, <1>13, <1>14, <1>15 DEF StackInv

LEMMA StartAPIStep ==
  ASSUME TypeOK, StackInv, StartAPI
  PROVE  TypeOK' /\ StackInv'
<1> DEFINE c == registry[API]
<1>1. /\ phase = "up" /\ op = "idle" /\ handover' = "none"
      /\ UNCHANGED <<registry, network, baseURL, phase, step, exits, flag,
                     unready, stray, displaced, logged, captured, trouble>>
  BY DEF StartAPI, CanCall, history
<1>2. /\ c \in Containers /\ c \in Registered /\ c \in Started
      /\ docker[c].boot \in Nat
  BY <1>1, APIExists
<1>3. ASSUME docker' = docker,
             \/ op' = op /\ tainted' = TRUE
             \/ op' = "booting" /\ tainted' = tainted
      PROVE  TypeOK' /\ StackInv'
  <2>1. TypeOK'
    BY <1>1, <1>3 DEF TypeOK
  <2>2. Phases' /\ Handing'
    BY <1>1, <1>3 DEF StackInv, Phases, Handing
  <2>3. Leftovers'
    BY <1>1, <1>3, QuietParts DEF StackInv, Leftovers
  <2> QED BY <1>1, <1>3, <2>1, <2>2, <2>3, QuietParts, QuietWorkers
          DEF StackInv
<1>4. ASSUME docker' = [docker EXCEPT ![c] = Booted(c, TRUE, FALSE)],
             op' = "booting", tainted' = tainted
      PROVE  TypeOK' /\ StackInv'
  <2>1. Becomes(c, "running", TRUE, FALSE, docker[c].boot + 1)
    BY <1>2, <1>4, BootView
  <2>2. op' = "booting" /\ tainted' = tainted
    BY <1>4
  <2>3. Started' = Started /\ Live' = Live \cup {c}
    BY <1>2, <2>1 DEF Becomes, Started, Live
  <2>4. TypeOK'
    <3>1. /\ docker' \in [Containers -> Process]
          /\ \A d \in Containers :
               docker'[d].ready => docker'[d].state = "running"
      BY <1>2, <2>1 DEF Becomes, TypeOK
    <3> QED BY <1>1, <2>2, <3>1 DEF TypeOK
  <2>5. Numbered' /\ Phases' /\ Handing'
    BY <1>1, <2>2, <2>3 DEF StackInv, Numbered, Phases, Handing
  <2>6. Workers'
    <3>1. \A d \in Containers \ {c} : docker'[d] = docker[d]
      BY <2>1 DEF Becomes
    <3> QED BY <1>1, <2>2, <3>1 DEF StackInv, Workers
  <2>7. Leftovers'
    BY <1>1, <1>2, <2>3 DEF StackInv, Leftovers, Registered
  <2> QED BY <2>4, <2>5, <2>6, <2>7 DEF StackInv
<1> QED BY <1>3, <1>4, Zenon DEF StartAPI

LEMMA StartReplacementAPIStep ==
  ASSUME TypeOK, StackInv, StartReplacementAPI
  PROVE  TypeOK' /\ StackInv'
<1> DEFINE old == registry[API]
<1>1. /\ phase = "up" /\ op = "idle" /\ tainted' = FALSE /\ ~flag[old]
      /\ displaced' = displaced \cup ({registry[Crashed]} \ {None})
      /\ handover' \in {"usable", "none"}
      /\ UNCHANGED <<network, phase, step, op, exits, unready, stray, logged,
                     captured, trouble>>
  BY DEF StartReplacementAPI, Replaceable, CanCall, run
<1>2. /\ old \in Containers /\ old \in Started /\ old # None
      /\ API \in Names /\ Crashed \in Names /\ API # Crashed
  BY <1>1, APIExists, ServiceNames DEF StackInv, Phases
<1>3. docker[old].state = "running" /\ docker[old].api =>
        old \in unready \/ old \in stray
  BY <1>1, <1>2 DEF StackInv, Workers
<1>4. PICK c \in Fresh :
        /\ docker' = [docker EXCEPT ![c] = Booted(c, TRUE, TRUE)]
        /\ flag' = [flag EXCEPT ![c] = TRUE]
        /\ registry' = Replaced(c)
        /\ baseURL' = <<c, docker'[c].boot>>
  BY DEF StartReplacementAPI
<1>5. /\ c \in Containers /\ c \notin Started /\ c # None
      /\ \A m \in Names : registry[m] # c
      /\ \E k \in 0 .. MaxContainers : Started \cup {c} = 1 .. k
  BY FreshIsUnused DEF StackInv
<1>6. Becomes(c, "running", TRUE, TRUE, docker[c].boot + 1)
  BY <1>4, <1>5, BootView
<1>7. /\ docker'[c].boot \in Nat /\ docker' \in [Containers -> Process]
      /\ docker'[c].ready
      /\ \A d \in Containers \ {c} : docker'[d] = docker[d]
  BY <1>5, <1>6 DEF Becomes, Process
<1>8. /\ registry' \in [Names -> Containers \cup {None}]
      /\ registry'[API] = c /\ registry'[Crashed] = old
      /\ \A m \in Names \ {API, Crashed} : registry'[m] = registry[m]
  BY <1>2, <1>4, <1>5 DEF TypeOK, Replaced
<1>9. /\ flag' \in [Containers -> BOOLEAN] /\ flag'[c]
      /\ \A d \in Containers \ {c} : flag'[d] = flag[d]
  <2>1. flag' = [flag EXCEPT ![c] = TRUE]
    BY <1>4
  <2> QED BY <1>5, <2>1 DEF TypeOK
<1>10. baseURL' = <<c, docker'[c].boot>>
  BY <1>4
<1>11. TypeOK'
  <2>1. \A m, l \in Names : registry'[m] = registry'[l] /\ m # l =>
                              registry'[m] = None
    BY <1>2, <1>5, <1>8 DEF TypeOK
  <2>2. \A d \in Containers : docker'[d].ready => docker'[d].state = "running"
    BY <1>6 DEF Becomes, TypeOK
  <2>3. baseURL' \in (Containers \cup {None}) \X Nat
    BY <1>5, <1>7, <1>10
  <2>4. displaced' \subseteq Containers
    BY <1>1, <1>2 DEF TypeOK
  <2> QED BY <1>1, <1>7, <1>8, <1>9, <2>1, <2>2, <2>3, <2>4 DEF TypeOK
<1>12. Started' = Started \cup {c} /\ Live' = Live \cup {c}
  BY <1>5, <1>6 DEF Becomes, Started, Live
<1>13. Numbered'
  BY <1>2, <1>5, <1>8, <1>12 DEF StackInv, Numbered
<1>14. Phases'
  BY <1>1, <1>5, <1>8 DEF StackInv, Phases
<1>15. Workers'
  BY <1>1, <1>3, <1>7, <1>8, <1>9 DEF StackInv, Workers
<1>16. Handing'
  BY <1>1, <1>7, <1>8, <1>10 DEF StackInv, Handing
<1>17. Leftovers'
  <2>1. Registered \cup {c} \subseteq Registered' \cup displaced'
    BY <1>1, <1>2, <1>5, <1>8 DEF Registered
  <2>2. displaced \subseteq displaced'
    BY <1>1
  <2> QED BY <1>1, <1>12, <2>1, <2>2 DEF StackInv, Leftovers
<1> QED BY <1>11, <1>13, <1>14, <1>15, <1>16, <1>17 DEF StackInv

-----------------------------------------------------------------------------
(* Close *)

LEMMA CloseStep ==
  ASSUME TypeOK, StackInv, Close
  PROVE  TypeOK' /\ StackInv'
<1>1. /\ phase # "closed" /\ phase' = "closed" /\ handover' = "none"
      /\ UNCHANGED <<registry, baseURL, step, op, flag, tainted, unready,
                     stray, displaced, logged, captured, exits>>
      /\ op = "idle"
  BY DEF Close, CanCall, StackInv, Phases
<1>2. PICK removed \in SUBSET Registered :
        /\ docker' = [c \in Containers |->
                        IF c \in removed
                        THEN [docker[c] EXCEPT !.state = "gone",
                                               !.ready = FALSE]
                        ELSE docker[c]]
        /\ trouble' = (trouble \/ removed # Registered)
        /\ network' = (network /\ Running \ removed # {})
  BY NamesAre DEF Close, Registered
<1>3. \A c \in Containers :
        /\ docker'[c] \in Process
        /\ c \in removed => docker'[c].state = "gone" /\ ~docker'[c].ready
        /\ c \notin removed => docker'[c] = docker[c]
  <2> TAKE c \in Containers
  <2>1. docker[c] \in Process
    BY DEF TypeOK
  <2> DEFINE p == [docker[c] EXCEPT !.state = "gone", !.ready = FALSE]
  <2>2. p \in Process /\ p.state = "gone" /\ p.ready = FALSE
    BY <2>1 DEF Process
  <2>3. docker'[c] = IF c \in removed THEN p ELSE docker[c]
    BY <1>2
  <2> HIDE DEF p
  <2> QED BY <2>1, <2>2, <2>3
<1>4. docker' \in [Containers -> Process]
  <2>1. docker' = [c \in Containers |-> docker'[c]]
    BY <1>2
  <2> QED BY <1>3, <2>1
<1>5. removed \subseteq Started
  BY DEF Registered, StackInv, Numbered
<1>6. /\ Started' = Started /\ Live' = Live \ removed
      /\ Running' = Running \ removed
  BY <1>3, <1>5 DEF Started, Live, Running
<1>7. /\ trouble' \in BOOLEAN /\ network' \in BOOLEAN
      /\ ~trouble' => removed = Registered
      /\ network' => Running \ removed # {}
  BY <1>2
<1>8. TypeOK'
  <2>1. \A d \in Containers : docker'[d].ready => docker'[d].state = "running"
    BY <1>3 DEF TypeOK
  <2> QED BY <1>1, <1>4, <1>7, <2>1 DEF TypeOK
<1>9. Numbered'
  BY <1>1, <1>6 DEF StackInv, Numbered
<1>10. Phases' /\ Handing'
  BY <1>1 DEF StackInv, Phases, Handing
<1>11. Workers'
  BY <1>1, <1>3 DEF StackInv, Workers
<1>12. Leftovers'
  BY <1>1, <1>6, <1>7 DEF StackInv, Leftovers
<1> QED BY <1>8, <1>9, <1>10, <1>11, <1>12 DEF StackInv

-----------------------------------------------------------------------------
LEMMA StackInit == Init => TypeOK /\ StackInv
<1> SUFFICES ASSUME Init PROVE TypeOK /\ StackInv
  OBVIOUS
<1>1. Unused \in Process /\ Unused.state = "unused" /\ ~Unused.ready
  BY DEF Unused, Process
<1>2. \A c \in Containers : docker[c] = Unused
  BY DEF Init
<1>3. \A n \in Names : registry[n] = None
  BY DEF Init
<1>4. TypeOK
  <2>1. /\ registry \in [Names -> Containers \cup {None}]
        /\ \A m, n \in Names : registry[m] = registry[n] /\ m # n =>
                                registry[m] = None
    BY <1>3 DEF Init
  <2>2. /\ docker \in [Containers -> Process]
        /\ \A c \in Containers : docker[c].ready => docker[c].state = "running"
    BY <1>1, <1>2 DEF Init
  <2>3. baseURL \in (Containers \cup {None}) \X Nat
    BY DEF Init
  <2>4. flag \in [Containers -> BOOLEAN]
    BY DEF Init
  <2>5. /\ network \in BOOLEAN /\ tainted \in BOOLEAN
        /\ captured \in BOOLEAN /\ trouble \in BOOLEAN
    BY DEF Init
  <2>6. /\ step \in 1 .. 5 /\ exits \in Nat
        /\ phase \in {"starting", "failing", "up", "closed"}
        /\ op \in {"idle", "booting", "polling"}
        /\ handover \in {"none", "usable", "unusable"}
        /\ unready \subseteq Containers /\ stray \subseteq Containers
        /\ displaced \subseteq Containers /\ logged \subseteq Containers
    BY DEF Init
  <2> QED BY <2>1, <2>2, <2>3, <2>4, <2>5, <2>6 DEF TypeOK
<1>5. Numbered
  <2>1. Started = 1 .. 0 /\ 0 \in 0 .. MaxContainers
    BY <1>1, <1>2, StackAssumption DEF Started
  <2> QED BY <1>3, <2>1 DEF Numbered
<1>6. Phases
  BY <1>3, ServiceNames DEF Init, Phases
<1>7. Workers /\ Handing
  BY <1>1, <1>2 DEF Init, Workers, Handing
<1>8. Leftovers
  BY <1>1, <1>2 DEF Init, Leftovers, Live
<1> QED BY <1>4, <1>5, <1>6, <1>7, <1>8 DEF StackInv

LEMMA StackStutter ==
  ASSUME TypeOK, StackInv, UNCHANGED vars
  PROVE  TypeOK' /\ StackInv'
<1>1. TypeOK'
  BY DEF TypeOK, vars
<1>2. Phases' /\ Handing'
  BY DEF StackInv, Phases, Handing, vars
<1>3. Numbered' /\ Workers' /\ Leftovers'
  BY QuietParts, QuietWorkers DEF StackInv, Leftovers, vars
<1> QED BY <1>1, <1>2, <1>3 DEF StackInv

LEMMA StackStep ==
  ASSUME TypeOK, StackInv, [Next]_vars
  PROVE  TypeOK' /\ StackInv'
BY CreateNetworkStep, StartServiceFailsStep, StartServiceStep, StopAPIStep,
   StartAPIStep, WaitingStep, ReplacementFailsStep, StartReplacementAPIStep,
   CaptureStep, CloseStep, BecomeReadyStep, ExitStep, StackStutter
   DEF Next, StartStep

LEMMA StackInvariant == Spec => [](TypeOK /\ StackInv)
<1>1. TypeOK /\ StackInv /\ [Next]_vars => (TypeOK /\ StackInv)'
  BY StackStep
<1> QED BY <1>1, StackInit, PTL DEF Spec

(* Type correctness, with its two facts about the registry and readiness:   *)
(* no two names ever stand for one container (Start, StartReplacementAPI).  *)
THEOREM StackTypes == Spec => []TypeOK
BY StackInvariant, PTL

(* Two API processes never run at once, over any number of crashes,         *)
(* restarts and replacements, but for those whose start was reported as     *)
(* failed: an unready container, or a restart that ended in its wait.       *)
THEOREM StackHasOneWorker == Spec => []OneWorker
<1>1. StackInv => OneWorker
  <2> SUFFICES ASSUME StackInv PROVE OneWorker
    OBVIOUS
  <2> DEFINE W == {c \in Running : docker[c].api} \ (unready \cup stray)
  <2>1. W \subseteq {registry[API]}
    BY DEF StackInv, Workers, Running
  <2>2. IsFiniteSet({registry[API]}) /\ Cardinality({registry[API]}) = 1
    BY FS_Singleton
  <2>3. Cardinality(W) <= Cardinality({registry[API]})
    BY <2>1, <2>2, FS_Subset
  <2> QED BY <2>2, <2>3 DEF OneWorker
<1> QED BY <1>1, StackInvariant, PTL

(* Where no earlier call failed and no process died, a nil error always     *)
(* hands over a ready API at the current URL, however often it was          *)
(* restarted or replaced.                                                   *)
THEOREM StackHandsOverUsable == Spec => []HandoverUsableUnlessTainted
<1>1. StackInv => HandoverUsableUnlessTainted
  BY DEF StackInv, Handing, HandoverUsableUnlessTainted
<1> QED BY <1>1, StackInvariant, PTL

(* A Close that Docker did not refuse removes every container that has a    *)
(* name, and nothing else than an unready or displaced one remains.         *)
THEOREM StackCloseIsComplete == Spec => []CloseRemovesWhatIsNamed
<1>1. StackInv => CloseRemovesWhatIsNamed
  BY DEF StackInv, Leftovers, CloseRemovesWhatIsNamed
<1> QED BY <1>1, StackInvariant, PTL

(* A Capture that Docker did not refuse has the logs of every container     *)
(* that exists, but for unready and displaced ones, whenever it is called   *)
(* and whatever happened before.                                            *)
THEOREM StackCaptureIsComplete == Spec => CaptureIsComplete
<1>1. ASSUME StackInv, [Next]_vars, ~captured, captured', ~trouble'
      PROVE  Live \subseteq logged' \cup unready \cup displaced
  <2>1. Capture
    <3>1. captured' # captured
      BY <1>1, Zenon
    <3> QED BY <1>1, <3>1
         DEF Next, StartStep, CreateNetwork, StartServiceFails, StartService,
             StopAPI, StartAPIRunning, StartAPI, Waiting, APIBooted, APIReady,
             Deadline, ReplacementFails, StartReplacementAPI, Close,
             BecomeReady, Exit, history, vars
  <2>2. PICK answered \in SUBSET Asked :
          /\ logged' = logged \cup answered
          /\ trouble' = (trouble \/ answered # Asked)
    BY <2>1 DEF Capture
  <2>3. Asked \subseteq logged'
    BY <1>1, <2>2
  <2>4. phase # "closed"
    BY <2>1 DEF Capture, CanCall
  <2> QED BY <1>1, <2>3, <2>4 DEF StackInv, Leftovers, Asked
<1>2. StackInv /\ [Next]_vars =>
        [~captured /\ captured' /\ ~trouble' =>
           Live \subseteq logged' \cup unready \cup displaced]_vars
  BY <1>1
<1> QED BY <1>2, StackInvariant, PTL DEF Spec, CaptureIsComplete
=============================================================================
