------------------------------ MODULE RealDSS ------------------------------
(***************************************************************************)
(* The real-InterUSS federation of one test run: Start, Capture and Close  *)
(* of internal/realdss/stack.go, called by TestMain of the realdss suite.  *)
(* A name is started at most once, so it stands for its container.  Docker *)
(* and the processes are external: a container may run without becoming    *)
(* ready, a migration may exit with any code, a service may die.           *)
(***************************************************************************)
EXTENDS Naturals, Sequences, FiniteSets, Functions

CONSTANTS
  MaxRefusals,  \* bound: Logs, Terminate and Remove calls that Docker refuses
  MaxExits      \* bound: services that die on their own

ASSUME RealDSSAssumption == MaxRefusals \in Nat /\ MaxExits \in Nat

(* The order in which Start runs them, Capture logs them and Close removes *)
(* them.                                                                    *)
Services ==
  <<"interuss-crdb", "interuss-scd-migration", "interuss-rid-migration",
    "interuss-aux-migration", "interuss-oauth", "interuss-dss", "postgis-a",
    "postgis-b", "uss-a", "uss-b">>
SortedNames ==
  <<"interuss-aux-migration", "interuss-crdb", "interuss-dss",
    "interuss-oauth", "interuss-rid-migration", "interuss-scd-migration",
    "postgis-a", "postgis-b", "uss-a", "uss-b">>

(* Mutant of ClosedNames: a migration is forgotten.                         *)
ClosedNamesWithoutAux ==
  <<"uss-b", "uss-a", "postgis-b", "postgis-a", "interuss-dss",
    "interuss-oauth", "interuss-rid-migration", "interuss-scd-migration",
    "interuss-crdb">>

ClosedNames ==
  <<"uss-b", "uss-a", "postgis-b", "postgis-a", "interuss-dss",
    "interuss-oauth", "interuss-aux-migration", "interuss-rid-migration",
    "interuss-scd-migration", "interuss-crdb">>

Names == Range(Services)
Migrations == {"interuss-scd-migration", "interuss-rid-migration",
               "interuss-aux-migration"}
APIs == {"uss-a", "uss-b"}

(* What an API is configured with: the identity it acts under at the DSS    *)
(* and the database it writes.                                              *)
apiEnvironment ==
  [n \in APIs |-> IF n = "uss-a"
                  THEN [subject |-> "uss-a", database |-> "postgis-a"]
                  ELSE [subject |-> "uss-b", database |-> "postgis-b"]]

(* The containers a process talks to by their aliases, and the schemas the  *)
(* DSS expects in its datastore.                                            *)
Needs(n) ==
  CASE n \in Migrations -> {"interuss-crdb"}
    [] n = "interuss-dss" -> {"interuss-crdb"} \cup Migrations
    [] n \in APIs -> {"interuss-dss", "interuss-oauth",
                      apiEnvironment[n].database}
    [] OTHER -> {}

VARIABLES
  phase,       \* of the test process
  step,        \* its position in the list that phase goes through
  ctx,         \* the context of its Docker calls
  network,     \* Environment.network exists
  registered,  \* the keys of Environment.containers
  endpoints,   \* OAuthURL, DSSBaseURL, USSA and USSB, as containers
  docker,      \* external: the state of each container
  outcome,     \* history: why the environment is torn down
  logged,      \* history: containers whose logs were saved
  refused,     \* history: the <<call, container>> that Docker refused
  died         \* history: services that ended on their own

vars == <<phase, step, ctx, network, registered, endpoints, docker, outcome,
          logged, refused, died>>
tearing == <<logged, refused>>

States == {"absent", "running", "completed", "crashed", "gone"}
Live == {n \in Names : docker[n] \in {"running", "completed", "crashed"}}

(* Every registered name has a container: Capture and Close call its        *)
(* methods without a check.                                                 *)
TypeOK ==
  /\ phase \in {"checking", "starting", "inspecting", "resolving", "up",
                "capturing", "closing", "closed"}
  /\ step \in 0 .. 11
  /\ ctx \in {"live", "expired", "background"}
  /\ network \in BOOLEAN
  /\ registered \subseteq {n \in Names : docker[n] # "absent"}
  /\ endpoints \in
       [OAuthURL : Names \cup {""}, DSSBaseURL : Names \cup {""},
        participants : Seq([subject : APIs, api : APIs, database : Names])]
  /\ docker \in [Names -> States]
  /\ outcome \in {"none", "startFailed", "testsFailed", "testsPassed"}
  /\ logged \subseteq Names /\ died \subseteq Names
  /\ refused \subseteq ({"logs", "terminate"} \X Names)
                         \cup {<<"remove", "network">>}

Init ==
  /\ phase = "checking" /\ step = 0 /\ ctx = "live"
  /\ network = FALSE /\ registered = {}
  /\ endpoints = [OAuthURL |-> "", DSSBaseURL |-> "", participants |-> <<>>]
  /\ docker = [n \in Names |-> "absent"]
  /\ outcome = "none" /\ logged = {} /\ refused = {} /\ died = {}

-----------------------------------------------------------------------------
(* External: a deadline passes, a service dies.                             *)

Expire ==
  /\ ctx = "live" /\ phase # "closed"
  /\ ctx' = "expired"
  /\ UNCHANGED <<phase, step, network, registered, endpoints, docker, outcome,
                 tearing, died>>

Die(n) ==
  /\ docker[n] = "running" /\ Cardinality(died) < MaxExits
  /\ phase # "closed"
  /\ docker' = [docker EXCEPT ![n] = "crashed"]
  /\ died' = died \cup {n}
  /\ UNCHANGED <<phase, step, ctx, network, registered, endpoints, outcome,
                 tearing>>

-----------------------------------------------------------------------------
(* Start *)

(* Mutant of FailStart: the deferred calls get Start's own context.         *)
FailStartSameContext ==
  /\ phase' = "capturing" /\ step' = 1 /\ ctx' = ctx
  /\ outcome' = "startFailed"

(* Any error after the inputs were checked: the deferred function captures  *)
(* and closes with a background context.                                    *)
FailStart ==
  /\ phase' = "capturing" /\ step' = 1 /\ ctx' = "background"
  /\ outcome' = "startFailed"

(* A missing setting or file is reported before there is anything to undo.  *)
CheckInputs ==
  /\ phase = "checking"
  /\ \/ phase' = "starting" /\ step' = 0 /\ UNCHANGED outcome
     \/ phase' = "closed" /\ step' = 0 /\ outcome' = "startFailed"
  /\ UNCHANGED <<ctx, network, registered, endpoints, docker, tearing, died>>

CreateNetwork ==
  /\ phase = "starting" /\ step = 0
  /\ \/ /\ ctx = "live"
        /\ network' = TRUE /\ step' = 1 /\ UNCHANGED <<phase, ctx, outcome>>
     \/ FailStart /\ UNCHANGED network
  /\ UNCHANGED <<registered, endpoints, docker, tearing, died>>

Ready(n) ==
  IF n \in Migrations THEN {"completed", "crashed"} ELSE {"running"}
Starting(n) == phase = "starting" /\ step > 0 /\ n = Services[step]

(* Mutant of StartFails: the result is registered before its error is read. *)
StartFailsRegistered(n) ==
  /\ Starting(n)
  /\ FailStart
  /\ \/ UNCHANGED docker
     \/ ctx = "live" /\ docker' = [docker EXCEPT ![n] = "running"]
  /\ registered' = registered \cup {n}
  /\ UNCHANGED <<network, endpoints, tearing, died>>

(* startContainer fails before the container exists, or the container runs  *)
(* and does not become ready (or exit) in time.                             *)
StartFails(n) ==
  /\ Starting(n)
  /\ FailStart
  /\ \/ UNCHANGED docker
     \/ ctx = "live" /\ docker' = [docker EXCEPT ![n] = "running"]
  /\ UNCHANGED <<network, registered, endpoints, tearing, died>>

(* startContainer returns a container that is ready, or that has exited     *)
(* with any code; it is registered at once.                                 *)
StartContainer(n) ==
  /\ Starting(n) /\ ctx = "live"
  /\ \E s \in Ready(n) : docker' = [docker EXCEPT ![n] = s]
  /\ registered' = registered \cup {n}
  /\ phase' = "inspecting"
  /\ UNCHANGED <<step, ctx, network, endpoints, outcome, tearing, died>>

(* Mutant of requireSuccessfulExit: only the State call is looked at.       *)
requireSuccessfulExitStateOnly(n) == n \in Migrations => ctx = "live"

(* Of a migration: its state can be read and its exit code is zero.         *)
requireSuccessfulExit(n) ==
  n \in Migrations => ctx = "live" /\ docker[n] = "completed"

(* What Start reads of a container it has registered: a migration's exit    *)
(* code, the endpoint of OAuth and of the DSS.                              *)
Inspect(n) ==
  LET read == CASE n = "interuss-oauth" -> [endpoints EXCEPT !.OAuthURL = n]
                [] n = "interuss-dss" -> [endpoints EXCEPT !.DSSBaseURL = n]
                [] OTHER -> endpoints
  IN /\ phase = "inspecting" /\ n = Services[step]
     /\ \/ /\ requireSuccessfulExit(n)
           /\ read # endpoints => ctx = "live"
           /\ endpoints' = read
           /\ phase' = IF step = Len(Services) THEN "resolving" ELSE "starting"
           /\ step' = IF step = Len(Services) THEN 1 ELSE step + 1
           /\ UNCHANGED <<ctx, outcome>>
        \/ /\ n \in Migrations \/ read # endpoints
           /\ FailStart /\ UNCHANGED endpoints
     /\ UNCHANGED <<network, registered, docker, tearing, died>>

(* Mutant of participant: both are given USS-A's database.                  *)
participantSharedDatabase(n) ==
  [subject |-> n, api |-> n, database |-> "postgis-a"]

participant(n) ==
  [subject |-> n, api |-> n,
   database |-> IF n = "uss-a" THEN "postgis-a" ELSE "postgis-b"]

(* The endpoints of one participant after the other.                        *)
Resolve ==
  /\ phase = "resolving" /\ step <= 2
  /\ \/ /\ ctx = "live"
        /\ endpoints' = [endpoints EXCEPT !.participants =
                           Append(@, participant(<<"uss-a", "uss-b">>[step]))]
        /\ step' = step + 1 /\ UNCHANGED <<phase, ctx, outcome>>
     \/ FailStart /\ UNCHANGED endpoints
  /\ UNCHANGED <<network, registered, docker, tearing, died>>

(* The last step of Start, which can fail as the others.                    *)
writeManifest ==
  /\ phase = "resolving" /\ step = 3
  /\ \/ phase' = "up" /\ step' = 0 /\ UNCHANGED <<ctx, outcome>>
     \/ FailStart
  /\ UNCHANGED <<network, registered, endpoints, docker, tearing, died>>

-----------------------------------------------------------------------------
(* TestMain after Start, Capture and Close *)

(* The suite ends; a failure, or AERO_ARC_E2E_CAPTURE_ALL_LOGS, makes       *)
(* TestMain capture the logs.  Capture and Close share a new context.       *)
TestsEnd ==
  /\ phase = "up"
  /\ \/ outcome' \in {"testsFailed", "testsPassed"} /\ phase' = "capturing"
     \/ outcome' = "testsPassed" /\ phase' = "closing"
  /\ step' = 1 /\ ctx' = "live"
  /\ UNCHANGED <<network, registered, endpoints, docker, tearing, died>>

CanRefuse == Cardinality(refused) < MaxRefusals

(* One turn of Capture's loop; after an error it goes on with the others.   *)
(* Without a directory nothing is logged.                                   *)
Capture ==
  /\ phase = "capturing"
  /\ \/ /\ step = 1 /\ registered # {} /\ CanRefuse
        /\ refused' = refused \cup ({"logs"} \X registered)
        /\ phase' = "closing" /\ step' = 1 /\ UNCHANGED logged
     \/ /\ step <= Len(SortedNames)
        /\ LET n == SortedNames[step]
           IN \/ n \notin registered /\ UNCHANGED tearing
              \/ /\ n \in registered /\ ctx # "expired"
                 /\ logged' = logged \cup {n} /\ UNCHANGED refused
              \/ n \in registered /\ ctx = "expired" /\ UNCHANGED tearing
              \/ /\ n \in registered /\ ctx # "expired" /\ CanRefuse
                 /\ refused' = refused \cup {<<"logs", n>>}
                 /\ UNCHANGED logged
        /\ step' = step + 1 /\ UNCHANGED phase
     \/ /\ step = Len(SortedNames) + 1
        /\ phase' = "closing" /\ step' = 1 /\ UNCHANGED tearing
  /\ UNCHANGED <<ctx, network, registered, endpoints, docker, outcome, died>>

(* One turn of Close's loop.  TerminateContainer has a context of its own.  *)
CloseContainer ==
  /\ phase = "closing" /\ step <= Len(ClosedNames)
  /\ LET n == ClosedNames[step]
     IN \/ n \notin registered /\ UNCHANGED <<docker, refused>>
        \/ /\ n \in registered
           /\ docker' = [docker EXCEPT ![n] = "gone"] /\ UNCHANGED refused
        \/ /\ n \in registered /\ CanRefuse
           /\ refused' = refused \cup {<<"terminate", n>>}
           /\ UNCHANGED docker
  /\ step' = step + 1
  /\ UNCHANGED <<phase, ctx, network, registered, endpoints, outcome, logged,
                 died>>

(* The last call of Close: Docker keeps a network that running containers   *)
(* are attached to, and the call needs its context.                         *)
CloseNetwork ==
  /\ phase = "closing" /\ step = Len(ClosedNames) + 1
  /\ \/ /\ network /\ ctx # "expired"
        /\ network' = \E n \in Names : docker[n] = "running"
        /\ UNCHANGED refused
     \/ (~network \/ ctx = "expired") /\ UNCHANGED <<network, refused>>
     \/ /\ network /\ ctx # "expired" /\ CanRefuse
        /\ refused' = refused \cup {<<"remove", "network">>}
        /\ UNCHANGED network
  /\ phase' = "closed" /\ step' = 0
  /\ UNCHANGED <<ctx, registered, endpoints, docker, outcome, logged, died>>

Next ==
  \/ Expire \/ CheckInputs \/ CreateNetwork \/ Resolve
  \/ writeManifest \/ TestsEnd \/ Capture \/ CloseContainer \/ CloseNetwork
  \/ \E n \in Names : \/ StartFails(n) \/ StartContainer(n) \/ Inspect(n)
                      \/ Die(n)

Spec == Init /\ [][Next]_vars

-----------------------------------------------------------------------------
(* Properties *)

(* From the first container to the last, and through every teardown, a      *)
(* process runs only over what it needs: the DSS over a datastore with all  *)
(* three schemas, an API over the DSS, OAuth and its database.  Exceptions: *)
(* a need that died on its own, and a process Close could not remove (the   *)
(* order of Start, requireSuccessfulExit, the order of Close).              *)
NothingRunsUnsupported ==
  \A n \in Names : \A d \in Needs(n) :
    \/ docker[n] # "running" \/ d \in died
    \/ docker[d] = (IF d \in Migrations THEN "completed" ELSE "running")
    \/ <<"terminate", n>> \in refused
    \/ phase \in {"closing", "closed"} /\ n \notin registered

(* A Start that failed, for whatever reason and however late its own        *)
(* deadline, and a failed suite whose capture was in time leave the logs of *)
(* every registered container, except those Docker refused (the deferred    *)
(* function of Start, Capture).                                             *)
FailureIsLogged ==
  /\ phase = "closed"
  /\ outcome \in {"startFailed", "testsFailed"}
  /\ ctx # "expired" \/ outcome = "startFailed"
  => \A n \in registered : n \in logged \/ <<"logs", n>> \in refused

(* After the end only containers that never became ready, or that Docker    *)
(* refused to remove, are left, and the network only under one of them that *)
(* runs, after a refusal or after the deadline (Close).                     *)
CloseIsComplete ==
  phase = "closed" =>
    /\ \A n \in Live : n \notin registered \/ <<"terminate", n>> \in refused
    /\ network => \/ \E n \in Live : docker[n] = "running"
                  \/ <<"remove", "network">> \in refused
                  \/ ctx = "expired"

(* What the suite is handed is a federation: both participants are there,   *)
(* each reached at an API that acts under the participant's subject and     *)
(* writes the database the probe will read, no two share any of these, and  *)
(* all services run that did not die (Start, participant, apiEnvironment).  *)
HandoverIsAFederation ==
  phase = "up" =>
    LET p == endpoints.participants
    IN /\ endpoints.OAuthURL = "interuss-oauth"
       /\ endpoints.DSSBaseURL = "interuss-dss"
       /\ Len(p) = 2
       /\ \A i \in 1 .. 2 : apiEnvironment[p[i].api] =
            [subject |-> p[i].subject, database |-> p[i].database]
       /\ p[1].subject # p[2].subject /\ p[1].database # p[2].database
       /\ \A n \in Names \ (Migrations \cup died) : docker[n] = "running"
=============================================================================
