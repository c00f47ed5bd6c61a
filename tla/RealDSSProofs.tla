---------------------------- MODULE RealDSSProofs ----------------------------
(***************************************************************************)
(* Theorems about RealDSS for any number of refused calls and of services  *)
(* that die.                                                               *)
(***************************************************************************)
EXTENDS RealDSS, FiniteSetTheorems, SequenceTheorems, TLAPS

-----------------------------------------------------------------------------
(* The lists of names *)

Index == 1 .. 10

LEMMA IndexIs ==
  \A j \in Index : \/ j = 1 \/ j = 2 \/ j = 3 \/ j = 4 \/ j = 5 \/ j = 6
                   \/ j = 7 \/ j = 8 \/ j = 9 \/ j = 10
  BY DEF Index

LEMMA ServicesAre ==
  /\ Len(Services) = 10 /\ DOMAIN Services = Index
  /\ Services[1] = "interuss-crdb"
  /\ Services[2] = "interuss-scd-migration"
  /\ Services[3] = "interuss-rid-migration"
  /\ Services[4] = "interuss-aux-migration"
  /\ Services[5] = "interuss-oauth" /\ Services[6] = "interuss-dss"
  /\ Services[7] = "postgis-a" /\ Services[8] = "postgis-b"
  /\ Services[9] = "uss-a" /\ Services[10] = "uss-b"
  BY DEF Services, Index

LEMMA NamesAre ==
  /\ Names = {"interuss-crdb", "interuss-scd-migration",
              "interuss-rid-migration", "interuss-aux-migration",
              "interuss-oauth", "interuss-dss", "postgis-a", "postgis-b",
              "uss-a", "uss-b"}
  /\ \A j \in Index : Services[j] \in Names
  /\ \A n \in Names : \E j \in Index : n = Services[j]
<1>1. Names = {Services[j] : j \in Index}
  BY ServicesAre, Zenon DEF Names, Range
<1>2. Index = {1, 2, 3, 4, 5, 6, 7, 8, 9, 10}
  BY DEF Index
<1>3. Names = {Services[1], Services[2], Services[3], Services[4],
               Services[5], Services[6], Services[7], Services[8],
               Services[9], Services[10]}
  BY <1>1, <1>2
<1> QED BY <1>1, <1>3, ServicesAre

LEMMA ServicesDiffer ==
  \A i, j \in Index : Services[i] = Services[j] => i = j
  BY ServicesAre, IndexIs

LEMMA ClosedNamesAre ==
  /\ Len(ClosedNames) = 10
  /\ ClosedNames[1] = "uss-b" /\ ClosedNames[2] = "uss-a"
  /\ ClosedNames[3] = "postgis-b" /\ ClosedNames[4] = "postgis-a"
  /\ ClosedNames[5] = "interuss-dss" /\ ClosedNames[6] = "interuss-oauth"
  /\ ClosedNames[7] = "interuss-aux-migration"
  /\ ClosedNames[8] = "interuss-rid-migration"
  /\ ClosedNames[9] = "interuss-scd-migration"
  /\ ClosedNames[10] = "interuss-crdb"
  BY DEF ClosedNames

LEMMA SortedNamesAre ==
  /\ Len(SortedNames) = 10
  /\ SortedNames[1] = "interuss-aux-migration"
  /\ SortedNames[2] = "interuss-crdb" /\ SortedNames[3] = "interuss-dss"
  /\ SortedNames[4] = "interuss-oauth"
  /\ SortedNames[5] = "interuss-rid-migration"
  /\ SortedNames[6] = "interuss-scd-migration"
  /\ SortedNames[7] = "postgis-a" /\ SortedNames[8] = "postgis-b"
  /\ SortedNames[9] = "uss-a" /\ SortedNames[10] = "uss-b"
  BY DEF SortedNames

(* Close and Capture go through every name.                                 *)
LEMMA ListsAreComplete ==
  /\ \A j \in Index : ClosedNames[j] \in Names
  /\ \A n \in Names : \E j \in Index : n = ClosedNames[j]
  /\ \A j \in Index : SortedNames[j] \in Names
  /\ \A n \in Names : \E j \in Index : n = SortedNames[j]
<1>1. /\ 1 \in Index /\ 2 \in Index /\ 3 \in Index /\ 4 \in Index
      /\ 5 \in Index /\ 6 \in Index /\ 7 \in Index /\ 8 \in Index
      /\ 9 \in Index /\ 10 \in Index
  BY DEF Index
<1>2. \A j \in Index : ClosedNames[j] \in Names
  BY ClosedNamesAre, NamesAre, IndexIs
<1>3. \A j \in Index : SortedNames[j] \in Names
  BY SortedNamesAre, NamesAre, IndexIs
<1>4. \A n \in Names : \E j \in Index : n = ClosedNames[j]
  BY <1>1, ClosedNamesAre, NamesAre
<1>5. \A n \in Names : \E j \in Index : n = SortedNames[j]
  BY <1>1, SortedNamesAre, NamesAre
<1> QED BY <1>2, <1>3, <1>4, <1>5

LEMMA NeedsAre ==
  /\ \A n \in Migrations : Needs(n) = {"interuss-crdb"}
  /\ Needs("interuss-dss") = {"interuss-crdb", "interuss-scd-migration",
       "interuss-rid-migration", "interuss-aux-migration"}
  /\ Needs("uss-a") = {"interuss-dss", "interuss-oauth", "postgis-a"}
  /\ Needs("uss-b") = {"interuss-dss", "interuss-oauth", "postgis-b"}
  /\ \A n \in {"interuss-crdb", "interuss-oauth", "postgis-a", "postgis-b"} :
       Needs(n) = {}
<1>1. ASSUME NEW n \in Migrations
      PROVE  Needs(n) = {"interuss-crdb"}
  <2>1. n # "interuss-dss" /\ n \notin APIs
    BY DEF Migrations, APIs
  <2> QED BY <2>1 DEF Needs
<1>2. Needs("interuss-dss") = {"interuss-crdb", "interuss-scd-migration",
        "interuss-rid-migration", "interuss-aux-migration"}
  BY DEF Needs, Migrations, APIs
<1>3. /\ apiEnvironment["uss-a"].database = "postgis-a"
      /\ apiEnvironment["uss-b"].database = "postgis-b"
  BY DEF apiEnvironment, APIs
<1>4. /\ Needs("uss-a") = {"interuss-dss", "interuss-oauth", "postgis-a"}
      /\ Needs("uss-b") = {"interuss-dss", "interuss-oauth", "postgis-b"}
  BY <1>3 DEF Needs, Migrations, APIs
<1>5. \A n \in {"interuss-crdb", "interuss-oauth", "postgis-a", "postgis-b"} :
        Needs(n) = {}
  BY DEF Needs, Migrations, APIs
<1> QED BY <1>1, <1>2, <1>4, <1>5

(* Start runs what a process needs before it.                               *)
LEMMA NeedsBefore ==
  \A k \in Index : \A d \in Needs(Services[k]) :
    \E j \in Index : j < k /\ d = Services[j]
<1>1. /\ 1 \in Index /\ 2 \in Index /\ 3 \in Index /\ 4 \in Index
      /\ 5 \in Index /\ 6 \in Index /\ 7 \in Index /\ 8 \in Index
  BY DEF Index
<1>2. SUFFICES ASSUME NEW k \in Index, NEW d \in Needs(Services[k])
               PROVE  \E j \in Index : j < k /\ d = Services[j]
  OBVIOUS
<1>3. CASE k \in {2, 3, 4}
  <2>1. d = "interuss-crdb"
    BY <1>2, <1>3, ServicesAre, NeedsAre DEF Migrations
  <2> QED BY <1>1, <1>3, <2>1, ServicesAre
<1>4. CASE k = 6
  BY <1>1, <1>2, <1>4, ServicesAre, NeedsAre
<1>5. CASE k = 9
  BY <1>1, <1>2, <1>5, ServicesAre, NeedsAre
<1>6. CASE k = 10
  BY <1>1, <1>2, <1>6, ServicesAre, NeedsAre
<1>7. CASE k \in {1, 5, 7, 8}
  BY <1>2, <1>7, ServicesAre, NeedsAre
<1> QED BY <1>3, <1>4, <1>5, <1>6, <1>7, IndexIs

(* Close removes a process before what it needs.                            *)
LEMMA NeedsAfter ==
  ASSUME NEW i \in Index, NEW n \in Names, ClosedNames[i] \in Needs(n)
  PROVE  \E j \in Index : j < i /\ n = ClosedNames[j]
<1>1. /\ 1 \in Index /\ 2 \in Index /\ 3 \in Index /\ 4 \in Index
      /\ 5 \in Index /\ 6 \in Index /\ 7 \in Index /\ 8 \in Index
      /\ 9 \in Index
  BY DEF Index
<1>2. CASE n \in Migrations
  <2>1. ClosedNames[i] = "interuss-crdb"
    BY <1>2, NeedsAre
  <2>2. i = 10
    BY <2>1, ClosedNamesAre, IndexIs
  <2> QED BY <1>1, <1>2, <2>2, ClosedNamesAre DEF Migrations
<1>3. CASE n = "interuss-dss"
  <2>1. i \in {7, 8, 9, 10}
    BY <1>3, ClosedNamesAre, NeedsAre, IndexIs
  <2> QED BY <1>1, <1>3, <2>1, ClosedNamesAre
<1>4. CASE n = "uss-a"
  <2>1. i \in {4, 5, 6}
    BY <1>4, ClosedNamesAre, NeedsAre, IndexIs
  <2> QED BY <1>1, <1>4, <2>1, ClosedNamesAre
<1>5. CASE n = "uss-b"
  <2>1. i \in {3, 5, 6}
    BY <1>5, ClosedNamesAre, NeedsAre, IndexIs
  <2> QED BY <1>1, <1>5, <2>1, ClosedNamesAre
<1> QED BY <1>2, <1>3, <1>4, <1>5, NamesAre, NeedsAre DEF Migrations

-----------------------------------------------------------------------------
(* The inductive invariant *)

(* A container did what it was started for, or died on its own.             *)
Good(n) ==
  \/ n \in died
  \/ docker[n] = (IF n \in Migrations THEN "completed" ELSE "running")

(* Start: what is before the current step is good, what is after it is not  *)
(* there yet.                                                               *)
Progress ==
  /\ phase = "checking" =>
       /\ registered = {} /\ network = FALSE
       /\ \A n \in Names : docker[n] = "absent"
  /\ phase = "starting" =>
       /\ step \in 0 .. 10
       /\ \A j \in Index : IF j < step THEN Good(Services[j])
                           ELSE docker[Services[j]] = "absent"
  /\ phase = "inspecting" =>
       /\ step \in Index
       /\ \A j \in Index : j < step => Good(Services[j])
       /\ \A j \in Index : j > step => docker[Services[j]] = "absent"
       /\ Services[step] \notin Migrations => Good(Services[step])
  /\ phase \in {"resolving", "up"} => \A n \in Names : Good(n)

(* Close: what is before the current step is removed, as far as it can be.  *)
Removed(n) ==
  n \notin registered \/ docker[n] = "gone" \/ <<"terminate", n>> \in refused
Closing ==
  /\ phase = "closing" =>
       /\ step \in 1 .. 11
       /\ \A j \in Index : j < step => Removed(ClosedNames[j])
  /\ phase = "closed" => \A n \in Names : Removed(n)

(* Capture: what is before the current step is logged, if it was to be.     *)
Logged(n) ==
  n \notin registered \/ n \in logged \/ <<"logs", n>> \in refused
Capturing ==
  /\ phase \in {"checking", "starting", "inspecting", "resolving", "up"} =>
       outcome = "none"
  /\ phase = "capturing" => step \in 1 .. 11
  /\ outcome = "startFailed" => ctx = "background" \/ registered = {}
  /\ outcome \in {"startFailed", "testsFailed"} /\ ctx # "expired" =>
       /\ phase = "capturing" =>
            \A j \in Index : j < step => Logged(SortedNames[j])
       /\ phase \in {"closing", "closed"} => \A n \in Names : Logged(n)

(* What Start has read so far.                                              *)
Participants == <<participant("uss-a"), participant("uss-b")>>
Endpoints ==
  /\ phase \in {"starting", "inspecting"} =>
       /\ step > 5 => endpoints.OAuthURL = "interuss-oauth"
       /\ step > 6 => endpoints.DSSBaseURL = "interuss-dss"
  /\ phase \in {"resolving", "up"} =>
       /\ endpoints.OAuthURL = "interuss-oauth"
       /\ endpoints.DSSBaseURL = "interuss-dss"
  /\ phase \in {"checking", "starting", "inspecting"} =>
       endpoints.participants = <<>>
  /\ phase = "resolving" =>
       /\ step \in {1, 2, 3}
       /\ step = 1 => endpoints.participants = <<>>
       /\ step = 2 => endpoints.participants = <<participant("uss-a")>>
       /\ step = 3 => endpoints.participants = Participants
  /\ phase = "up" => endpoints.participants = Participants

DSSInv == TypeOK /\ Progress /\ Closing /\ Capturing /\ Endpoints

-----------------------------------------------------------------------------
(* The type invariant in two halves: the test process, and what it has made *)

ProcessTypes ==
  /\ phase \in {"checking", "starting", "inspecting", "resolving", "up",
                "capturing", "closing", "closed"}
  /\ step \in 0 .. 11
  /\ ctx \in {"live", "expired", "background"}
  /\ network \in BOOLEAN
  /\ outcome \in {"none", "startFailed", "testsFailed", "testsPassed"}
EndpointTypes ==
  endpoints \in
    [OAuthURL : Names \cup {""}, DSSBaseURL : Names \cup {""},
     participants : Seq([subject : APIs, api : APIs, database : Names])]
ContainerTypes ==
  /\ registered \subseteq {n \in Names : docker[n] # "absent"}
  /\ docker \in [Names -> States]
  /\ logged \subseteq Names /\ died \subseteq Names
  /\ refused \subseteq ({"logs", "terminate"} \X Names)
                         \cup {<<"remove", "network">>}

LEMMA TypeParts == TypeOK <=> ProcessTypes /\ EndpointTypes /\ ContainerTypes
  BY Zenon DEF TypeOK, ProcessTypes, EndpointTypes, ContainerTypes

LEMMA NextTypeParts ==
  TypeOK' <=> ProcessTypes' /\ EndpointTypes' /\ ContainerTypes'
  BY Zenon DEF TypeOK, ProcessTypes, EndpointTypes, ContainerTypes

LEMMA RecordUpdates ==
  ASSUME NEW A, NEW B, NEW C,
         NEW r \in [OAuthURL : A, DSSBaseURL : B, participants : C],
         NEW a \in A, NEW b \in B, NEW c \in C
  PROVE  /\ [r EXCEPT !.OAuthURL = a] \in
              [OAuthURL : A, DSSBaseURL : B, participants : C]
         /\ [r EXCEPT !.OAuthURL = a].OAuthURL = a
         /\ [r EXCEPT !.OAuthURL = a].DSSBaseURL = r.DSSBaseURL
         /\ [r EXCEPT !.OAuthURL = a].participants = r.participants
         /\ [r EXCEPT !.DSSBaseURL = b] \in
              [OAuthURL : A, DSSBaseURL : B, participants : C]
         /\ [r EXCEPT !.DSSBaseURL = b].OAuthURL = r.OAuthURL
         /\ [r EXCEPT !.DSSBaseURL = b].DSSBaseURL = b
         /\ [r EXCEPT !.DSSBaseURL = b].participants = r.participants
         /\ [r EXCEPT !.participants = c] \in
              [OAuthURL : A, DSSBaseURL : B, participants : C]
         /\ [r EXCEPT !.participants = c].OAuthURL = r.OAuthURL
         /\ [r EXCEPT !.participants = c].DSSBaseURL = r.DSSBaseURL
         /\ [r EXCEPT !.participants = c].participants = c
  OBVIOUS

LEMMA Appending ==
  ASSUME NEW x, NEW y
  PROVE  Append(<<>>, x) = <<x>> /\ Append(<<x>>, y) = <<x, y>>
<1>1. Append(<<>>, x) = <<x>>
  OBVIOUS
<1>2. Append(<<x>>, y) = <<x, y>>
  <2> DEFINE s == <<x>>
  <2>1. s \in Seq({x, y}) /\ Len(s) = 1 /\ s[1] = x
    OBVIOUS
  <2>2. y \in {x, y}
    OBVIOUS
  <2> HIDE DEF s
  <2>3. /\ Append(s, y) \in Seq({x, y}) /\ Len(Append(s, y)) = 2
        /\ Append(s, y)[1] = x /\ Append(s, y)[2] = y
    <3>1. /\ Append(s, y) \in Seq({x, y}) /\ Len(Append(s, y)) = Len(s) + 1
          /\ \A i \in 1 .. Len(s) : Append(s, y)[i] = s[i]
          /\ Append(s, y)[Len(s) + 1] = y
      BY <2>1, <2>2, AppendProperties, Zenon
    <3>2. 1 \in 1 .. 1 /\ 1 + 1 = 2
      OBVIOUS
    <3>3. Append(s, y)[1] = x
      BY <2>1, <3>1, <3>2, Zenon
    <3> QED BY <2>1, <3>1, <3>2, <3>3, Zenon
  <2>4. <<x, y>> \in Seq({x, y}) /\ Len(<<x, y>>) = 2
        /\ <<x, y>>[1] = x /\ <<x, y>>[2] = y
    OBVIOUS
  <2>5. Append(s, y) = <<x, y>>
    <3>1. \A i \in 1 .. 2 : i = 1 \/ i = 2
      OBVIOUS
    <3>2. \A i \in 1 .. Len(Append(s, y)) : Append(s, y)[i] = <<x, y>>[i]
      BY <2>3, <2>4, <3>1, Zenon
    <3> QED BY <2>3, <2>4, <3>2, SeqEqual, Zenon
  <2> QED BY <2>5 DEF s
<1> QED BY <1>1, <1>2

(* A step that leaves everything made alone keeps its types.                *)
LEMMA SameContainers ==
  ASSUME TypeOK,
         UNCHANGED <<registered, endpoints, docker, logged, refused, died>>,
         ProcessTypes'
  PROVE  TypeOK'
<1>1. EndpointTypes /\ ContainerTypes
  BY TypeParts
<1>2. EndpointTypes'
  BY <1>1 DEF EndpointTypes
<1>3. ContainerTypes'
  BY <1>1 DEF ContainerTypes
<1> QED BY <1>2, <1>3, NextTypeParts

-----------------------------------------------------------------------------
(* Init and the end *)

LEMMA InitDSS ==
  ASSUME Init
  PROVE  DSSInv
<1>1. docker \in [Names -> States] /\ \A n \in Names : docker[n] = "absent"
  BY DEF Init, States
<1>2. endpoints \in
        [OAuthURL : Names \cup {""}, DSSBaseURL : Names \cup {""},
         participants : Seq([subject : APIs, api : APIs, database : Names])]
  BY EmptySeq DEF Init
<1>3. endpoints.participants = <<>>
  BY DEF Init
<1>4. /\ phase = "checking" /\ step = 0 /\ ctx = "live" /\ network = FALSE
      /\ registered = {} /\ outcome = "none" /\ logged = {} /\ refused = {}
      /\ died = {}
  BY DEF Init
<1>5. TypeOK
  <2>1. ProcessTypes
    <3>1. step \in 0 .. 11
      BY <1>4
    <3>2. network \in BOOLEAN
      BY <1>4
    <3> QED BY <1>4, <3>1, <3>2 DEF ProcessTypes
  <2>2. ContainerTypes
    BY <1>1, <1>4 DEF ContainerTypes
  <2> QED BY <1>2, <2>1, <2>2, TypeParts DEF EndpointTypes
<1>6. Progress /\ Closing /\ Capturing
  <2>1. Progress
    BY <1>1, <1>4 DEF Progress
  <2>2. Closing
    BY <1>4 DEF Closing
  <2>3. Capturing
    BY <1>4 DEF Capturing
  <2> QED BY <2>1, <2>2, <2>3
<1>7. Endpoints
  BY <1>3, <1>4 DEF Endpoints
<1> QED BY <1>5, <1>6, <1>7 DEF DSSInv

(* A closed environment does nothing more.                                  *)
LEMMA ClosedIsTheEnd ==
  ASSUME Next
  PROVE  phase # "closed"
  BY DEF Next, Expire, CheckInputs, CreateNetwork, Resolve, writeManifest,
         TestsEnd, Capture, CloseContainer, CloseNetwork, StartFails,
         StartContainer, Starting, Inspect, Die

(* While Start runs and the suite has not ended, the teardown invariants    *)
(* hold: nothing has been captured or closed.                               *)
LEMMA BeforeTeardown ==
  ASSUME phase' \in {"starting", "inspecting", "resolving", "up"},
         outcome' = "none"
  PROVE  Closing' /\ Capturing'
<1>1. /\ phase' # "closing" /\ phase' # "closed" /\ phase' # "capturing"
      /\ outcome' # "startFailed" /\ outcome' # "testsFailed"
  OBVIOUS
<1>2. Closing'
  BY <1>1 DEF Closing
<1>3. Capturing'
  BY <1>1 DEF Capturing
<1> QED BY <1>2, <1>3

(* At its first turn a teardown has nothing to show yet.                    *)
LEMMA TeardownBegins ==
  ASSUME step' = 1, phase' \in {"capturing", "closing"},
         outcome' = "startFailed" => ctx' = "background",
         phase' = "closing" => outcome' = "testsPassed"
  PROVE  Progress' /\ Closing' /\ Capturing' /\ Endpoints'
<1>1. \A j \in Index : ~(j < 1)
  BY DEF Index
<1>2. 1 \in 1 .. 11
  OBVIOUS
<1>3. /\ phase' # "checking" /\ phase' # "starting" /\ phase' # "inspecting"
      /\ phase' # "resolving" /\ phase' # "up" /\ phase' # "closed"
  OBVIOUS
<1>4. Progress'
  BY <1>3 DEF Progress
<1>5. Closing'
  BY <1>1, <1>2, <1>3 DEF Closing
<1>6. Capturing'
  BY <1>1, <1>2, <1>3 DEF Capturing
<1>7. Endpoints'
  BY <1>3 DEF Endpoints
<1> QED BY <1>4, <1>5, <1>6, <1>7

-----------------------------------------------------------------------------
(* External steps *)

LEMMA ExpireDSS ==
  ASSUME DSSInv, Expire
  PROVE  DSSInv'
<1>1. /\ ctx = "live" /\ phase # "closed" /\ ctx' = "expired"
      /\ UNCHANGED <<phase, step, network, registered, endpoints, docker,
                     outcome, logged, refused, died>>
  BY DEF Expire, tearing
<1>2. TypeOK'
  BY <1>1 DEF DSSInv, TypeOK
<1>3. Progress' /\ Closing' /\ Endpoints'
  BY <1>1 DEF DSSInv, Progress, Closing, Endpoints, Good, Removed
<1>4. Capturing'
  BY <1>1 DEF DSSInv, Capturing
<1> QED BY <1>2, <1>3, <1>4 DEF DSSInv

LEMMA DieDSS ==
  ASSUME DSSInv, NEW n \in Names, Die(n)
  PROVE  DSSInv'
<1>1. TypeOK /\ Progress /\ Closing /\ Capturing /\ Endpoints
  BY DEF DSSInv
<1>2. /\ docker[n] = "running" /\ phase # "closed"
      /\ docker' = [docker EXCEPT ![n] = "crashed"]
      /\ died' = died \cup {n}
      /\ UNCHANGED <<phase, step, ctx, network, registered, endpoints,
                     outcome, logged, refused>>
  BY DEF Die, tearing
<1>3. /\ docker' \in [Names -> States] /\ docker'[n] = "crashed"
      /\ \A m \in Names : m # n => docker'[m] = docker[m]
  BY <1>1, <1>2 DEF TypeOK, States
<1>4. TypeOK'
  BY <1>1, <1>2, <1>3 DEF TypeOK
<1>5. \A m \in Names : Good(m) => Good(m)'
  BY <1>2, <1>3 DEF Good
<1>6. \A m \in Names : docker[m] = "absent" => docker'[m] = "absent"
  BY <1>2, <1>3
<1>7. \A m \in Names : Removed(m) => Removed(m)'
  BY <1>2, <1>3 DEF Removed
<1>8. Progress'
  BY <1>1, <1>2, <1>5, <1>6, NamesAre DEF Progress
<1>9. Closing'
  BY <1>1, <1>2, <1>7, ListsAreComplete DEF Closing
<1>10. Capturing' /\ Endpoints'
  BY <1>1, <1>2 DEF Capturing, Endpoints, Logged
<1> QED BY <1>4, <1>8, <1>9, <1>10 DEF DSSInv

-----------------------------------------------------------------------------
(* Start *)

LEMMA CheckDSS ==
  ASSUME DSSInv, CheckInputs \/ CreateNetwork \/ writeManifest \/ TestsEnd,
         ~FailStart
  PROVE  DSSInv'
<1>1. TypeOK /\ Progress /\ Closing /\ Capturing /\ Endpoints
  BY DEF DSSInv
<1>2. UNCHANGED <<registered, endpoints, docker, logged, refused, died>>
  BY DEF CheckInputs, CreateNetwork, writeManifest, TestsEnd, tearing
<1>3. CASE CheckInputs
  <2>1. /\ phase = "checking" /\ step' = 0
        /\ \/ phase' = "starting" /\ outcome' = outcome
           \/ phase' = "closed" /\ outcome' = "startFailed"
        /\ UNCHANGED <<ctx, network>>
    BY <1>3 DEF CheckInputs
  <2>2. registered = {} /\ \A n \in Names : docker[n] = "absent"
    BY <1>1, <2>1 DEF Progress
  <2>3. TypeOK'
    <3>1. ProcessTypes
      BY <1>1, TypeParts
    <3>2. ProcessTypes'
      BY <2>1, <3>1 DEF ProcessTypes
    <3> QED BY <1>1, <1>2, <3>2, SameContainers
  <2>4. 0 \in 0 .. 10 /\ \A j \in Index : ~(j < 0)
    BY DEF Index
  <2>5. Progress'
    <3>1. CASE phase' = "starting"
      BY <1>2, <2>1, <2>2, <2>4, <3>1, NamesAre DEF Progress, Good
    <3>2. CASE phase' = "closed"
      BY <3>2 DEF Progress
    <3> QED BY <2>1, <3>1, <3>2
  <2>6. outcome = "none"
    BY <1>1, <2>1 DEF Capturing
  <2>7. Closing' /\ Capturing'
    <3>1. CASE phase' = "closed"
      <4>1. registered' = {} /\ outcome' = "startFailed"
        BY <1>2, <2>1, <2>2, <3>1
      <4>2. Closing'
        BY <3>1, <4>1 DEF Closing, Removed
      <4>3. Capturing'
        BY <3>1, <4>1 DEF Capturing, Logged
      <4> QED BY <4>2, <4>3
    <3> QED BY <2>1, <2>6, <3>1, BeforeTeardown
  <2>8. Endpoints'
    BY <1>1, <1>2, <2>1 DEF Endpoints
  <2> QED BY <2>3, <2>5, <2>7, <2>8 DEF DSSInv
<1>4. CASE CreateNetwork
  <2>1. /\ phase = "starting" /\ step = 0 /\ network' = TRUE /\ step' = 1
        /\ UNCHANGED <<phase, ctx, outcome>>
    BY <1>4 DEF CreateNetwork
  <2>2. \A j \in Index : docker[Services[j]] = "absent"
    BY <1>1, <2>1 DEF Progress, Index
  <2>3. TypeOK'
    <3>1. ProcessTypes
      BY <1>1, TypeParts
    <3>2. ProcessTypes'
      BY <2>1, <3>1 DEF ProcessTypes
    <3> QED BY <1>1, <1>2, <3>2, SameContainers
  <2>4. Progress'
    <3>1. 1 \in 0 .. 10 /\ \A j \in Index : ~(j < 1)
      BY DEF Index
    <3> QED BY <1>2, <2>1, <2>2, <3>1 DEF Progress, Good
  <2>5. Closing' /\ Capturing'
    BY <1>1, <2>1, BeforeTeardown DEF Capturing
  <2>6. Endpoints'
    BY <1>1, <1>2, <2>1 DEF Endpoints
  <2> QED BY <2>3, <2>4, <2>5, <2>6 DEF DSSInv
<1>5. CASE writeManifest
  <2>1. /\ phase = "resolving" /\ step = 3 /\ phase' = "up" /\ step' = 0
        /\ UNCHANGED <<ctx, outcome, network>>
    BY <1>5 DEF writeManifest
  <2>2. TypeOK'
    <3>1. ProcessTypes
      BY <1>1, TypeParts
    <3>2. ProcessTypes'
      BY <2>1, <3>1 DEF ProcessTypes
    <3> QED BY <1>1, <1>2, <3>2, SameContainers
  <2>3. Progress'
    BY <1>1, <1>2, <2>1 DEF Progress, Good
  <2>4. Closing' /\ Capturing'
    BY <1>1, <2>1, BeforeTeardown DEF Capturing
  <2>5. Endpoints'
    BY <1>1, <1>2, <2>1 DEF Endpoints, Participants
  <2> QED BY <2>2, <2>3, <2>4, <2>5 DEF DSSInv
<1>6. CASE TestsEnd
  <2>1. /\ phase = "up" /\ step' = 1 /\ ctx' = "live" /\ network' = network
        /\ \/ /\ outcome' \in {"testsFailed", "testsPassed"}
              /\ phase' = "capturing"
           \/ outcome' = "testsPassed" /\ phase' = "closing"
    BY <1>6 DEF TestsEnd
  <2>2. TypeOK'
    <3>1. ProcessTypes
      BY <1>1, TypeParts
    <3>2. ProcessTypes'
      BY <2>1, <3>1 DEF ProcessTypes
    <3> QED BY <1>1, <1>2, <3>2, SameContainers
  <2>3. Progress' /\ Closing' /\ Capturing' /\ Endpoints'
    BY <2>1, TeardownBegins
  <2> QED BY <2>2, <2>3 DEF DSSInv
<1> QED BY <1>3, <1>4, <1>5, <1>6

(* Start fails at some step, and its container may be left behind.          *)
LEMMA FailDSS ==
  ASSUME DSSInv, FailStart,
         \/ UNCHANGED docker
         \/ \E n \in Names : docker' = [docker EXCEPT ![n] = "running"],
         UNCHANGED <<network, registered, endpoints, logged, refused, died>>
  PROVE  DSSInv'
<1>1. TypeOK
  BY DEF DSSInv
<1>2. /\ phase' = "capturing" /\ step' = 1 /\ ctx' = "background"
      /\ outcome' = "startFailed"
  BY DEF FailStart
<1>3. /\ docker' \in [Names -> States]
      /\ \A m \in Names : docker[m] # "absent" => docker'[m] # "absent"
  BY <1>1 DEF TypeOK, States
<1>4. TypeOK'
  <2>1. ProcessTypes /\ EndpointTypes /\ ContainerTypes
    BY <1>1, TypeParts
  <2>2. ProcessTypes'
    BY <1>2, <2>1 DEF ProcessTypes
  <2>3. EndpointTypes'
    BY <2>1 DEF EndpointTypes
  <2>4. ContainerTypes'
    BY <1>3, <2>1 DEF ContainerTypes
  <2> QED BY <2>2, <2>3, <2>4, NextTypeParts
<1>5. Progress' /\ Closing' /\ Capturing' /\ Endpoints'
  BY <1>2, TeardownBegins
<1> QED BY <1>4, <1>5 DEF DSSInv

LEMMA StartDSS ==
  ASSUME DSSInv, NEW n \in Names, StartContainer(n)
  PROVE  DSSInv'
<1>1. TypeOK /\ Progress /\ Closing /\ Capturing /\ Endpoints
  BY DEF DSSInv
<1>2. /\ phase = "starting" /\ step > 0 /\ n = Services[step]
      /\ registered' = registered \cup {n} /\ phase' = "inspecting"
      /\ UNCHANGED <<step, ctx, network, endpoints, outcome, logged, refused,
                     died>>
  BY DEF StartContainer, Starting, tearing
<1>3. step \in Index /\ step \in Nat
  BY <1>1, <1>2 DEF Progress, Index
<1>4. PICK s \in Ready(n) : docker' = [docker EXCEPT ![n] = s]
  BY DEF StartContainer
<1>5. /\ s \in {"running", "completed", "crashed"}
      /\ n \notin Migrations => s = "running"
  BY <1>4 DEF Ready
<1>6. /\ docker' \in [Names -> States] /\ docker'[n] = s
      /\ \A m \in Names : m # n => docker'[m] = docker[m]
  BY <1>1, <1>4, <1>5 DEF TypeOK, States
<1>7. TypeOK'
  BY <1>1, <1>2, <1>5, <1>6 DEF TypeOK
<1>8. \A j \in Index : j # step => Services[j] # n
  BY <1>2, <1>3, ServicesDiffer
<1>9. /\ \A j \in Index : j < step => Good(Services[j])'
      /\ \A j \in Index : j > step => docker'[Services[j]] = "absent"
  <2>1. ASSUME NEW j \in Index, j < step
        PROVE  Good(Services[j])'
    <3>1. Good(Services[j])
      BY <1>1, <1>2, <2>1 DEF Progress
    <3>2. docker'[Services[j]] = docker[Services[j]]
      BY <1>3, <1>6, <1>8, <2>1, NamesAre DEF Index
    <3> QED BY <1>2, <3>1, <3>2 DEF Good
  <2>2. ASSUME NEW j \in Index, j > step
        PROVE  docker'[Services[j]] = "absent"
    <3>1. ~(j < step) /\ j # step
      BY <1>3, <2>2 DEF Index
    <3>2. docker[Services[j]] = "absent"
      BY <1>1, <1>2, <3>1 DEF Progress
    <3> QED BY <1>6, <1>8, <3>1, <3>2, NamesAre
  <2> QED BY <2>1, <2>2
<1>10. Services[step] \notin Migrations => Good(Services[step])'
  BY <1>2, <1>5, <1>6 DEF Good
<1>11. Progress'
  BY <1>2, <1>3, <1>9, <1>10 DEF Progress
<1>12. Closing' /\ Capturing'
  BY <1>1, <1>2, BeforeTeardown DEF Capturing
<1>13. Endpoints'
  BY <1>1, <1>2 DEF Endpoints
<1> QED BY <1>7, <1>11, <1>12, <1>13 DEF DSSInv

(* Start goes on to its next step, or to the participants after the last.   *)
LEMMA InspectDSS ==
  ASSUME DSSInv, NEW n \in Names, Inspect(n), ~FailStart
  PROVE  DSSInv'
<1> DEFINE read ==
      CASE n = "interuss-oauth" -> [endpoints EXCEPT !.OAuthURL = n]
        [] n = "interuss-dss" -> [endpoints EXCEPT !.DSSBaseURL = n]
        [] OTHER -> endpoints
<1>1. TypeOK /\ Progress /\ Closing /\ Capturing /\ Endpoints
  BY DEF DSSInv
<1>2. /\ phase = "inspecting" /\ n = Services[step]
      /\ requireSuccessfulExit(n) /\ endpoints' = read
      /\ phase' = IF step = 10 THEN "resolving" ELSE "starting"
      /\ step' = IF step = 10 THEN 1 ELSE step + 1
      /\ UNCHANGED <<ctx, outcome, network, registered, docker, logged,
                     refused, died>>
  BY ServicesAre, Zenon DEF Inspect, tearing
<1>3. step \in Index /\ step \in Nat
  BY <1>1, <1>2 DEF Progress, Index
<1>4. Good(n)
  <2>1. CASE n \in Migrations
    BY <1>2, <2>1 DEF requireSuccessfulExit, Good
  <2>2. CASE n \notin Migrations
    BY <1>1, <1>2, <2>2 DEF Progress
  <2> QED BY <2>1, <2>2
<1>5. \A j \in Index : j <= step => Good(Services[j])'
  <2> SUFFICES ASSUME NEW j \in Index, j <= step
               PROVE  Good(Services[j])'
    OBVIOUS
  <2>1. j < step \/ j = step
    BY <1>3 DEF Index
  <2>2. Good(Services[j])
    BY <1>1, <1>2, <1>4, <2>1 DEF Progress
  <2> QED BY <1>2, <2>2 DEF Good
<1>6. /\ EndpointTypes'
      /\ endpoints'.participants = <<>>
      /\ step > 4 => endpoints'.OAuthURL = "interuss-oauth"
      /\ step > 5 => endpoints'.DSSBaseURL = "interuss-dss"
  <2>1. /\ EndpointTypes
        /\ endpoints.participants = <<>>
        /\ step > 5 => endpoints.OAuthURL = "interuss-oauth"
        /\ step > 6 => endpoints.DSSBaseURL = "interuss-dss"
    BY <1>1, <1>2, TypeParts DEF Endpoints
  <2>2. CASE step = 5
    <3>1. n = "interuss-oauth" /\ n # "interuss-dss"
      BY <1>2, <2>2, ServicesAre
    <3>2. endpoints' = [endpoints EXCEPT !.OAuthURL = n]
      BY <1>2, <3>1
    <3> HIDE DEF read
    <3>3. /\ EndpointTypes' /\ endpoints'.OAuthURL = n
          /\ endpoints'.DSSBaseURL = endpoints.DSSBaseURL
          /\ endpoints'.participants = endpoints.participants
      BY <2>1, <3>2, RecordUpdates DEF EndpointTypes
    <3> QED BY <2>1, <2>2, <3>1, <3>3
  <2>3. CASE step = 6
    <3>1. n = "interuss-dss" /\ n # "interuss-oauth"
      BY <1>2, <2>3, ServicesAre
    <3>2. endpoints' = [endpoints EXCEPT !.DSSBaseURL = n]
      BY <1>2, <3>1
    <3> HIDE DEF read
    <3>3. /\ EndpointTypes' /\ endpoints'.DSSBaseURL = n
          /\ endpoints'.OAuthURL = endpoints.OAuthURL
          /\ endpoints'.participants = endpoints.participants
      BY <2>1, <3>2, RecordUpdates DEF EndpointTypes
    <3> QED BY <2>1, <2>3, <3>1, <3>3
  <2>4. CASE step # 5 /\ step # 6
    <3>1. n # "interuss-dss" /\ n # "interuss-oauth"
      BY <1>2, <1>3, <2>4, ServicesAre, IndexIs
    <3>2. endpoints' = endpoints
      BY <1>2, <3>1
    <3>3. (step > 4 => step > 5) /\ (step > 5 => step > 6)
      BY <1>3, <2>4
    <3> HIDE DEF read
    <3> QED BY <2>1, <3>2, <3>3 DEF EndpointTypes
  <2> QED BY <2>2, <2>3, <2>4
<1> HIDE DEF read
<1>7. ProcessTypes' /\ ContainerTypes'
  <2>1. ProcessTypes /\ ContainerTypes
    BY <1>1, TypeParts
  <2>2. ContainerTypes'
    BY <1>2, <2>1 DEF ContainerTypes
  <2>3. step' \in 0 .. 11
    BY <1>2, <1>3 DEF Index
  <2>4. phase' \in {"starting", "resolving"}
    BY <1>2
  <2>5. ProcessTypes'
    BY <1>2, <2>1, <2>3, <2>4 DEF ProcessTypes
  <2> QED BY <2>2, <2>5
<1>8. Closing' /\ Capturing'
  <2>1. outcome' = "none" /\ phase' \in {"starting", "resolving"}
    BY <1>1, <1>2 DEF Capturing
  <2> QED BY <2>1, BeforeTeardown
<1>9. CASE step = 10
  <2>1. phase' = "resolving" /\ step' = 1
    BY <1>2, <1>9
  <2>2. \A j \in Index : Good(Services[j])'
    BY <1>5, <1>9 DEF Index
  <2>3. \A m \in Names : Good(m)'
    BY <2>2, NamesAre
  <2>4. Progress'
    BY <2>1, <2>3 DEF Progress
  <2>5. Endpoints'
    BY <1>6, <1>9, <2>1 DEF Endpoints
  <2> QED BY <1>6, <1>7, <1>8, <2>4, <2>5, NextTypeParts DEF DSSInv
<1>10. CASE step # 10
  <2>1. phase' = "starting" /\ step' = step + 1 /\ step' \in 0 .. 10
    BY <1>2, <1>3, <1>10 DEF Index
  <2>2. \A j \in Index : IF j < step' THEN Good(Services[j])'
                         ELSE docker'[Services[j]] = "absent"
    <3> SUFFICES ASSUME NEW j \in Index
                 PROVE  IF j < step' THEN Good(Services[j])'
                        ELSE docker'[Services[j]] = "absent"
      OBVIOUS
    <3>1. CASE j < step'
      BY <1>3, <1>5, <2>1, <3>1 DEF Index
    <3>2. CASE ~(j < step')
      <4>1. j > step
        BY <1>3, <2>1, <3>2 DEF Index
      <4>2. docker[Services[j]] = "absent"
        BY <1>1, <1>2, <4>1 DEF Progress
      <4> QED BY <1>2, <3>2, <4>2
    <3> QED BY <3>1, <3>2
  <2>3. Progress'
    BY <2>1, <2>2 DEF Progress
  <2>4. (step' > 5 => step > 4) /\ (step' > 6 => step > 5)
    BY <1>3, <2>1
  <2>5. Endpoints'
    BY <1>6, <2>1, <2>4 DEF Endpoints
  <2> QED BY <1>6, <1>7, <1>8, <2>3, <2>5, NextTypeParts DEF DSSInv
<1> QED BY <1>9, <1>10

LEMMA ParticipantTypes ==
  ASSUME NEW n \in APIs
  PROVE  /\ participant(n) \in [subject : APIs, api : APIs, database : Names]
         /\ apiEnvironment[participant(n).api] =
              [subject |-> participant(n).subject,
               database |-> participant(n).database]
         /\ participant(n).subject = n
         /\ participant(n).database =
              (IF n = "uss-a" THEN "postgis-a" ELSE "postgis-b")
<1>1. "postgis-a" \in Names /\ "postgis-b" \in Names
  BY NamesAre
<1> QED BY <1>1 DEF participant, apiEnvironment, APIs

(* The next participant is read.                                            *)
LEMMA ResolveDSS ==
  ASSUME DSSInv, Resolve, ~FailStart
  PROVE  DSSInv'
<1>1. TypeOK /\ Progress /\ Closing /\ Capturing /\ Endpoints
  BY DEF DSSInv
<1> DEFINE p == participant(<<"uss-a", "uss-b">>[step])
<1>2. /\ phase = "resolving" /\ step <= 2 /\ step' = step + 1
      /\ endpoints' = [endpoints EXCEPT !.participants = Append(@, p)]
      /\ UNCHANGED <<phase, ctx, outcome, network, registered, docker,
                     logged, refused, died>>
  BY DEF Resolve, tearing
<1>3. step = 1 \/ step = 2
  BY <1>1, <1>2 DEF Endpoints
<1>4. /\ step = 1 => p = participant("uss-a")
      /\ step = 2 => p = participant("uss-b")
  OBVIOUS
<1>5. p \in [subject : APIs, api : APIs, database : Names]
  BY <1>3, <1>4, ParticipantTypes DEF APIs
<1> HIDE DEF p
<1>6. ProcessTypes /\ EndpointTypes /\ ContainerTypes
  BY <1>1, TypeParts
<1>7. /\ endpoints'.participants = Append(endpoints.participants, p)
      /\ endpoints'.OAuthURL = endpoints.OAuthURL
      /\ endpoints'.DSSBaseURL = endpoints.DSSBaseURL
      /\ EndpointTypes'
  <2>1. /\ endpoints.participants \in
             Seq([subject : APIs, api : APIs, database : Names])
        /\ endpoints' = [endpoints EXCEPT !.participants =
                           Append(endpoints.participants, p)]
    BY <1>2, <1>6 DEF EndpointTypes
  <2>2. Append(endpoints.participants, p) \in
          Seq([subject : APIs, api : APIs, database : Names])
    BY <1>5, <2>1, AppendProperties
  <2> QED BY <1>6, <2>1, <2>2, RecordUpdates DEF EndpointTypes
<1>8. ProcessTypes' /\ ContainerTypes'
  <2>1. step' \in 0 .. 11
    BY <1>2, <1>3
  <2>2. ProcessTypes'
    BY <1>2, <1>6, <2>1 DEF ProcessTypes
  <2>3. ContainerTypes'
    BY <1>2, <1>6 DEF ContainerTypes
  <2> QED BY <2>2, <2>3
<1>9. Closing' /\ Capturing'
  BY <1>1, <1>2, BeforeTeardown DEF Capturing
<1>10. Progress'
  BY <1>1, <1>2 DEF Progress, Good
<1>11. Endpoints'
  <2>1. CASE step = 1
    <3>1. endpoints'.participants = <<participant("uss-a")>>
      BY <1>1, <1>2, <1>4, <1>7, <2>1, Appending DEF Endpoints
    <3>2. step' = 2
      BY <1>2, <2>1
    <3> QED BY <1>1, <1>2, <1>7, <3>1, <3>2 DEF Endpoints
  <2>2. CASE step = 2
    <3>1. endpoints.participants = <<participant("uss-a")>>
      BY <1>1, <1>2, <2>2 DEF Endpoints
    <3>2. endpoints'.participants = Participants
      BY <1>4, <1>7, <2>2, <3>1, Appending DEF Participants
    <3>3. step' = 3
      BY <1>2, <2>2
    <3> QED BY <1>1, <1>2, <1>7, <3>2, <3>3 DEF Endpoints
  <2> QED BY <1>3, <2>1, <2>2
<1> QED BY <1>7, <1>8, <1>9, <1>10, <1>11, NextTypeParts DEF DSSInv

-----------------------------------------------------------------------------
(* Capture and Close *)

(* A turn of Capture keeps what was logged and accounts for its own name.   *)
LEMMA CaptureDSS ==
  ASSUME DSSInv, Capture
  PROVE  DSSInv'
<1>1. TypeOK /\ Progress /\ Closing /\ Capturing /\ Endpoints
  BY DEF DSSInv
<1>2. /\ phase = "capturing"
      /\ UNCHANGED <<ctx, network, registered, endpoints, docker, outcome,
                     died>>
  BY DEF Capture
<1>3. step \in 1 .. 11
  BY <1>1, <1>2 DEF Capturing
<1>4. ProcessTypes /\ EndpointTypes /\ ContainerTypes
  BY <1>1, TypeParts
<1>5. EndpointTypes'
  BY <1>2, <1>4 DEF EndpointTypes
<1>6. phase' \in {"capturing", "closing"} /\ phase' # "closed"
  BY <1>2, Zenon DEF Capture
<1>7. Progress' /\ Endpoints'
  <2>1. /\ phase' # "checking" /\ phase' # "starting"
        /\ phase' # "inspecting" /\ phase' # "resolving" /\ phase' # "up"
    BY <1>6
  <2>2. Progress'
    BY <2>1 DEF Progress
  <2>3. Endpoints'
    BY <2>1 DEF Endpoints
  <2> QED BY <2>2, <2>3
<1>8. outcome' = "startFailed" => ctx' = "background" \/ registered' = {}
  BY <1>1, <1>2 DEF Capturing
<1>9. /\ 1 \in 1 .. 11 /\ 1 \in 0 .. 11 /\ \A j \in Index : ~(j < 1)
      /\ \A k \in 1 .. 11 : k <= 10 => k \in Index /\ k + 1 \in 1 .. 11
      /\ \A k \in 1 .. 11 : k \in 0 .. 11
  BY DEF Index
<1>10. CASE /\ refused' = refused \cup ({"logs"} \X registered)
            /\ phase' = "closing" /\ step' = 1 /\ UNCHANGED logged
  <2>1. ProcessTypes'
    BY <1>2, <1>4, <1>9, <1>10 DEF ProcessTypes
  <2>2. ContainerTypes'
    BY <1>2, <1>4, <1>10 DEF ContainerTypes
  <2>3. Closing'
    BY <1>9, <1>10 DEF Closing
  <2>4. \A m \in Names : Logged(m)'
    BY <1>2, <1>10 DEF Logged
  <2>5. Capturing'
    BY <1>8, <1>10, <2>4 DEF Capturing
  <2> QED BY <1>5, <1>7, <2>1, <2>2, <2>3, <2>5, NextTypeParts DEF DSSInv
<1>11. CASE /\ step = 11 /\ phase' = "closing" /\ step' = 1
            /\ UNCHANGED tearing
  <2>1. ProcessTypes'
    BY <1>2, <1>4, <1>9, <1>11 DEF ProcessTypes
  <2>2. ContainerTypes'
    BY <1>2, <1>4, <1>11 DEF ContainerTypes, tearing
  <2>3. Closing'
    BY <1>9, <1>11 DEF Closing
  <2>4. ASSUME outcome \in {"startFailed", "testsFailed"}, ctx # "expired"
        PROVE  \A m \in Names : Logged(m)'
    <3>1. \A j \in Index : Logged(SortedNames[j])
      BY <1>1, <1>2, <1>11, <2>4 DEF Capturing, Index
    <3>2. \A m \in Names : Logged(m)
      BY <3>1, ListsAreComplete
    <3> QED BY <1>2, <1>11, <3>2 DEF Logged, tearing
  <2>5. Capturing'
    BY <1>2, <1>8, <1>11, <2>4 DEF Capturing
  <2> QED BY <1>5, <1>7, <2>1, <2>2, <2>3, <2>5, NextTypeParts DEF DSSInv
<1>12. ASSUME step <= 10, step' = step + 1, phase' = phase,
              \/ SortedNames[step] \notin registered /\ UNCHANGED tearing
              \/ /\ SortedNames[step] \in registered /\ ctx # "expired"
                 /\ logged' = logged \cup {SortedNames[step]}
                 /\ UNCHANGED refused
              \/ ctx = "expired" /\ UNCHANGED tearing
              \/ /\ SortedNames[step] \in registered
                 /\ refused' = refused \cup {<<"logs", SortedNames[step]>>}
                 /\ UNCHANGED logged
       PROVE  DSSInv'
  <2>1. step \in Index /\ step' \in 1 .. 11 /\ step' \in 0 .. 11
    BY <1>3, <1>9, <1>12
  <2>2. PICK n \in Names : n = SortedNames[step]
    BY <2>1, ListsAreComplete
  <2>3. /\ logged \subseteq logged' /\ refused \subseteq refused'
        /\ logged' \subseteq logged \cup {n}
        /\ refused' \subseteq refused \cup {<<"logs", n>>}
    BY <1>12, <2>2 DEF tearing
  <2>4. ctx # "expired" => Logged(n)'
    <3>1. ctx # "expired" =>
            \/ n \notin registered \/ n \in logged'
            \/ <<"logs", n>> \in refused'
      BY <1>12, <2>2 DEF tearing
    <3> QED BY <1>2, <3>1 DEF Logged
  <2>5. ProcessTypes'
    BY <1>2, <1>4, <1>12, <2>1 DEF ProcessTypes
  <2>6. ContainerTypes'
    <3>1. <<"logs", n>> \in {"logs", "terminate"} \X Names
      OBVIOUS
    <3> QED BY <1>2, <1>4, <2>3, <3>1 DEF ContainerTypes
  <2>7. Closing'
    BY <1>2, <1>12 DEF Closing
  <2>8. ASSUME outcome \in {"startFailed", "testsFailed"}, ctx # "expired",
               NEW j \in Index, j < step'
        PROVE  Logged(SortedNames[j])'
    <3>1. CASE j = step
      BY <2>2, <2>4, <2>8, <3>1 DEF Logged
    <3>2. CASE j # step
      <4>1. j < step
        BY <1>12, <2>1, <2>8, <3>2 DEF Index
      <4>2. Logged(SortedNames[j])
        BY <1>1, <1>2, <2>8, <4>1 DEF Capturing
      <4> QED BY <1>2, <2>3, <4>2 DEF Logged
    <3> QED BY <3>1, <3>2
  <2>9. Capturing'
    BY <1>2, <1>8, <1>12, <2>1, <2>8 DEF Capturing
  <2> QED BY <1>5, <1>7, <2>5, <2>6, <2>7, <2>9, NextTypeParts DEF DSSInv
<1>13. CASE /\ step <= 10 /\ step' = step + 1 /\ phase' = phase
            /\ \/ SortedNames[step] \notin registered /\ UNCHANGED tearing
               \/ /\ SortedNames[step] \in registered /\ ctx # "expired"
                  /\ logged' = logged \cup {SortedNames[step]}
                  /\ UNCHANGED refused
               \/ ctx = "expired" /\ UNCHANGED tearing
               \/ /\ SortedNames[step] \in registered
                  /\ refused' = refused \cup {<<"logs", SortedNames[step]>>}
                  /\ UNCHANGED logged
  BY <1>12, <1>13
<1>14. Len(SortedNames) = 10 /\ 10 + 1 = 11
  BY SortedNamesAre
<1> QED BY <1>10, <1>11, <1>13, <1>14, Zenon DEF Capture

(* A turn of Close keeps what was removed and removes its own name, unless  *)
(* Docker refuses.                                                          *)
LEMMA CloseContainerDSS ==
  ASSUME DSSInv, CloseContainer
  PROVE  DSSInv'
<1>1. TypeOK /\ Progress /\ Closing /\ Capturing /\ Endpoints
  BY DEF DSSInv
<1>2. phase = "closing" /\ step <= 10 /\ step' = step + 1
  BY ClosedNamesAre DEF CloseContainer
<1>3. step \in Index /\ step' \in 1 .. 11 /\ step' \in 0 .. 11
  BY <1>1, <1>2 DEF Closing, Index
<1>4. PICK n \in Names : n = ClosedNames[step]
  BY <1>3, ListsAreComplete
<1>5. /\ \/ n \notin registered /\ UNCHANGED <<docker, refused>>
         \/ /\ n \in registered /\ docker' = [docker EXCEPT ![n] = "gone"]
            /\ UNCHANGED refused
         \/ /\ refused' = refused \cup {<<"terminate", n>>}
            /\ UNCHANGED docker
      /\ UNCHANGED <<phase, ctx, network, registered, endpoints, outcome,
                     logged, died>>
  BY <1>4, Zenon DEF CloseContainer
<1>6. ProcessTypes /\ EndpointTypes /\ ContainerTypes
  BY <1>1, TypeParts
<1>7. /\ docker' \in [Names -> States]
      /\ \A m \in Names : docker'[m] = docker[m] \/ docker'[m] = "gone"
      /\ refused \subseteq refused'
      /\ refused' \subseteq refused \cup {<<"terminate", n>>}
  BY <1>5, <1>6 DEF ContainerTypes, States
<1>8. Removed(n)'
  BY <1>5, <1>6 DEF Removed, ContainerTypes
<1>9. TypeOK'
  <2>1. ProcessTypes'
    BY <1>2, <1>5, <1>3, <1>6 DEF ProcessTypes
  <2>2. EndpointTypes'
    BY <1>2, <1>5, <1>6 DEF EndpointTypes
  <2>3. <<"terminate", n>> \in {"logs", "terminate"} \X Names
    OBVIOUS
  <2>4. registered' \subseteq {m \in Names : docker'[m] # "absent"}
    BY <1>2, <1>5, <1>6, <1>7 DEF ContainerTypes
  <2>5. ContainerTypes'
    BY <1>2, <1>5, <1>6, <1>7, <2>3, <2>4 DEF ContainerTypes
  <2> QED BY <2>1, <2>2, <2>5, NextTypeParts
<1>10. Progress' /\ Endpoints'
  <2>1. Progress'
    BY <1>2, <1>5 DEF Progress
  <2>2. Endpoints'
    BY <1>2, <1>5 DEF Endpoints
  <2> QED BY <2>1, <2>2
<1>11. ASSUME NEW j \in Index, j < step'
       PROVE  Removed(ClosedNames[j])'
  <2>1. CASE j = step
    BY <1>4, <1>8, <2>1 DEF Removed
  <2>2. CASE j # step
    <3>1. j < step
      BY <1>2, <1>3, <1>11, <2>2 DEF Index
    <3>2. Removed(ClosedNames[j]) /\ ClosedNames[j] \in Names
      BY <1>1, <1>2, <3>1, ListsAreComplete DEF Closing
    <3> QED BY <1>2, <1>5, <1>7, <3>2 DEF Removed
  <2> QED BY <2>1, <2>2
<1>12. Closing'
  BY <1>2, <1>5, <1>3, <1>11 DEF Closing
<1>13. \A m \in Names : Logged(m) => Logged(m)'
  BY <1>2, <1>5, <1>7 DEF Logged
<1>14. Capturing'
  BY <1>1, <1>2, <1>5, <1>13 DEF Capturing
<1> QED BY <1>9, <1>10, <1>12, <1>14 DEF DSSInv

LEMMA CloseNetworkDSS ==
  ASSUME DSSInv, CloseNetwork
  PROVE  DSSInv'
<1>1. TypeOK /\ Progress /\ Closing /\ Capturing /\ Endpoints
  BY DEF DSSInv
<1>2. /\ phase = "closing" /\ step = 11 /\ phase' = "closed" /\ step' = 0
      /\ refused' = refused \/
         refused' = refused \cup {<<"remove", "network">>}
      /\ UNCHANGED <<ctx, registered, endpoints, docker, outcome, logged,
                     died>>
  <2>1. Len(ClosedNames) + 1 = 11
    BY ClosedNamesAre
  <2> QED BY <2>1, Zenon DEF CloseNetwork
<1>3. ProcessTypes /\ EndpointTypes /\ ContainerTypes
  BY <1>1, TypeParts
<1>4. TypeOK'
  <2>1. \/ network' = network
        \/ network' = \E n \in Names : docker[n] = "running"
    BY Zenon DEF CloseNetwork
  <2>2. network' \in BOOLEAN
    BY <1>3, <2>1, Zenon DEF ProcessTypes
  <2>3. ProcessTypes'
    BY <1>2, <1>3, <2>2 DEF ProcessTypes
  <2>4. EndpointTypes'
    BY <1>2, <1>3 DEF EndpointTypes
  <2>5. ContainerTypes'
    BY <1>2, <1>3 DEF ContainerTypes
  <2> QED BY <2>3, <2>4, <2>5, NextTypeParts
<1>5. Progress' /\ Endpoints'
  <2>1. Progress'
    BY <1>2 DEF Progress
  <2>2. Endpoints'
    BY <1>2 DEF Endpoints
  <2> QED BY <2>1, <2>2
<1>6. \A j \in Index : Removed(ClosedNames[j])
  BY <1>1, <1>2 DEF Closing, Index
<1>7. \A n \in Names : Removed(n)
  BY <1>6, ListsAreComplete
<1>8. refused \subseteq refused'
  BY <1>2
<1>9. \A n \in Names : Removed(n)'
  BY <1>2, <1>7, <1>8 DEF Removed
<1>10. Closing'
  BY <1>2, <1>9 DEF Closing
<1>11. \A n \in Names : Logged(n) => Logged(n)'
  BY <1>2, <1>8 DEF Logged
<1>12. Capturing'
  BY <1>1, <1>2, <1>11 DEF Capturing
<1> QED BY <1>4, <1>5, <1>10, <1>12 DEF DSSInv

-----------------------------------------------------------------------------
(* Every step *)

LEMMA NextDSS ==
  ASSUME DSSInv, [Next]_vars
  PROVE  DSSInv'
<1>1. CASE Expire
  BY <1>1, ExpireDSS
<1>2. CASE CheckInputs \/ CreateNetwork \/ writeManifest \/ TestsEnd
  <2>1. CASE FailStart
    <3>1. /\ phase' = "capturing" /\ outcome' = "startFailed"
          /\ ctx' = "background"
      BY <2>1 DEF FailStart
    <3>2. UNCHANGED <<network, registered, endpoints, docker, logged, refused,
                      died>>
      <4>1. CASE CheckInputs
        BY <4>1 DEF CheckInputs, tearing
      <4>2. CASE CreateNetwork
        <5>1. network' = network
          BY <3>1, <4>2 DEF CreateNetwork
        <5> QED BY <4>2, <5>1 DEF CreateNetwork, tearing
      <4>3. CASE writeManifest \/ TestsEnd
        BY <4>3 DEF writeManifest, TestsEnd, tearing
      <4> QED BY <1>2, <4>1, <4>2, <4>3
    <3> QED BY <2>1, <3>2, FailDSS
  <2> QED BY <1>2, <2>1, CheckDSS
<1>3. CASE Resolve
  <2>1. CASE FailStart
    <3>1. endpoints' = endpoints
      BY <1>3, <2>1 DEF Resolve, FailStart
    <3> QED BY <1>3, <2>1, <3>1, FailDSS DEF Resolve, tearing
  <2> QED BY <1>3, <2>1, ResolveDSS
<1>4. CASE Capture
  BY <1>4, CaptureDSS
<1>5. CASE CloseContainer
  BY <1>5, CloseContainerDSS
<1>6. CASE CloseNetwork
  BY <1>6, CloseNetworkDSS
<1>7. ASSUME NEW n \in Names, StartFails(n)
      PROVE  DSSInv'
  <2>1. UNCHANGED <<network, registered, endpoints, logged, refused, died>>
    BY <1>7 DEF StartFails, tearing
  <2>2. /\ FailStart
        /\ UNCHANGED docker \/ docker' = [docker EXCEPT ![n] = "running"]
    BY <1>7, Zenon DEF StartFails
  <2> QED BY <2>1, <2>2, FailDSS
<1>8. ASSUME NEW n \in Names, StartContainer(n)
      PROVE  DSSInv'
  BY <1>8, StartDSS
<1>9. ASSUME NEW n \in Names, Inspect(n)
      PROVE  DSSInv'
  <2>1. CASE FailStart
    <3>1. phase' = "capturing"
      BY <2>1 DEF FailStart
    <3>2. /\ UNCHANGED <<network, registered, docker, logged, refused, died>>
          /\ endpoints' = endpoints
      BY <1>9, <3>1 DEF Inspect, tearing
    <3> QED BY <2>1, <3>2, FailDSS
  <2> QED BY <1>9, <2>1, InspectDSS
<1>10. ASSUME NEW n \in Names, Die(n)
       PROVE  DSSInv'
  BY <1>10, DieDSS
<1>11. CASE UNCHANGED vars
  <2>1. UNCHANGED <<phase, step, ctx, network, registered, endpoints, docker,
                    outcome, logged, refused, died>>
    BY <1>11 DEF vars
  <2>2. TypeOK'
    BY <2>1 DEF DSSInv, TypeOK
  <2>3. Progress'
    BY <2>1 DEF DSSInv, Progress, Good
  <2>4. Closing'
    BY <2>1 DEF DSSInv, Closing, Removed
  <2>5. Capturing'
    BY <2>1 DEF DSSInv, Capturing, Logged
  <2>6. Endpoints'
    BY <2>1 DEF DSSInv, Endpoints
  <2> QED BY <2>2, <2>3, <2>4, <2>5, <2>6 DEF DSSInv
<1> QED BY <1>1, <1>2, <1>3, <1>4, <1>5, <1>6, <1>7, <1>8, <1>9, <1>10, <1>11
        DEF Next

LEMMA DSSInvariant == Spec => []DSSInv
<1>1. Init => DSSInv
  BY InitDSS
<1>2. DSSInv /\ [Next]_vars => DSSInv'
  BY NextDSS
<1> QED BY <1>1, <1>2, PTL DEF Spec

-----------------------------------------------------------------------------
(* Theorems *)

(* Every variable keeps its type, and every registered name has a           *)
(* container: Capture and Close may call it without a check.                *)
THEOREM EnvironmentTypes == Spec => []TypeOK
<1>1. DSSInv => TypeOK
  BY DEF DSSInv
<1> QED BY <1>1, DSSInvariant, PTL

(* A Start that failed, and a failed suite captured in time, have the logs  *)
(* of every registered container that Docker did not refuse (Capture).      *)
THEOREM FailuresAreLogged == Spec => []FailureIsLogged
<1>1. ASSUME DSSInv
      PROVE  FailureIsLogged
  <2>1. SUFFICES ASSUME phase = "closed",
                        outcome \in {"startFailed", "testsFailed"},
                        ctx # "expired" \/ outcome = "startFailed",
                        NEW n \in registered
                 PROVE  n \in logged \/ <<"logs", n>> \in refused
    BY DEF FailureIsLogged
  <2>2. Capturing /\ TypeOK
    BY <1>1 DEF DSSInv
  <2>3. ctx # "expired"
    BY <2>1, <2>2 DEF Capturing
  <2>4. Logged(n)
    BY <2>1, <2>2, <2>3 DEF Capturing, TypeOK
  <2> QED BY <2>1, <2>4 DEF Logged
<1> QED BY <1>1, DSSInvariant, PTL

(* The suite is handed a federation of two distinct participants, each with *)
(* its own identity and database, over services that run (Start).           *)
THEOREM HandoverIsFederation == Spec => []HandoverIsAFederation
<1>1. ASSUME DSSInv
      PROVE  HandoverIsAFederation
  <2>1. SUFFICES ASSUME phase = "up"
                 PROVE  HandoverIsAFederation!2
    BY DEF HandoverIsAFederation
  <2>2. /\ endpoints.OAuthURL = "interuss-oauth"
        /\ endpoints.DSSBaseURL = "interuss-dss"
        /\ endpoints.participants = Participants
    BY <1>1, <2>1 DEF DSSInv, Endpoints
  <2>3. \A n \in Names : Good(n)
    BY <1>1, <2>1 DEF DSSInv, Progress
  <2>4. \A n \in Names \ (Migrations \cup died) : docker[n] = "running"
    BY <2>3 DEF Good
  <2>5. /\ Len(Participants) = 2 /\ Participants[1] = participant("uss-a")
        /\ Participants[2] = participant("uss-b")
    BY DEF Participants
  <2>6. "uss-a" \in APIs /\ "uss-b" \in APIs
    BY DEF APIs
  <2>7. \A i \in 1 .. 2 :
          apiEnvironment[Participants[i].api] =
            [subject |-> Participants[i].subject,
             database |-> Participants[i].database]
    BY <2>5, <2>6, ParticipantTypes
  <2>8. /\ Participants[1].subject # Participants[2].subject
        /\ Participants[1].database # Participants[2].database
    <3>1. /\ participant("uss-a").subject = "uss-a"
          /\ participant("uss-b").subject = "uss-b"
          /\ participant("uss-a").database = "postgis-a"
          /\ participant("uss-b").database = "postgis-b"
      BY DEF participant
    <3> QED BY <2>5, <3>1
  <2> QED BY <2>2, <2>4, <2>5, <2>7, <2>8
<1> QED BY <1>1, DSSInvariant, PTL

(* What the last call of Close leaves of the network.                       *)
NetworkAccount ==
  phase = "closed" /\ network =>
    \/ \E n \in Names : docker[n] = "running"
    \/ <<"remove", "network">> \in refused
    \/ ctx = "expired"

(* Close leaves only what never became ready or what Docker refused to      *)
(* remove, and a network only for a reason (Close).                         *)
THEOREM EnvironmentCloseIsComplete == Spec => []CloseIsComplete
<1>1. Init => NetworkAccount
  BY DEF Init, NetworkAccount
<1>2. ASSUME DSSInv, NetworkAccount, [Next]_vars
      PROVE  NetworkAccount'
  <2>1. SUFFICES ASSUME phase' = "closed", network',
                        ~(<<"remove", "network">> \in refused'),
                        ctx' # "expired"
                 PROVE  \E n \in Names : docker'[n] = "running"
    BY DEF NetworkAccount
  <2>2. CASE UNCHANGED vars
    BY <1>2, <2>1, <2>2 DEF NetworkAccount, vars
  <2>3. CASE CheckInputs
    BY <1>2, <2>1, <2>3 DEF CheckInputs, DSSInv, Progress
  <2>4. CASE CloseNetwork
    BY <2>1, <2>4, Zenon DEF CloseNetwork
  <2>5. CASE Next /\ ~CheckInputs /\ ~CloseNetwork
    <3>1. phase # "closed"
      BY <2>5, ClosedIsTheEnd
    <3>2. phase' # "closed"
      BY <2>5, <3>1 DEF Next, Expire, CreateNetwork, Resolve, writeManifest,
         TestsEnd, Capture, CloseContainer, StartFails, StartContainer,
         Inspect, Die, FailStart
    <3> QED BY <2>1, <3>2
  <2> QED BY <1>2, <2>2, <2>3, <2>4, <2>5
<1>3. ASSUME DSSInv, NetworkAccount
      PROVE  CloseIsComplete
  <2>1. SUFFICES ASSUME phase = "closed"
                 PROVE  CloseIsComplete!2
    BY DEF CloseIsComplete
  <2>2. \A n \in Names : Removed(n)
    BY <1>3, <2>1 DEF DSSInv, Closing
  <2>3. \A n \in Live : n \notin registered \/ <<"terminate", n>> \in refused
    BY <2>2 DEF Removed, Live
  <2>4. network => \/ \E n \in Live : docker[n] = "running"
                   \/ <<"remove", "network">> \in refused
                   \/ ctx = "expired"
    BY <1>3, <2>1 DEF NetworkAccount, Live
  <2> QED BY <2>3, <2>4
<1> QED BY <1>1, <1>2, <1>3, DSSInvariant, PTL DEF Spec

(* Why a process may run over a need: the need is good, or the process is   *)
(* one that Close could not remove.                                         *)
Supported(n, d) ==
  \/ docker[n] # "running" \/ Good(d)
  \/ <<"terminate", n>> \in refused
  \/ phase \in {"closing", "closed"} /\ n \notin registered
AllSupported == \A n \in Names : \A d \in Needs(n) : Supported(n, d)

LEMMA NeedsAreNames == \A n \in Names : Needs(n) \subseteq Names
<1>1. SUFFICES ASSUME NEW n \in Names, NEW d \in Needs(n)
               PROVE  d \in Names
  OBVIOUS
<1>2. PICK k \in Index : n = Services[k]
  BY NamesAre
<1>3. PICK j \in Index : d = Services[j]
  BY <1>2, NeedsBefore
<1> QED BY <1>3, NamesAre

(* Steps that touch no container.                                           *)
LEMMA SameDocker ==
  ASSUME AllSupported, UNCHANGED <<docker, died, registered>>,
         refused \subseteq refused',
         phase \in {"closing", "closed"} => phase' \in {"closing", "closed"}
  PROVE  AllSupported'
<1>1. SUFFICES ASSUME NEW n \in Names, NEW d \in Needs(n)
               PROVE  Supported(n, d)'
  BY DEF AllSupported
<1>2. Supported(n, d)
  BY DEF AllSupported
<1>3. Good(d) => Good(d)'
  BY DEF Good
<1> QED BY <1>2, <1>3 DEF Supported

(* A container that Start runs has what it needs, and nothing that needs it *)
(* is there yet.                                                            *)
LEMMA StartSupported ==
  ASSUME DSSInv, AllSupported, NEW n \in Names, Starting(n), NEW s \in States,
         docker' = [docker EXCEPT ![n] = s],
         UNCHANGED <<died, refused>>
  PROVE  AllSupported'
<1>1. /\ TypeOK /\ Progress /\ phase = "starting" /\ step > 0
      /\ n = Services[step]
  BY DEF DSSInv, Starting
<1>2. step \in Index /\ step \in Nat
  BY <1>1 DEF Progress, Index
<1>3. /\ docker'[n] = s
      /\ \A m \in Names : m # n => docker'[m] = docker[m]
  BY <1>1 DEF TypeOK
<1>4. SUFFICES ASSUME NEW m \in Names, NEW d \in Needs(m),
                      docker'[m] = "running"
               PROVE  Good(d)' \/ Supported(m, d)'
  BY DEF AllSupported, Supported
<1>5. d \in Names
  BY NeedsAreNames
<1>6. PICK k \in Index : m = Services[k]
  BY NamesAre
<1>7. PICK j \in Index : j < k /\ d = Services[j]
  BY <1>6, NeedsBefore
<1>8. CASE k = step
  <2>1. Good(d)
    BY <1>1, <1>7, <1>8 DEF Progress
  <2>2. d # n
    BY <1>1, <1>2, <1>7, <1>8, ServicesDiffer DEF Index
  <2> QED BY <1>3, <1>5, <2>1, <2>2 DEF Good
<1>9. CASE k # step
  <2>1. m # n
    BY <1>1, <1>2, <1>6, <1>9, ServicesDiffer
  <2>2. docker[m] = "running"
    BY <1>3, <1>4, <2>1
  <2>3. k < step
    BY <1>1, <1>2, <1>6, <2>2 DEF Progress
  <2>4. j < step /\ j # step
    BY <1>2, <1>7, <2>3 DEF Index
  <2>5. Good(d) /\ d # n
    BY <1>1, <1>2, <1>7, <2>4, ServicesDiffer DEF Progress
  <2> QED BY <1>3, <1>5, <2>5 DEF Good
<1> QED BY <1>8, <1>9

(* Close removes a container after every process that needs it.             *)
LEMMA CloseSupported ==
  ASSUME DSSInv, AllSupported, CloseContainer
  PROVE  AllSupported'
<1>1. TypeOK /\ Closing
  BY DEF DSSInv
<1>2. phase = "closing" /\ step <= 10
  BY ClosedNamesAre DEF CloseContainer
<1>3. step \in Index
  BY <1>1, <1>2 DEF Closing, Index
<1>4. PICK n \in Names : n = ClosedNames[step]
  BY <1>3, ListsAreComplete
<1>5. /\ \/ n \notin registered /\ UNCHANGED <<docker, refused>>
         \/ docker' = [docker EXCEPT ![n] = "gone"] /\ UNCHANGED refused
         \/ /\ refused' = refused \cup {<<"terminate", n>>}
            /\ UNCHANGED docker
      /\ UNCHANGED <<phase, registered, died>>
  BY <1>4, Zenon DEF CloseContainer
<1>6. CASE UNCHANGED docker
  <2>1. refused \subseteq refused'
    BY <1>5
  <2> QED BY <1>5, <1>6, <2>1, SameDocker
<1>7. CASE docker' = [docker EXCEPT ![n] = "gone"] /\ UNCHANGED refused
  <2>1. docker'[n] = "gone" /\ \A m \in Names : m # n => docker'[m] = docker[m]
    BY <1>1, <1>7 DEF TypeOK
  <2>2. SUFFICES ASSUME NEW m \in Names, NEW d \in Needs(m),
                        docker'[m] = "running"
                 PROVE  Supported(m, d)'
    BY DEF AllSupported, Supported
  <2>3. d \in Names /\ docker[m] = "running"
    BY <2>1, <2>2, NeedsAreNames
  <2>4. CASE d = n
    <3>1. PICK j \in Index : j < step /\ m = ClosedNames[j]
      BY <1>3, <1>4, <2>2, <2>4, NeedsAfter
    <3>2. Removed(m)
      BY <1>1, <1>2, <3>1 DEF Closing
    <3> QED BY <1>2, <1>5, <1>7, <2>3, <3>2 DEF Removed, Supported
  <2>5. CASE d # n
    <3>1. Supported(m, d) /\ docker'[d] = docker[d]
      BY <2>1, <2>3, <2>5 DEF AllSupported
    <3> QED BY <1>5, <1>7, <2>3, <3>1 DEF Supported, Good
  <2> QED BY <2>4, <2>5
<1> QED BY <1>5, <1>6, <1>7

LEMMA NextSupported ==
  ASSUME DSSInv, AllSupported, [Next]_vars
  PROVE  AllSupported'
<1>1. CASE \/ Expire \/ CheckInputs \/ CreateNetwork \/ Resolve
           \/ writeManifest \/ TestsEnd
  <2>1. UNCHANGED <<docker, died, registered, refused>>
    BY <1>1 DEF Expire, CheckInputs, CreateNetwork, Resolve, writeManifest,
                TestsEnd, tearing
  <2>2. phase \in {"closing", "closed"} => phase' = phase
    BY <1>1 DEF Expire, CheckInputs, CreateNetwork, Resolve, writeManifest,
                TestsEnd
  <2> QED BY <2>1, <2>2, SameDocker
<1>2. CASE Capture
  <2>1. UNCHANGED <<docker, died, registered>> /\ phase = "capturing"
    BY <1>2 DEF Capture
  <2>2. refused \subseteq refused'
    BY <1>2 DEF Capture, tearing
  <2> QED BY <2>1, <2>2, SameDocker
<1>3. CASE CloseContainer
  BY <1>3, CloseSupported
<1>4. CASE CloseNetwork
  <2>1. UNCHANGED <<docker, died, registered>> /\ phase' = "closed"
    BY <1>4 DEF CloseNetwork
  <2>2. refused \subseteq refused'
    BY <1>4 DEF CloseNetwork
  <2> QED BY <2>1, <2>2, SameDocker
<1>5. ASSUME NEW n \in Names, StartFails(n)
      PROVE  AllSupported'
  <2>1. /\ Starting(n) /\ UNCHANGED <<died, refused, registered>>
        /\ UNCHANGED docker \/ docker' = [docker EXCEPT ![n] = "running"]
    BY <1>5, Zenon DEF StartFails, tearing
  <2>2. CASE UNCHANGED docker
    BY <2>1, <2>2, SameDocker DEF Starting
  <2>3. CASE docker' = [docker EXCEPT ![n] = "running"]
    BY <2>1, <2>3, StartSupported DEF States
  <2> QED BY <2>1, <2>2, <2>3
<1>6. ASSUME NEW n \in Names, StartContainer(n)
      PROVE  AllSupported'
  <2>1. PICK s \in Ready(n) : docker' = [docker EXCEPT ![n] = s]
    BY <1>6 DEF StartContainer
  <2>2. s \in States
    BY DEF Ready, States
  <2>3. Starting(n) /\ UNCHANGED <<died, refused>>
    BY <1>6 DEF StartContainer, tearing
  <2> QED BY <2>1, <2>2, <2>3, StartSupported
<1>7. ASSUME NEW n \in Names, Inspect(n)
      PROVE  AllSupported'
  <2>1. UNCHANGED <<docker, died, registered, refused>> /\ phase = "inspecting"
    BY <1>7 DEF Inspect, tearing
  <2> QED BY <2>1, SameDocker
<1>8. ASSUME NEW n \in Names, Die(n)
      PROVE  AllSupported'
  <2>1. /\ docker' = [docker EXCEPT ![n] = "crashed"] /\ died' = died \cup {n}
        /\ UNCHANGED <<phase, registered, refused>>
    BY <1>8 DEF Die, tearing
  <2>2. /\ docker'[n] = "crashed"
        /\ \A m \in Names : m # n => docker'[m] = docker[m]
    BY <2>1 DEF DSSInv, TypeOK
  <2>3. \A m \in Names : Good(m) => Good(m)'
    BY <2>1, <2>2 DEF Good
  <2>4. \A m \in Names : docker'[m] = "running" => docker[m] = "running"
    BY <2>2
  <2> QED BY <2>1, <2>3, <2>4, NeedsAreNames DEF AllSupported, Supported
<1>9. CASE UNCHANGED vars
  BY <1>9, SameDocker DEF vars
<1> QED BY <1>1, <1>2, <1>3, <1>4, <1>5, <1>6, <1>7, <1>8, <1>9 DEF Next

(* From the first container to the last and through every teardown, a       *)
(* process runs only over what it needs: Start runs, and Close removes, in  *)
(* an order that respects Needs, whichever step fails.                      *)
THEOREM EverythingRunsSupported == Spec => []NothingRunsUnsupported
<1>1. Init => AllSupported
  <2>1. Init => \A n \in Names : docker[n] = "absent"
    BY DEF Init
  <2> QED BY <2>1 DEF AllSupported, Supported
<1>2. DSSInv /\ AllSupported /\ [Next]_vars => AllSupported'
  BY NextSupported
<1>3. AllSupported => NothingRunsUnsupported
  BY DEF AllSupported, Supported, Good, NothingRunsUnsupported
<1> QED BY <1>1, <1>2, <1>3, DSSInvariant, PTL DEF Spec
=============================================================================
