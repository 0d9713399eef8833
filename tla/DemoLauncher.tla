---------------------------- MODULE DemoLauncher ----------------------------
(***************************************************************************)
(* The launcher of the demo (demo.sh): it brings up a network interface,   *)
(* the ECU, one of two diagnostic adapters and Grafana, and stops them     *)
(* again.  It remembers the processes it has started in PID files, so what *)
(* it knows of them is what those numbers stand for when it comes back.    *)
(*                                                                         *)
(* One invocation runs at a time.  A step is one function of the script,   *)
(* or one block of stop_demo() and start_real_cda(); the script may end    *)
(* before any of them, because of Ctrl-C or because a command failed       *)
(* ("set -e").  Processes die, get their signals late, and leave numbers   *)
(* behind that other programs may be given.                                *)
(*                                                                         *)
(* Abstracted: building, installing and waiting change nothing that is     *)
(* kept here; what they add is that the script may end at that point.      *)
(***************************************************************************)
CONSTANTS
    Pids,       \* process numbers
    none        \* no process

ASSUME PidAssumption == none \notin Pids

Services == {"ecu", "cda"}      \* PID_FILE and CDA_PID_FILE: app.sovdDemo.elf and the stub

VARIABLES
    at,         \* the part of the script that runs next, "idle": no script runs
    CDA_MODE,   \* which adapter the last bring-up asked for
    tap,        \* does the interface exist?
    program,    \* what runs under each number
    signalled,  \* processes that have been told to terminate
    pidFile,    \* the number in each PID file, none: there is no such file
    realCda,    \* does the container of the real adapter run?
    grafana,    \* does the container of Grafana run?
    unstopped,  \* containers that docker has failed to stop
    port        \* who listens on SOVD_PORT: a process, "container" or none

processes == <<program, signalled>>
containers == <<realCda, grafana, unstopped>>
vars == <<at, CDA_MODE, tap, processes, pidFile, containers, port>>

Parts ==
    {"idle", "setup_network", "start_ecu", "start_cda", "stop_stub", "run_real", "start_grafana",
     "smoke_test", "stop_ecu", "stop_cda", "stop_real", "stop_grafana", "delete_tap"}

TypeOK ==
    /\ at \in Parts
    /\ CDA_MODE \in {"stub", "real"}
    /\ tap \in BOOLEAN
    /\ program \in [Pids -> Services \cup {"free", "other"}]
    /\ signalled \subseteq Pids
    /\ pidFile \in [Services -> Pids \cup {none}]
    /\ realCda \in BOOLEAN
    /\ grafana \in BOOLEAN
    /\ unstopped \subseteq {"realCda", "grafana"}
    /\ port \in Pids \cup {"container", none}

Init ==
    /\ at = "idle"
    /\ CDA_MODE = "stub"
    /\ tap = FALSE
    /\ program = [p \in Pids |-> "free"]
    /\ signalled = {}
    /\ pidFile = [s \in Services |-> none]
    /\ realCda = FALSE
    /\ grafana = FALSE
    /\ unstopped = {}
    /\ port = none

-----------------------------------------------------------------------------
(* The processes.                                                          *)

(* [[ -f "$PID_FILE" ]] && kill -0 "$(cat "$PID_FILE")" *)
Alive(service) == pidFile[service] # none /\ program[pidFile[service]] # "free"

Freed(owner) == IF port = owner THEN none ELSE port

(* A process ends: it crashes, finishes, or follows its signal. *)
Exit(p) ==
    /\ program[p] # "free"
    /\ program' = [program EXCEPT ![p] = "free"]
    /\ signalled' = signalled \ {p}
    /\ port' = Freed(p)
    /\ UNCHANGED <<at, CDA_MODE, tap, pidFile, containers>>

(* The system gives a number to another program. *)
OtherStarts(p) ==
    /\ program[p] = "free"
    /\ program' = [program EXCEPT ![p] = "other"]
    /\ UNCHANGED <<at, CDA_MODE, tap, signalled, pidFile, containers, port>>

(* The stub gets its port; without it uvicorn gives up. *)
StubListens(p) ==
    /\ program[p] = "cda" /\ port = none
    /\ port' = p
    /\ UNCHANGED <<at, CDA_MODE, tap, processes, pidFile, containers>>

StubGivesUp(p) ==
    /\ program[p] = "cda" /\ port \notin {none, p}
    /\ Exit(p)

RealCdaListens ==
    /\ realCda /\ port = none
    /\ port' = "container"
    /\ UNCHANGED <<at, CDA_MODE, tap, processes, pidFile, containers>>

RealCdaEnds ==
    /\ realCda
    /\ realCda' = FALSE
    /\ unstopped' = unstopped \ {"realCda"}
    /\ port' = Freed("container")
    /\ UNCHANGED <<at, CDA_MODE, tap, processes, pidFile, grafana>>

GrafanaEnds ==
    /\ grafana
    /\ grafana' = FALSE
    /\ unstopped' = unstopped \ {"grafana"}
    /\ UNCHANGED <<at, CDA_MODE, tap, processes, pidFile, realCda, port>>

-----------------------------------------------------------------------------
(* Bring-up.                                                               *)

BringUp(mode) ==
    /\ at = "idle"
    /\ at' = "setup_network"
    /\ CDA_MODE' = mode
    /\ UNCHANGED <<tap, processes, pidFile, containers, port>>

setup_network ==
    /\ at = "setup_network"
    /\ tap' = TRUE
    /\ at' = "start_ecu"
    /\ UNCHANGED <<CDA_MODE, processes, pidFile, containers, port>>

(* Mutant: nobody asks whether the service is already running. *)
LaunchedAgain(service) ==
    /\ \E p \in Pids :
           /\ program[p] = "free"
           /\ program' = [program EXCEPT ![p] = service]
           /\ pidFile' = [pidFile EXCEPT ![service] = p]
    /\ UNCHANGED signalled

(* "... &", echo $! > "$PID_FILE": unless it is already running. *)
Launched(service) ==
    \/ /\ Alive(service)
       /\ UNCHANGED <<processes, pidFile>>
    \/ /\ ~Alive(service)
       /\ \E p \in Pids :
              /\ program[p] = "free"
              /\ program' = [program EXCEPT ![p] = service]
              /\ pidFile' = [pidFile EXCEPT ![service] = p]
       /\ UNCHANGED signalled

start_ecu ==
    /\ at = "start_ecu"
    /\ Launched("ecu")
    /\ at' = IF CDA_MODE = "stub" THEN "start_cda" ELSE "stop_stub"
    /\ UNCHANGED <<CDA_MODE, tap, containers, port>>

start_cda ==
    /\ at = "start_cda"
    /\ Launched("cda")
    /\ at' = "start_grafana"
    /\ UNCHANGED <<CDA_MODE, tap, containers, port>>

(* Mutant: the process is told although there may be no PID file. *)
SignalledBlindly(service) == signalled \cup {pidFile[service]}

(* kill "$(cat "$PID_FILE")": whatever runs under that number gets it. *)
Signalled(service) ==
    signalled \cup {p \in {pidFile[service]} \ {none} : program[p] # "free"}

(* start_real_cda() stops the stub, if it finds it running. *)
stop_stub ==
    /\ at = "stop_stub"
    /\ \/ /\ Alive("cda")
          /\ signalled' = Signalled("cda")
          /\ pidFile' = [pidFile EXCEPT !["cda"] = none]
       \/ /\ ~Alive("cda")
          /\ UNCHANGED <<signalled, pidFile>>
    /\ at' = "run_real"
    /\ UNCHANGED <<CDA_MODE, tap, program, containers, port>>

(* "docker rm -f ... || true", build, "docker run".  When one of them fails *)
(* the script ends; an old container that could not be removed keeps the   *)
(* name, so that "docker run" fails beside it.                             *)
run_real ==
    /\ at = "run_real"
    /\ \/ /\ realCda' = TRUE /\ unstopped' = unstopped \ {"realCda"}
          /\ port' = Freed("container")
          /\ at' = "start_grafana"
       \/ /\ realCda' = FALSE /\ unstopped' = unstopped \ {"realCda"}
          /\ port' = Freed("container")
          /\ at' = "idle"
       \/ /\ realCda /\ at' = "idle"
          /\ UNCHANGED <<realCda, unstopped, port>>
    /\ UNCHANGED <<CDA_MODE, tap, processes, pidFile, grafana>>

(* Without docker, or when Grafana already answers, nothing is started. *)
start_grafana ==
    /\ at = "start_grafana"
    /\ \/ grafana' = TRUE /\ unstopped' = unstopped \ {"grafana"}
       \/ UNCHANGED <<grafana, unstopped>>
    /\ at' = "smoke_test"
    /\ UNCHANGED <<CDA_MODE, tap, processes, pidFile, realCda, port>>

(* The smoke test asks whoever listens for its health. *)
SmokeTestPassed == at = "smoke_test" /\ port # none

smoke_test ==
    /\ at = "smoke_test"
    /\ at' = "idle"
    /\ UNCHANGED <<CDA_MODE, tap, processes, pidFile, containers, port>>

-----------------------------------------------------------------------------
(* Stop.                                                                   *)

(* Mutant: the interface goes first. *)
FirstToStopInterface == "delete_tap"

FirstToStop == "stop_ecu"

stop_demo ==
    /\ at = "idle"
    /\ at' = FirstToStop
    /\ UNCHANGED <<CDA_MODE, tap, processes, pidFile, containers, port>>

(* Mutant: the PID file goes, the process is not told. *)
TornDownQuietly(service) ==
    /\ pidFile' = [pidFile EXCEPT ![service] = none]
    /\ UNCHANGED signalled

(* kill, then rm: also when the process does not run any more. *)
TornDown(service) ==
    /\ signalled' = Signalled(service)
    /\ pidFile' = [pidFile EXCEPT ![service] = none]

stop_ecu ==
    /\ at = "stop_ecu"
    /\ TornDown("ecu")
    /\ at' = "stop_cda"
    /\ UNCHANGED <<CDA_MODE, tap, program, containers, port>>

stop_cda ==
    /\ at = "stop_cda"
    /\ TornDown("cda")
    /\ at' = "stop_real"
    /\ UNCHANGED <<CDA_MODE, tap, program, containers, port>>

(* "docker ps" and "docker stop ... || true" may fail: the script goes on. *)
stop_real_cda ==
    /\ at = "stop_real"
    /\ \/ /\ realCda' = FALSE /\ unstopped' = unstopped \ {"realCda"}
          /\ port' = Freed("container")
       \/ /\ realCda /\ unstopped' = unstopped \cup {"realCda"}
          /\ UNCHANGED <<realCda, port>>
    /\ at' = "stop_grafana"
    /\ UNCHANGED <<CDA_MODE, tap, processes, pidFile, grafana>>

stop_grafana ==
    /\ at = "stop_grafana"
    /\ \/ grafana' = FALSE /\ unstopped' = unstopped \ {"grafana"}
       \/ grafana /\ unstopped' = unstopped \cup {"grafana"} /\ UNCHANGED grafana
    /\ at' = "delete_tap"
    /\ UNCHANGED <<CDA_MODE, tap, processes, pidFile, realCda, port>>

(* "sudo ip link delete ... || true": it may be refused. *)
delete_tap ==
    /\ at = "delete_tap"
    /\ tap' \in {FALSE, tap}
    /\ at' = "idle"
    /\ UNCHANGED <<CDA_MODE, processes, pidFile, containers, port>>

(* Ctrl-C, or a command that fails under "set -e". *)
Abort ==
    /\ at # "idle"
    /\ at' = "idle"
    /\ UNCHANGED <<CDA_MODE, tap, processes, pidFile, containers, port>>

-----------------------------------------------------------------------------
Script ==
    \/ \E mode \in {"stub", "real"} : BringUp(mode)
    \/ setup_network \/ start_ecu \/ start_cda \/ stop_stub \/ run_real
    \/ start_grafana \/ smoke_test
    \/ stop_demo \/ stop_ecu \/ stop_cda \/ stop_real_cda \/ stop_grafana \/ delete_tap
    \/ Abort

ProcessStep ==
    \E p \in Pids : Exit(p) \/ OtherStarts(p) \/ StubListens(p) \/ StubGivesUp(p)

ContainerStep == RealCdaListens \/ RealCdaEnds \/ GrafanaEnds

Next == Script \/ ProcessStep \/ ContainerStep

Spec == Init /\ [][Next]_vars

(* Neither ECU nor stub ignores SIGTERM: told to terminate, they do.       *)
(* Weak fairness of Exit for such a process, with its guard in place of    *)
(* ENABLED.                                                                *)
Terminating(p) == p \in signalled /\ program[p] \in Services

Fairness == \A p \in Pids : []<>~Terminating(p) \/ []<><<Exit(p)>>_vars

FairSpec == Spec /\ Fairness

-----------------------------------------------------------------------------
(* Properties.                                                             *)

Running(service) == {p \in Pids : program[p] = service /\ p \notin signalled}

(* The launcher loses no process: whatever mix of bring-ups in both modes, *)
(* aborted scripts, crashes and reused numbers led here, a service that    *)
(* runs untold is the one its PID file names, so --stop finds it           *)
(* (tests_rg5.rst:73 "Verify no orphan processes remain").                 *)
NoOrphan ==
    \A service \in Services : \A p \in Running(service) : pidFile[service] = p

(* Nothing outlives the interface but a container that docker has failed   *)
(* to stop: when it has been removed, each service has been stopped or     *)
(* told to stop, and so has every other container, wherever a --stop was   *)
(* interrupted and whatever was started after it.                          *)
InterfaceInUse ==
    \/ tap
    \/ /\ \A service \in Services : Running(service) = {}
       /\ realCda => "realCda" \in unstopped
       /\ grafana => "grafana" \in unstopped

(* After --stop has removed the interface, the services really end, unless *)
(* the launcher is used again.                                             *)
StoppedMeansGone ==
    at = "idle" /\ ~tap ~> at # "idle" \/ \A p \in Pids : program[p] \notin Services

(* demo.sh:9-10: the bring-up "starts the SOVD CDA server" and "runs a     *)
(* quick smoke test against [...] the SOVD API"; tests_rg5.rst:64: "Verify *)
(* ECU and CDA start successfully": a smoke test that passes has not       *)
(* talked to the adapter of the other mode.                                *)
SmokeTestMeetsItsCda ==
    SmokeTestPassed /\ CDA_MODE = "stub" => port # "container"
=============================================================================
