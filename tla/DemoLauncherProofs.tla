------------------------- MODULE DemoLauncherProofs -------------------------
(* Theorems about DemoLauncher for any set of process numbers.             *)
EXTENDS DemoLauncher, TLAPS

(* How far the script has come: a bring-up has the interface before it     *)
(* starts anything, and a stop has dealt with what lies behind it.         *)
Progress ==
    /\ at \in {"start_ecu", "start_cda", "stop_stub", "run_real", "start_grafana"} => tap
    /\ at \in {"stop_cda", "stop_real", "stop_grafana", "delete_tap"} => pidFile["ecu"] = none
    /\ at \in {"stop_real", "stop_grafana", "delete_tap"} => pidFile["cda"] = none
    /\ at \in {"stop_grafana", "delete_tap"} => (realCda => "realCda" \in unstopped)
    /\ at = "delete_tap" => (grafana => "grafana" \in unstopped)

Inv == TypeOK /\ NoOrphan /\ InterfaceInUse /\ Progress

LEMMA InitInv == PidAssumption /\ Init => Inv
  BY DEF PidAssumption, Init, Inv, TypeOK, NoOrphan, InterfaceInUse, Progress, Running, Services, Parts

(* Steps that only move the script, and never past a condition.            *)
LEMMA Quiet ==
    ASSUME Inv, UNCHANGED <<processes, pidFile, containers, tap>>,
           at' \in Parts, CDA_MODE' \in {"stub", "real"}, port' \in Pids \cup {"container", none},
           Progress'
    PROVE  Inv'
<1>1. TypeOK'
  BY DEF Inv, TypeOK, processes, containers
<1>2. NoOrphan' /\ InterfaceInUse'
  BY DEF Inv, NoOrphan, InterfaceInUse, Running, processes, containers
<1>. QED BY <1>1, <1>2 DEF Inv

(* A service whose PID file is gone does not run.                          *)
LEMMA Unfiled ==
    ASSUME PidAssumption, NoOrphan, NEW service \in Services, pidFile[service] = none
    PROVE  Running(service) = {}
  BY DEF PidAssumption, NoOrphan, Running

(* Launching keeps the file and the process together, and needs the        *)
(* interface.                                                              *)
LEMMA LaunchedInv ==
    ASSUME PidAssumption, Inv, NEW service \in Services, Launched(service), tap,
           UNCHANGED <<CDA_MODE, tap, containers, port>>,
           at' \in {"start_cda", "stop_stub", "start_grafana"}
    PROVE  Inv'
<1>1. CASE UNCHANGED <<processes, pidFile>>
  BY <1>1, Quiet DEF Inv, TypeOK, Parts, Progress
<1>2. CASE ~Alive(service) /\ UNCHANGED signalled
           /\ \E p \in Pids : /\ program[p] = "free"
                             /\ program' = [program EXCEPT ![p] = service]
                             /\ pidFile' = [pidFile EXCEPT ![service] = p]
  <2>1. PICK p \in Pids : /\ program[p] = "free"
                          /\ program' = [program EXCEPT ![p] = service]
                          /\ pidFile' = [pidFile EXCEPT ![service] = p]
    BY <1>2
  <2>2. TypeOK'
    BY <1>2, <2>1 DEF Inv, TypeOK, Parts, containers, Services
  <2>3. ASSUME NEW s \in Services, NEW q \in Running(s)'
        PROVE  pidFile'[s] = q
    <3>1. q \in Pids /\ program'[q] = s /\ q \notin signalled
      BY <1>2, <2>3 DEF Running
    <3>2. CASE q = p
      BY <2>1, <3>1, <3>2 DEF Inv, TypeOK
    <3>3. CASE q # p
      <4>1. q \in Running(s)
        BY <2>1, <3>1, <3>3 DEF Inv, TypeOK, Running
      <4>2. pidFile[s] = q
        BY <4>1 DEF Inv, NoOrphan
      <4>3. program[q] # "free" /\ q # none
        BY <4>1 DEF PidAssumption, Running, Services
      <4>4. s # service
        BY <1>2, <4>2, <4>3 DEF Alive
      <4>. QED BY <2>1, <4>2, <4>4 DEF Inv, TypeOK
    <3>. QED BY <3>2, <3>3
  <2>4. NoOrphan'
    BY <2>3 DEF NoOrphan
  <2>5. InterfaceInUse' /\ Progress'
    BY DEF InterfaceInUse, Progress
  <2>. QED BY <2>2, <2>4, <2>5 DEF Inv
<1>. QED BY <1>1, <1>2 DEF Launched

(* After a process has been told, its service does not count as running.   *)
LEMMA Told ==
    ASSUME PidAssumption, Inv, NEW service \in Services,
           signalled' = Signalled(service),
           pidFile' = [pidFile EXCEPT ![service] = none],
           UNCHANGED <<CDA_MODE, tap, program, containers, port>>,
           at' \in Parts, Progress'
    PROVE  Inv'
<1>1. TypeOK'
  BY DEF Inv, TypeOK, containers, Signalled
<1>2. ASSUME NEW s \in Services, NEW q \in Running(s)'
      PROVE  q \in Running(s) /\ pidFile'[s] = q
  <2>1. q \in Pids /\ program[q] = s /\ q \notin Signalled(service)
    BY <1>2 DEF Running
  <2>2. q \in Running(s)
    BY <2>1 DEF Running, Signalled
  <2>3. pidFile[s] = q
    BY <2>2 DEF Inv, NoOrphan
  <2>4. q # none /\ program[q] # "free"
    BY <2>1 DEF PidAssumption, Services
  <2>5. s # service
    BY <2>1, <2>3, <2>4 DEF Signalled
  <2>. QED BY <2>2, <2>3, <2>5 DEF Inv, TypeOK
<1>3. NoOrphan'
  BY <1>2 DEF NoOrphan
<1>4. InterfaceInUse'
  BY <1>2 DEF Inv, InterfaceInUse, containers
<1>. QED BY <1>1, <1>3, <1>4 DEF Inv

(* A process that ends, or another program that gets its number.           *)
LEMMA ExitInv ==
    ASSUME Inv, NEW p \in Pids, Exit(p)
    PROVE  Inv'
<1>1. TypeOK'
  BY DEF Inv, TypeOK, Exit, Freed, containers
<1>2. ASSUME NEW s \in Services, NEW q \in Running(s)'
      PROVE  q \in Running(s)
  <2>1. q \in Pids /\ program'[q] = s /\ q \notin signalled \ {p}
    BY <1>2 DEF Running, Exit
  <2>2. q # p
    BY <2>1 DEF Exit, Services, Inv, TypeOK
  <2>. QED BY <2>1, <2>2 DEF Running, Exit, Inv, TypeOK
<1>3. NoOrphan' /\ InterfaceInUse'
  BY <1>2 DEF Inv, NoOrphan, InterfaceInUse, Exit, containers
<1>4. Progress'
  BY DEF Inv, Progress, Exit, containers
<1>. QED BY <1>1, <1>3, <1>4 DEF Inv

LEMMA OtherStartsInv ==
    ASSUME Inv, NEW p \in Pids, OtherStarts(p)
    PROVE  Inv'
<1>1. TypeOK'
  BY DEF Inv, TypeOK, OtherStarts, containers
<1>2. ASSUME NEW s \in Services, NEW q \in Running(s)'
      PROVE  q \in Running(s)
  <2>1. q \in Pids /\ program'[q] = s /\ q \notin signalled
    BY <1>2 DEF Running, OtherStarts
  <2>2. q # p
    BY <2>1 DEF OtherStarts, Services, Inv, TypeOK
  <2>. QED BY <2>1, <2>2 DEF Running, OtherStarts, Inv, TypeOK
<1>3. NoOrphan' /\ InterfaceInUse'
  BY <1>2 DEF Inv, NoOrphan, InterfaceInUse, OtherStarts, containers
<1>4. Progress'
  BY DEF Inv, Progress, OtherStarts, containers
<1>. QED BY <1>1, <1>3, <1>4 DEF Inv

(* When both PID files are gone, so are the services.                      *)
LEMMA NothingRuns ==
    ASSUME PidAssumption, NoOrphan, pidFile["ecu"] = none, pidFile["cda"] = none
    PROVE  \A service \in Services : Running(service) = {}
  BY Unfiled DEF Services

LEMMA ScriptInv ==
    ASSUME PidAssumption, Inv, Script
    PROVE  Inv'
<1>1. ASSUME NEW mode \in {"stub", "real"}, BringUp(mode)
      PROVE  Inv'
  BY <1>1, Quiet DEF BringUp, Inv, TypeOK, Parts, Progress
<1>2. CASE setup_network
  BY <1>2 DEF setup_network, Inv, TypeOK, Parts, Progress, NoOrphan, InterfaceInUse, Running,
              processes, containers
<1>3. CASE start_ecu
  <2>1. tap /\ at' \in {"start_cda", "stop_stub", "start_grafana"}
    BY <1>3 DEF start_ecu, Inv, Progress
  <2>. QED BY <1>3, <2>1, LaunchedInv DEF start_ecu, Services
<1>4. CASE start_cda
  <2>1. tap
    BY <1>4 DEF start_cda, Inv, Progress
  <2>. QED BY <1>4, <2>1, LaunchedInv DEF start_cda, Services
<1>5. CASE stop_stub
  <2>1. at' = "run_real" /\ at' \in Parts /\ Progress'
    BY <1>5 DEF stop_stub, Inv, Progress, Parts
  <2>2. CASE Alive("cda")
    BY <1>5, <2>1, <2>2, Told DEF stop_stub, Services
  <2>3. CASE ~Alive("cda")
    BY <1>5, <2>1, <2>3, Quiet DEF stop_stub, Inv, TypeOK, processes
  <2>. QED BY <2>2, <2>3
<1>6. CASE run_real
  <2>1. TypeOK'
    BY <1>6 DEF run_real, Freed, Inv, TypeOK, Parts, processes
  <2>2. tap'
    BY <1>6 DEF run_real, Inv, Progress
  <2>3. NoOrphan'
    BY <1>6 DEF run_real, Inv, NoOrphan, Running, processes
  <2>4. InterfaceInUse' /\ Progress'
    BY <1>6, <2>2 DEF run_real, InterfaceInUse, Progress
  <2>. QED BY <2>1, <2>3, <2>4 DEF Inv
<1>7. CASE start_grafana
  <2>1. TypeOK'
    BY <1>7 DEF start_grafana, Inv, TypeOK, Parts, processes
  <2>2. tap'
    BY <1>7 DEF start_grafana, Inv, Progress
  <2>3. NoOrphan'
    BY <1>7 DEF start_grafana, Inv, NoOrphan, Running, processes
  <2>4. InterfaceInUse' /\ Progress'
    BY <1>7, <2>2 DEF start_grafana, InterfaceInUse, Progress
  <2>. QED BY <2>1, <2>3, <2>4 DEF Inv
<1>8. CASE smoke_test
  BY <1>8, Quiet DEF smoke_test, Inv, TypeOK, Parts, Progress
<1>9. CASE stop_demo
  BY <1>9, Quiet DEF stop_demo, FirstToStop, Inv, TypeOK, Parts, Progress
<1>10. CASE stop_ecu
  <2>1. at' \in Parts /\ Progress'
    BY <1>10 DEF stop_ecu, TornDown, Inv, TypeOK, Progress, Parts, Services
  <2>. QED BY <1>10, <2>1, Told DEF stop_ecu, TornDown, Services
<1>11. CASE stop_cda
  <2>1. at' \in Parts /\ Progress'
    BY <1>11 DEF stop_cda, TornDown, Inv, TypeOK, Progress, Parts, Services
  <2>. QED BY <1>11, <2>1, Told DEF stop_cda, TornDown, Services
<1>12. CASE stop_real_cda
  <2>1. TypeOK' /\ Progress'
    BY <1>12 DEF stop_real_cda, Freed, Inv, TypeOK, Parts, Progress, processes
  <2>2. NoOrphan' /\ InterfaceInUse'
    BY <1>12 DEF stop_real_cda, Inv, NoOrphan, InterfaceInUse, Running, processes
  <2>. QED BY <2>1, <2>2 DEF Inv
<1>13. CASE stop_grafana
  <2>1. TypeOK' /\ Progress'
    BY <1>13 DEF stop_grafana, Inv, TypeOK, Parts, Progress, processes
  <2>2. NoOrphan' /\ InterfaceInUse'
    BY <1>13 DEF stop_grafana, Inv, NoOrphan, InterfaceInUse, Running, processes
  <2>. QED BY <2>1, <2>2 DEF Inv
<1>14. CASE delete_tap
  <2>1. TypeOK' /\ Progress'
    BY <1>14 DEF delete_tap, Inv, TypeOK, Parts, Progress, processes, containers
  <2>2. NoOrphan'
    BY <1>14 DEF delete_tap, Inv, NoOrphan, Running, processes
  <2>3. /\ \A service \in Services : Running(service) = {}
        /\ realCda => "realCda" \in unstopped
        /\ grafana => "grafana" \in unstopped
    BY <1>14, NothingRuns DEF delete_tap, Inv, Progress
  <2>4. InterfaceInUse'
    BY <1>14, <2>3 DEF delete_tap, InterfaceInUse, Running, processes, containers
  <2>. QED BY <2>1, <2>2, <2>4 DEF Inv
<1>15. CASE Abort
  BY <1>15, Quiet DEF Abort, Inv, TypeOK, Parts, Progress
<1>. QED BY <1>1, <1>2, <1>3, <1>4, <1>5, <1>6, <1>7, <1>8, <1>9, <1>10, <1>11, <1>12, <1>13,
            <1>14, <1>15 DEF Script

LEMMA ProcessInv ==
    ASSUME Inv, ProcessStep \/ ContainerStep
    PROVE  Inv'
<1>1. ASSUME NEW p \in Pids, Exit(p) \/ StubGivesUp(p)
      PROVE  Inv'
  BY <1>1, ExitInv DEF StubGivesUp
<1>2. ASSUME NEW p \in Pids, OtherStarts(p)
      PROVE  Inv'
  BY <1>2, OtherStartsInv
<1>3. ASSUME NEW p \in Pids, StubListens(p)
      PROVE  Inv'
  BY <1>3, Quiet DEF StubListens, Inv, TypeOK, Progress, processes, containers
<1>4. CASE RealCdaListens
  BY <1>4, Quiet DEF RealCdaListens, Inv, TypeOK, Progress, processes, containers
<1>5. CASE RealCdaEnds
  <2>1. TypeOK' /\ Progress'
    BY <1>5 DEF RealCdaEnds, Freed, Inv, TypeOK, Progress, processes
  <2>2. NoOrphan' /\ InterfaceInUse'
    BY <1>5 DEF RealCdaEnds, Inv, NoOrphan, InterfaceInUse, Running, processes
  <2>. QED BY <2>1, <2>2 DEF Inv
<1>6. CASE GrafanaEnds
  <2>1. TypeOK' /\ Progress'
    BY <1>6 DEF GrafanaEnds, Inv, TypeOK, Progress, processes
  <2>2. NoOrphan' /\ InterfaceInUse'
    BY <1>6 DEF GrafanaEnds, Inv, NoOrphan, InterfaceInUse, Running, processes
  <2>. QED BY <2>1, <2>2 DEF Inv
<1>. QED BY <1>1, <1>2, <1>3, <1>4, <1>5, <1>6 DEF ProcessStep, ContainerStep

LEMMA NextInv ==
    ASSUME PidAssumption, Inv, [Next]_vars
    PROVE  Inv'
<1>1. CASE UNCHANGED vars
  BY <1>1, Quiet DEF vars, Inv, TypeOK, Progress, processes, containers
<1>2. CASE Next
  BY <1>2, ScriptInv, ProcessInv DEF Next
<1>. QED BY <1>1, <1>2

(* The invariant is inductive.                                             *)
THEOREM Invariant == Spec => []Inv
<1>1. Init => Inv
  BY InitInv, PidAssumption
<1>2. Inv /\ [Next]_vars => Inv'
  BY NextInv, PidAssumption
<1>. QED BY <1>1, <1>2, PTL DEF Spec

(* The state of launcher and processes keeps its types.                    *)
THEOREM TypeCorrect == Spec => []TypeOK
<1>1. Inv => TypeOK
  BY DEF Inv
<1>. QED BY <1>1, Invariant, PTL

(* No service runs that its PID file does not name, so a stop reaches all  *)
(* that was started.                                                       *)
THEOREM NeverOrphaned == Spec => []NoOrphan
<1>1. Inv => NoOrphan
  BY DEF Inv
<1>. QED BY <1>1, Invariant, PTL

(* The interface is only removed when nothing is left that needs it but a  *)
(* container that docker has failed to stop.                               *)
THEOREM AlwaysInterface == Spec => []InterfaceInUse
<1>1. Inv => InterfaceInUse
  BY DEF Inv
<1>. QED BY <1>1, Invariant, PTL

-----------------------------------------------------------------------------
(* Progress of a stop.                                                     *)

(* Nobody uses the launcher after it has removed the interface. *)
Removed == at = "idle" /\ ~tap

(* Every service that still runs then has been told to terminate, so that  *)
(* a PID file that has been removed too early is no loss.                  *)
LEMMA RemovedIsTold ==
    ASSUME Inv, Removed, NEW p \in Pids, program[p] \in Services
    PROVE  Terminating(p)
<1>1. Running(program[p]) = {}
  BY DEF Inv, InterfaceInUse, Removed
<1>. QED BY <1>1 DEF Running, Terminating

(* Until the launcher is used again nothing takes its signal from it. *)
LEMMA RemovedStays ==
    ASSUME Inv, Removed, NEW p \in Pids, program[p] \in Services, [Next]_vars, at' = "idle"
    PROVE  Removed'
<1>1. CASE UNCHANGED vars
  BY <1>1 DEF vars, Removed
<1>2. CASE Script
  BY <1>2 DEF Script, Removed, BringUp, setup_network, start_ecu, start_cda, stop_stub, run_real,
              start_grafana, smoke_test, stop_demo, FirstToStop, stop_ecu, stop_cda, stop_real_cda,
              stop_grafana, delete_tap, Abort
<1>3. CASE ProcessStep \/ ContainerStep
  BY <1>3 DEF ProcessStep, ContainerStep, Exit, OtherStarts, StubListens, StubGivesUp,
              RealCdaListens, RealCdaEnds, GrafanaEnds, Removed
<1>. QED BY <1>1, <1>2, <1>3 DEF Next

(* After a stop has removed the interface each single process that was a   *)
(* service ends, unless the launcher is used again: StoppedMeansGone for   *)
(* one process number at a time.                                           *)
THEOREM StoppedProcessEnds ==
    ASSUME NEW p \in Pids
    PROVE  FairSpec => (at = "idle" /\ ~tap ~> at # "idle" \/ program[p] \notin Services)
<1> DEFINE Left == Removed /\ program[p] \in Services
           Over == at # "idle" \/ program[p] \notin Services
<1>1. at = "idle" /\ ~tap => Left \/ Over
  BY DEF Removed
<1>2. Inv /\ Left /\ [Next]_vars => Left' \/ Over'
  BY RemovedStays
<1>3. Inv /\ Left => Terminating(p)
  BY RemovedIsTold
<1>4. Inv /\ <<Exit(p)>>_vars => Over'
  BY DEF Inv, TypeOK, Exit, Services
<1>5. FairSpec => Spec /\ ([]<>~Terminating(p) \/ []<><<Exit(p)>>_vars)
  BY DEF FairSpec, Fairness
<1>. QED BY <1>1, <1>2, <1>3, <1>4, <1>5, Invariant, PTL DEF Spec
=============================================================================
