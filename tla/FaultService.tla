---------------------------- MODULE FaultService ----------------------------
(***************************************************************************)
(* What the diagnostic API promises its callers, without connections,      *)
(* messages or status codes: a request acts on the ECU at most once, in    *)
(* one step.  If the answer is positive, that step lies between the call   *)
(* and the answer, and the answer is what the ECU reported in that step.   *)
(* A refused request never acts.  After any other error the caller knows   *)
(* nothing: the request may have acted, and it may still act later.        *)
(***************************************************************************)
EXTENDS DiagnosticServices

CONSTANTS Callers, Operations

VARIABLE call   \* progress of the one request of each caller

serviceVars == <<vars, call>>

Progress(state, op, faults, reading) ==
    [state |-> state, op |-> op, faults |-> faults, reading |-> reading]

NoCall == Progress("idle", ReadFaults({}), <<>>, <<>>)

ServiceInit == Init /\ call = [c \in Callers |-> NoCall]

(* The ECU moves on its own. *)
EcuMoves == UNCHANGED call /\ Step

Call(c, op) ==
    /\ call[c].state = "idle"
    /\ call' = [call EXCEPT ![c] = Progress("called", op, <<>>, <<>>)]
    /\ UNCHANGED vars

(* The request acts, before its answer or after an error. *)
Act(c) ==
    /\ \/ /\ call[c].state = "called"
          /\ call' = [call EXCEPT ![c] = Progress("acted", @.op, Reported(@.op), Read(@.op))]
       \/ /\ call[c].state = "unknown"
          /\ call' = [call EXCEPT ![c] = Progress("over", @.op, <<>>, <<>>)]
    /\ Accepts(call[c].op) /\ Performs(call[c].op)

Answer(c) ==
    /\ call[c].state = "acted"
    /\ call' = [call EXCEPT ![c] = Progress("answered", @.op, @.faults, @.reading)]
    /\ UNCHANGED vars

Refuse(c, op) ==
    /\ call[c].state = "idle"
    /\ call' = [call EXCEPT ![c] = Progress("refused", op, <<>>, <<>>)]
    /\ UNCHANGED vars

(* An error: what was reported, if anything was, is lost. *)
Fail(c) ==
    /\ \/ /\ call[c].state = "called"
          /\ call' = [call EXCEPT ![c] = Progress("unknown", @.op, <<>>, <<>>)]
       \/ /\ call[c].state = "acted"
          /\ call' = [call EXCEPT ![c] = Progress("over", @.op, <<>>, <<>>)]
    /\ UNCHANGED vars

ServiceNext ==
    \/ EcuMoves
    \/ \E c \in Callers, op \in Operations : Call(c, op) \/ Refuse(c, op)
    \/ \E c \in Callers : Act(c) \/ Answer(c) \/ Fail(c)

ServiceSpec == ServiceInit /\ [][ServiceNext]_serviceVars
=============================================================================
