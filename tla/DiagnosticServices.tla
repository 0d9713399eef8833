------------------------- MODULE DiagnosticServices -------------------------
(***************************************************************************)
(* The UDS requests the stub CDA sends to the ECU, as the ECU executes     *)
(* them: 0x19 02 (list of the DTCs), 0x19 06 (one DTC with its extended    *)
(* data), 0x14 (clear) and 0x22 (read a simulated sensor).  A request is   *)
(* dispatched in the ECU's diagnostic context, so its execution is one     *)
(* step of the fault memory.                                               *)
(*                                                                         *)
(* A response keeps the fields the adapter looks at: the DTCs with their   *)
(* status, the extended data, and the bytes of a data identifier.          *)
(***************************************************************************)
EXTENDS DtcMemory

(* GROUP_OF_ALL_DTCS *)
AllDtcs == "FFFFFF"

ReadFaults(mask) == [service |-> "faults", mask |-> mask]
ReadDetail(number) == [service |-> "detail", number |-> number]
ClearFaults(group) == [service |-> "clear", group |-> group]
ReadData(did) == [service |-> "data", did |-> did]

IsClear(op) == op.service = "clear"

(* The simulated sensors by the name of their data identifier. *)
SensorValue == [EngineTemp |-> engine, BatteryVoltage |-> battery, VehicleSpeed |-> speed]

IsRegistered(number) == \E i \in DOMAIN dtcs : IsFirst(dtcs, i, number)

(* Requests that get a positive response; others are out of range. *)
Accepts(op) ==
    \/ op.service = "faults"
    \/ op.service = "detail" /\ IsRegistered(op.number)
    \/ op.service = "clear" /\ (op.group = AllDtcs \/ IsRegistered(op.group))
    \/ op.service = "data" /\ op.did \in DOMAIN SensorValue

(* What the execution of an accepted request does to the ECU. *)
Performs(op) ==
    \/ IsClear(op) /\ op.group = AllDtcs /\ ClearAll
    \/ IsClear(op) /\ op.group # AllDtcs /\ ClearByNumber(op.group)
    \/ ~IsClear(op) /\ UNCHANGED vars

(* The DTCs a positive response reports. *)
Reported(op) ==
    IF op.service = "faults" THEN reportDtcByStatusMask(dtcs, op.mask)
    ELSE IF op.service = "detail"
    THEN <<dtcs[CHOOSE i \in DOMAIN dtcs : IsFirst(dtcs, i, op.number)]>>
    ELSE <<>>

(* The reading a positive response to 0x22 carries. *)
Read(op) == IF op.service = "data" THEN <<SensorValue[op.did]>> ELSE <<>>
=============================================================================
