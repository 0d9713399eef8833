----------------------------- MODULE DtcMemory -----------------------------
(***************************************************************************)
(* The fault memory of the demo ECU: the DTC store                         *)
(* (DiagnosticTroubleCode.h, DiagnosticTroubleCodeStore.h), the simulator  *)
(* that changes it every 500 ms (DtcSimulator.cpp) and the UDS services    *)
(* 0x19 and 0x14 that report and clear it (ReadDTCInformation.cpp,         *)
(* ClearDiagnosticInformation.cpp).  Simulator and services run in one     *)
(* context, so each call is one step.                                      *)
(*                                                                         *)
(* Abstracted: a status byte is the set of its bits, a DTC number and a    *)
(* status mask are values of small sets, the random numbers of the         *)
(* simulator are arbitrary, and its step counter is kept modulo 4, the     *)
(* only thing it is used for.                                              *)
(***************************************************************************)
EXTENDS SimulatedSensor, Sequences, FiniteSets

CONSTANTS
    Registered,         \* the DTC numbers init() adds, in order
    EngineDtc,          \* DTC_ENGINE_OVERTEMP
    BatteryDtc,         \* DTC_BATTERY_VOLTAGE_LOW
    MAX_DTCS,           \* capacity of the store
    EngineMin, EngineMax, EngineStart,      \* 70, 130, 90
    EngineCool, EngineHot,                  \* 100, 120
    BatteryMin, BatteryMax, BatteryStart,   \* 100, 150, 128
    BatteryLow, BatteryGood,                \* 110, 120
    SpeedMin, SpeedMax, SpeedStart          \* 0, 220, 60

ASSUME RegisteredAssumption ==
    Registered \in Seq(STRING) /\ Len(Registered) \in 1 .. MAX_DTCS

(* Both linked DTCs are registered (stated with the first position, the one *)
(* findDtcByNumber() finds), and they are different DTCs.                  *)
ASSUME LinkAssumption ==
    /\ EngineDtc # BatteryDtc
    /\ \A number \in {EngineDtc, BatteryDtc} : \E i \in 1 .. Len(Registered) :
          Registered[i] = number /\ \A j \in 1 .. (i - 1) : Registered[j] # number

ASSUME SensorAssumption ==
    /\ {EngineMin, EngineMax, EngineStart, EngineCool, EngineHot} \subseteq Nat
    /\ {BatteryMin, BatteryMax, BatteryStart, BatteryLow, BatteryGood} \subseteq Nat
    /\ {SpeedMin, SpeedMax, SpeedStart, MAX_DTCS} \subseteq Nat
    /\ EngineStart \in EngineMin .. EngineMax
    /\ BatteryStart \in BatteryMin .. BatteryMax
    /\ SpeedStart \in SpeedMin .. SpeedMax
    /\ EngineCool <= EngineHot /\ BatteryLow <= BatteryGood

VARIABLES
    dtcs,       \* _dtcs[0 .. _count - 1]: number and status of each DTC
    engine,     \* _engineTemp
    battery,    \* _batteryVoltage
    speed,      \* _vehicleSpeed
    phase       \* _stepCounter % 4

sensors == <<engine, battery, speed>>
vars == <<dtcs, engine, battery, speed, phase>>

StatusBit ==
    {"TEST_FAILED", "TEST_FAILED_THIS_OPERATION_CYCLE", "PENDING_DTC", "CONFIRMED_DTC",
     "TEST_NOT_COMPLETED_SINCE_LAST_CLEAR", "TEST_FAILED_SINCE_LAST_CLEAR",
     "TEST_NOT_COMPLETED_THIS_OPERATION_CYC", "WARNING_INDICATOR_REQUESTED"}

Dtc == [number : STRING, status : SUBSET StatusBit]

TypeOK ==
    /\ dtcs \in Seq(Dtc)
    /\ Len(dtcs) <= MAX_DTCS
    /\ engine \in EngineMin .. EngineMax
    /\ battery \in BatteryMin .. BatteryMax
    /\ speed \in SpeedMin .. SpeedMax
    /\ phase \in 0 .. 3

(* The constructor, then init(): every DTC starts with status byte 0. *)
Init ==
    /\ dtcs = [i \in 1 .. Len(Registered) |-> [number |-> Registered[i], status |-> {}]]
    /\ engine = EngineStart
    /\ battery = BatteryStart
    /\ speed = SpeedStart
    /\ phase = 0

-----------------------------------------------------------------------------
(* One DTC.                                                                *)

(* clear() *)
Cleared == {"TEST_NOT_COMPLETED_SINCE_LAST_CLEAR", "TEST_NOT_COMPLETED_THIS_OPERATION_CYC"}

FailureBits == {"TEST_FAILED", "CONFIRMED_DTC", "TEST_FAILED_SINCE_LAST_CLEAR"}

(* Mutant: a toggled DTC is not confirmed. *)
ToggledUnconfirmed(status) ==
    IF "TEST_FAILED" \in status
    THEN status \ {"TEST_FAILED", "TEST_FAILED_THIS_OPERATION_CYCLE"}
    ELSE status \cup {"TEST_FAILED", "TEST_FAILED_THIS_OPERATION_CYCLE"}

(* The random toggle: an active fault heals, an inactive one fails. *)
Toggled(status) ==
    IF "TEST_FAILED" \in status
    THEN status \ {"TEST_FAILED", "TEST_FAILED_THIS_OPERATION_CYCLE"}
    ELSE status \cup FailureBits \cup {"TEST_FAILED_THIS_OPERATION_CYCLE"}

(* Mutant: a healed fault is forgotten altogether. *)
LinkedForgetting(status, fails, heals) ==
    IF fails THEN status \cup FailureBits
    ELSE IF heals THEN status \ FailureBits ELSE status

(* A DTC that is linked to a sensor, after the sensor has moved. *)
Linked(status, fails, heals) ==
    IF fails THEN status \cup FailureBits
    ELSE IF heals THEN status \ {"TEST_FAILED"} ELSE status

-----------------------------------------------------------------------------
(* The store.                                                              *)

(* findDtcByNumber(): the first entry with that number, if there is one. *)
IsFirst(store, i, number) ==
    /\ store[i].number = number
    /\ \A j \in 1 .. (i - 1) : store[j].number # number

LinkedStore(store, number, fails, heals) ==
    [i \in DOMAIN store |->
        IF IsFirst(store, i, number)
        THEN [store[i] EXCEPT !.status = Linked(@, fails, heals)]
        ELSE store[i]]

(* What the toggle can leave: every fourth step one DTC, or none. *)
ToggledStores(store) ==
    {store} \cup {[store EXCEPT ![i].status = Toggled(@)] : i \in DOMAIN store}

(* Mutant: the linked DTCs are computed before the toggle. *)
SimulatedLinkFirst(store, temperature, voltage, toggle) ==
    LET linked == LinkedStore(LinkedStore(store,
                      EngineDtc, temperature > EngineHot, temperature < EngineCool),
                      BatteryDtc, voltage < BatteryLow, voltage > BatteryGood)
    IN  IF toggle THEN ToggledStores(linked) ELSE {linked}

(* The stores one step may lead to: toggle, then engine, then battery. *)
Simulated(store, temperature, voltage, toggle) ==
    {LinkedStore(LinkedStore(toggled,
         EngineDtc, temperature > EngineHot, temperature < EngineCool),
         BatteryDtc, voltage < BatteryLow, voltage > BatteryGood) :
     toggled \in IF toggle THEN ToggledStores(store) ELSE {store}}

(* DtcSimulator::step() *)
Step ==
    /\ phase' = (phase + 1) % 4
    /\ engine' \in {Stepped(engine, d, EngineMin, EngineMax) : d \in Deltas}
    /\ battery' \in {Stepped(battery, d, BatteryMin, BatteryMax) : d \in Deltas}
    /\ speed' \in {Stepped(speed, d, SpeedMin, SpeedMax) : d \in Deltas}
    /\ dtcs' \in Simulated(dtcs, engine', battery', phase' = 0)

-----------------------------------------------------------------------------
(* The UDS services.                                                       *)

clearAll(store) == [i \in DOMAIN store |-> [store[i] EXCEPT !.status = Cleared]]

(* 0x14 FF FF FF *)
ClearAll ==
    /\ dtcs' = clearAll(dtcs)
    /\ UNCHANGED <<sensors, phase>>

(* 0x14 with the number of a DTC; an unknown number is answered with a     *)
(* negative response and changes nothing.                                  *)
ClearByNumber(number) ==
    /\ \E i \in DOMAIN dtcs :
           /\ IsFirst(dtcs, i, number)
           /\ dtcs' = [dtcs EXCEPT ![i].status = Cleared]
    /\ UNCHANGED <<sensors, phase>>

(* getStatusAvailabilityMask(): 0xFF *)
StatusAvailabilityMask == StatusBit

matchesStatusMask(dtc, mask) == dtc.status \cap mask # {}

(* Mutant: a DTC counts only if it has every bit of the mask. *)
countByWholeMask(store, mask) ==
    Cardinality({i \in DOMAIN store : mask \subseteq store[i].status})

countByStatusMask(store, mask) ==
    Cardinality({i \in DOMAIN store : matchesStatusMask(store[i], mask)})

(* The response after each DTC that the loop of 0x19 02 has looked at. *)
Listed(store, mask) ==
    LET listed[n \in 0 .. Len(store)] ==
            IF n = 0 THEN <<>>
            ELSE IF matchesStatusMask(store[n], mask) THEN Append(listed[n - 1], store[n])
            ELSE listed[n - 1]
    IN  listed

(* 0x19 01 and 0x19 02, each with the bits of the mask that are available. *)
reportNumberOfDtcByStatusMask(store, mask) ==
    countByStatusMask(store, mask \cap StatusAvailabilityMask)

reportDtcByStatusMask(store, mask) ==
    Listed(store, mask \cap StatusAvailabilityMask)[Len(store)]

Next ==
    \/ Step
    \/ ClearAll
    \/ \E i \in DOMAIN dtcs : ClearByNumber(dtcs[i].number)

Spec == Init /\ [][Next]_vars

-----------------------------------------------------------------------------
(* Properties.                                                             *)

(* No failure is visible without its record: whatever mix of toggles,      *)
(* sensor links and clears led here, a DTC that is failing is confirmed    *)
(* and marked as failed since the last clear.                              *)
FailureIsRecorded ==
    \A i \in DOMAIN dtcs : "TEST_FAILED" \in dtcs[i].status => FailureBits \subseteq dtcs[i].status

(* The record of a failure outlives the failure: only service 0x14 for     *)
(* that DTC, or for all of them, removes it.                               *)
RecordUntilCleared ==
    [][\A i \in DOMAIN dtcs :
          "CONFIRMED_DTC" \in dtcs[i].status
             => \/ "CONFIRMED_DTC" \in dtcs'[i].status
                \/ ClearAll
                \/ ClearByNumber(dtcs[i].number)]_vars

(* After each simulator step the DTCs of engine and battery agree with the *)
(* sensors, also when the random toggle has just changed them              *)
(* (HACKATHON.md: "Engine temperature and battery voltage are linked to    *)
(* DTC triggers").                                                         *)
Failing(number) ==
    \E i \in DOMAIN dtcs : IsFirst(dtcs, i, number) /\ "TEST_FAILED" \in dtcs[i].status

LinksFollowSensors ==
    [][Step => /\ engine' > EngineHot => Failing(EngineDtc)'
               /\ engine' < EngineCool => ~Failing(EngineDtc)'
               /\ battery' < BatteryLow => Failing(BatteryDtc)'
               /\ battery' > BatteryGood => ~Failing(BatteryDtc)']_vars

(* Each simulated value walks: it stays in its range and moves by at most  *)
(* two per step, at the bounds too (REQ_RG1_010: "bounded random walk").   *)
Walks(old, new, min, max) == new \in min .. max /\ new - old \in Deltas

BoundedWalk ==
    [][Step => /\ Walks(engine, engine', EngineMin, EngineMax)
               /\ Walks(battery, battery', BatteryMin, BatteryMax)
               /\ Walks(speed, speed', SpeedMin, SpeedMax)]_vars

(* The two ways a tester learns about the fault memory agree: the number   *)
(* 0x19 01 reports is the length of the list 0x19 02 reports, for each     *)
(* mask over the bits that tell failing, recorded and untested DTCs apart. *)
CountMatchesList ==
    \A mask \in SUBSET {"TEST_FAILED", "CONFIRMED_DTC", "TEST_NOT_COMPLETED_SINCE_LAST_CLEAR"} :
        reportNumberOfDtcByStatusMask(dtcs, mask) = Len(reportDtcByStatusMask(dtcs, mask))
=============================================================================
