-------------------------- MODULE DtcMemoryProofs --------------------------
(* Proofs about the fault memory, for any DTC table and any sensor ranges. *)
EXTENDS DtcMemory, FiniteSetTheorems, NaturalInduction

Recorded(status) == "TEST_FAILED" \in status => FailureBits \subseteq status

(* The clamped walk stays in its range, for any bounds. *)
LEMMA SteppedInRange ==
    ASSUME NEW min \in Int, NEW max \in Int, min <= max,
           NEW value \in min .. max, NEW d \in Deltas
    PROVE  /\ Stepped(value, d, min, max) \in min .. max
           /\ Stepped(value, d, min, max) - value \in Deltas
  BY DEF Stepped, Clamp, Deltas

(* The operations on one status byte keep it a status byte, keep a failure *)
(* recorded, and -- except for the clear -- keep the record.               *)
LEMMA ToggledStatus ==
    ASSUME NEW s \in SUBSET StatusBit, Recorded(s)
    PROVE  /\ Toggled(s) \in SUBSET StatusBit
           /\ Recorded(Toggled(s))
           /\ "CONFIRMED_DTC" \in s => "CONFIRMED_DTC" \in Toggled(s)
  BY DEF Toggled, Recorded, FailureBits, StatusBit

LEMMA LinkedStatus ==
    ASSUME NEW s \in SUBSET StatusBit, Recorded(s), NEW fails \in BOOLEAN, NEW heals \in BOOLEAN
    PROVE  /\ Linked(s, fails, heals) \in SUBSET StatusBit
           /\ Recorded(Linked(s, fails, heals))
           /\ "CONFIRMED_DTC" \in s => "CONFIRMED_DTC" \in Linked(s, fails, heals)
  BY DEF Linked, Recorded, FailureBits, StatusBit

(* A store all of whose failures are recorded. *)
GoodStore(store) ==
    /\ store \in Seq(Dtc)
    /\ \A i \in DOMAIN store : Recorded(store[i].status)

(* new has the DTCs of old, in order. *)
SameNumbers(old, new) ==
    Len(new) = Len(old) /\ \A i \in DOMAIN old : new[i].number = old[i].number

(* And every record of old is still there. *)
Keeps(old, new) ==
    /\ SameNumbers(old, new)
    /\ \A i \in DOMAIN old : "CONFIRMED_DTC" \in old[i].status => "CONFIRMED_DTC" \in new[i].status

LEMMA LinkedStoreGood ==
    ASSUME NEW store, GoodStore(store), NEW number,
           NEW fails \in BOOLEAN, NEW heals \in BOOLEAN
    PROVE  /\ GoodStore(LinkedStore(store, number, fails, heals))
           /\ Keeps(store, LinkedStore(store, number, fails, heals))
<1> DEFINE new == LinkedStore(store, number, fails, heals)
<1>1. store \in Seq(Dtc) /\ DOMAIN store = 1 .. Len(store)
  BY DEF GoodStore
<1>2. ASSUME NEW i \in DOMAIN store
      PROVE  /\ new[i] \in Dtc /\ new[i].number = store[i].number
             /\ Recorded(new[i].status)
             /\ "CONFIRMED_DTC" \in store[i].status => "CONFIRMED_DTC" \in new[i].status
  <2>1. store[i] \in Dtc /\ Recorded(store[i].status)
    BY <1>1 DEF GoodStore
  <2>2. store[i].status \in SUBSET StatusBit
    BY <2>1 DEF Dtc
  <2>3. new[i] = IF IsFirst(store, i, number)
                 THEN [store[i] EXCEPT !.status = Linked(store[i].status, fails, heals)]
                 ELSE store[i]
    BY DEF LinkedStore
  <2>4. CASE IsFirst(store, i, number)
    <3>1. /\ new[i] \in Dtc /\ new[i].number = store[i].number
          /\ new[i].status = Linked(store[i].status, fails, heals)
      BY <2>1, <2>2, <2>3, <2>4, LinkedStatus DEF Dtc
    <3>. QED BY <2>1, <2>2, <3>1, LinkedStatus
  <2>5. CASE ~IsFirst(store, i, number)
    BY <2>1, <2>3, <2>5
  <2>. QED BY <2>4, <2>5
<1>3. DOMAIN new = 1 .. Len(store)
  BY <1>1 DEF LinkedStore
<1>4. new \in Seq(Dtc) /\ Len(new) = Len(store)
  <2>1. new = [i \in 1 .. Len(store) |-> new[i]]
    BY <1>1 DEF LinkedStore
  <2>2. new \in [1 .. Len(store) -> Dtc]
    BY <1>1, <1>2, <2>1
  <2>. QED BY <1>1, <2>2
<1>. QED BY <1>1, <1>2, <1>3, <1>4 DEF GoodStore, Keeps, SameNumbers

LEMMA KeepsTransitive ==
    ASSUME NEW a, NEW b, NEW c, GoodStore(a), GoodStore(b), Keeps(a, b), Keeps(b, c)
    PROVE  Keeps(a, c)
<1>1. DOMAIN a = 1 .. Len(a) /\ DOMAIN b = 1 .. Len(b)
  BY DEF GoodStore
<1>2. DOMAIN a = DOMAIN b
  BY <1>1 DEF Keeps, SameNumbers
<1>. QED BY <1>2 DEF Keeps, SameNumbers

LEMMA ToggledStoresGood ==
    ASSUME NEW store, GoodStore(store), NEW new \in ToggledStores(store)
    PROVE  GoodStore(new) /\ Keeps(store, new)
<1>1. store \in Seq(Dtc) /\ DOMAIN store = 1 .. Len(store)
  BY DEF GoodStore
<1>2. CASE new = store
  BY <1>1, <1>2 DEF GoodStore, Keeps, SameNumbers
<1>3. CASE \E i \in DOMAIN store : new = [store EXCEPT ![i].status = Toggled(@)]
  <2>1. PICK i \in DOMAIN store : new = [store EXCEPT ![i].status = Toggled(store[i].status)]
    BY <1>3
  <2>2. store[i] \in Dtc /\ Recorded(store[i].status) /\ store[i].status \in SUBSET StatusBit
    <3>1. store[i] \in Dtc /\ Recorded(store[i].status)
      BY <1>1 DEF GoodStore
    <3>. QED BY <3>1 DEF Dtc
  <2>3. /\ new[i] \in Dtc /\ Recorded(new[i].status) /\ new[i].number = store[i].number
        /\ "CONFIRMED_DTC" \in store[i].status => "CONFIRMED_DTC" \in new[i].status
    <3>1. new[i] = [store[i] EXCEPT !.status = Toggled(store[i].status)]
      BY <1>1, <2>1
    <3>2. new[i] \in Dtc /\ new[i].status = Toggled(store[i].status) /\ new[i].number = store[i].number
      BY <2>2, <3>1, ToggledStatus DEF Dtc
    <3>. QED BY <2>2, <3>2, ToggledStatus
  <2>4. new \in Seq(Dtc) /\ Len(new) = Len(store) /\ DOMAIN new = DOMAIN store
    <3>1. new = [j \in 1 .. Len(store) |-> new[j]]
      BY <1>1, <2>1
    <3>2. \A j \in 1 .. Len(store) : new[j] \in Dtc
      BY <1>1, <2>1, <2>3
    <3>. QED BY <1>1, <3>1, <3>2
  <2>5. \A j \in DOMAIN store : j # i => new[j] = store[j]
    BY <2>1
  <2>. QED BY <1>1, <2>3, <2>4, <2>5 DEF GoodStore, Keeps, SameNumbers
<1>. QED BY <1>2, <1>3 DEF ToggledStores

LEMMA SimulatedGood ==
    ASSUME NEW store, GoodStore(store), NEW temperature \in Nat, NEW voltage \in Nat,
           NEW toggle \in BOOLEAN, SensorAssumption,
           NEW new \in Simulated(store, temperature, voltage, toggle)
    PROVE  GoodStore(new) /\ Keeps(store, new)
<1> DEFINE eHot == temperature > EngineHot
           eCool == temperature < EngineCool
           bLow == voltage < BatteryLow
           bGood == voltage > BatteryGood
<1>1. PICK toggled \in (IF toggle THEN ToggledStores(store) ELSE {store}) :
          new = LinkedStore(LinkedStore(toggled, EngineDtc, eHot, eCool), BatteryDtc, bLow, bGood)
  BY DEF Simulated
<1>2. GoodStore(toggled) /\ Keeps(store, toggled)
  <2>1. CASE toggle
    BY <1>1, <2>1, ToggledStoresGood
  <2>2. CASE ~toggle
    BY <1>1, <2>2 DEF GoodStore, Keeps, SameNumbers
  <2>. QED BY <2>1, <2>2
<1> DEFINE once == LinkedStore(toggled, EngineDtc, eHot, eCool)
<1>3. eHot \in BOOLEAN /\ eCool \in BOOLEAN /\ bLow \in BOOLEAN /\ bGood \in BOOLEAN
  BY DEF SensorAssumption
<1> HIDE DEF eHot, eCool, bLow, bGood
<1>4. GoodStore(once) /\ Keeps(toggled, once)
  BY <1>2, <1>3, LinkedStoreGood
<1>5. new = LinkedStore(once, BatteryDtc, bLow, bGood)
  BY <1>1
<1> HIDE DEF once
<1>6. GoodStore(new) /\ Keeps(once, new)
  BY <1>3, <1>4, <1>5, LinkedStoreGood
<1>7. Keeps(store, once)
  BY <1>2, <1>4, KeepsTransitive
<1>. QED BY <1>4, <1>6, <1>7, KeepsTransitive

(* The bounds of the sensors are numbers, and their ranges are not empty.  *)
LEMMA Bounds ==
    ASSUME SensorAssumption
    PROVE  /\ EngineMin \in Nat /\ EngineMax \in Nat /\ EngineMin <= EngineMax
           /\ BatteryMin \in Nat /\ BatteryMax \in Nat /\ BatteryMin <= BatteryMax
           /\ SpeedMin \in Nat /\ SpeedMax \in Nat /\ SpeedMin <= SpeedMax
<1>1. /\ EngineMin \in Nat /\ EngineMax \in Nat
      /\ BatteryMin \in Nat /\ BatteryMax \in Nat
      /\ SpeedMin \in Nat /\ SpeedMax \in Nat
      /\ EngineStart \in Nat /\ BatteryStart \in Nat /\ SpeedStart \in Nat
  BY DEF SensorAssumption
<1>2. EngineMin <= EngineMax
  BY <1>1 DEF SensorAssumption
<1>3. BatteryMin <= BatteryMax
  BY <1>1 DEF SensorAssumption
<1>4. SpeedMin <= SpeedMax
  BY <1>1 DEF SensorAssumption
<1>. QED BY <1>1, <1>2, <1>3, <1>4

(* What a step of the simulator does to the sensors.                       *)
LEMMA StepWalks ==
    ASSUME SensorAssumption, TypeOK, Step
    PROVE  /\ Walks(engine, engine', EngineMin, EngineMax)
           /\ Walks(battery, battery', BatteryMin, BatteryMax)
           /\ Walks(speed, speed', SpeedMin, SpeedMax)
<1>1. Walks(engine, engine', EngineMin, EngineMax)
  <2>1. PICK d \in Deltas : engine' = Stepped(engine, d, EngineMin, EngineMax)
    BY DEF Step
  <2>2. engine \in EngineMin .. EngineMax
    BY DEF TypeOK
  <2>3. EngineMin \in Int /\ EngineMax \in Int /\ EngineMin <= EngineMax
    BY Bounds
  <2>. QED BY <2>1, <2>2, <2>3, SteppedInRange DEF Walks
<1>2. Walks(battery, battery', BatteryMin, BatteryMax)
  <2>1. PICK d \in Deltas : battery' = Stepped(battery, d, BatteryMin, BatteryMax)
    BY DEF Step
  <2>2. battery \in BatteryMin .. BatteryMax
    BY DEF TypeOK
  <2>3. BatteryMin \in Int /\ BatteryMax \in Int /\ BatteryMin <= BatteryMax
    BY Bounds
  <2>. QED BY <2>1, <2>2, <2>3, SteppedInRange DEF Walks
<1>3. Walks(speed, speed', SpeedMin, SpeedMax)
  <2>1. PICK d \in Deltas : speed' = Stepped(speed, d, SpeedMin, SpeedMax)
    BY DEF Step
  <2>2. speed \in SpeedMin .. SpeedMax
    BY DEF TypeOK
  <2>3. SpeedMin \in Int /\ SpeedMax \in Int /\ SpeedMin <= SpeedMax
    BY Bounds
  <2>. QED BY <2>1, <2>2, <2>3, SteppedInRange DEF Walks
<1>. QED BY <1>1, <1>2, <1>3

-----------------------------------------------------------------------------
(* The inductive invariant: types, every failure recorded, and the DTCs    *)
(* those that were registered, in order.                                   *)
Numbered ==
    /\ Len(dtcs) = Len(Registered)
    /\ \A i \in 1 .. Len(Registered) : dtcs[i].number = Registered[i]

Inv ==
    /\ TypeOK
    /\ FailureIsRecorded
    /\ Numbered

LEMMA GoodFromInv ==
    ASSUME Inv
    PROVE  GoodStore(dtcs)
  BY DEF Inv, TypeOK, FailureIsRecorded, GoodStore, Recorded

LEMMA InvInit ==
    ASSUME Init, RegisteredAssumption, SensorAssumption
    PROVE  Inv
<1>1. dtcs \in Seq(Dtc) /\ Len(dtcs) = Len(Registered)
  <2>1. \A i \in 1 .. Len(Registered) : Registered[i] \in STRING
    BY DEF RegisteredAssumption
  <2>2. dtcs \in [1 .. Len(Registered) -> Dtc]
    BY <2>1 DEF Init, Dtc
  <2>3. Len(Registered) \in Nat
    BY DEF RegisteredAssumption
  <2>4. ASSUME NEW n \in Nat, dtcs \in [1 .. n -> Dtc] PROVE dtcs \in Seq(Dtc) /\ Len(dtcs) = n
    BY <2>4
  <2>. QED BY <2>2, <2>3, <2>4
<1>2. \A i \in DOMAIN dtcs : dtcs[i].status = {}
  BY DEF Init
<1>5. Numbered
  BY <1>1 DEF Init, Numbered
<1>3. TypeOK
  BY <1>1 DEF Init, TypeOK, RegisteredAssumption, SensorAssumption
<1>4. FailureIsRecorded
  BY <1>2 DEF FailureIsRecorded
<1>. QED BY <1>3, <1>4, <1>5 DEF Inv

LEMMA StepSensors ==
    ASSUME SensorAssumption, TypeOK, Step
    PROVE  engine' \in Nat /\ battery' \in Nat
<1>1. engine' \in EngineMin .. EngineMax /\ battery' \in BatteryMin .. BatteryMax
  BY StepWalks DEF Walks
<1>2. EngineMin \in Nat /\ BatteryMin \in Nat /\ EngineMax \in Nat /\ BatteryMax \in Nat
  BY Bounds
<1>. QED BY <1>1, <1>2

(* A simulator step keeps every record.                                    *)
LEMMA StepKeeps ==
    ASSUME SensorAssumption, Inv, Step
    PROVE  GoodStore(dtcs') /\ Keeps(dtcs, dtcs')
<1>1. engine' \in Nat /\ battery' \in Nat
  BY StepSensors DEF Inv
<1>2. dtcs' \in Simulated(dtcs, engine', battery', phase' = 0)
  BY DEF Step
<1>. QED BY <1>1, <1>2, GoodFromInv, SimulatedGood

(* Service 0x14 leaves no failure, and the other DTCs as they are.         *)
LEMMA ClearedRecorded == Cleared \in SUBSET StatusBit /\ Recorded(Cleared)
  BY DEF Cleared, Recorded, StatusBit

LEMMA ClearAllGood ==
    ASSUME Inv, ClearAll
    PROVE  GoodStore(dtcs') /\ SameNumbers(dtcs, dtcs')
<1>1. dtcs \in Seq(Dtc) /\ DOMAIN dtcs = 1 .. Len(dtcs)
  BY DEF Inv, TypeOK
<1>2. ASSUME NEW i \in DOMAIN dtcs
      PROVE  dtcs'[i] \in Dtc /\ dtcs'[i].status = Cleared /\ dtcs'[i].number = dtcs[i].number
  <2>1. dtcs[i] \in Dtc
    BY <1>1
  <2>2. dtcs'[i] = [dtcs[i] EXCEPT !.status = Cleared]
    BY DEF ClearAll, clearAll
  <2>. QED BY <2>1, <2>2, ClearedRecorded DEF Dtc
<1>3. dtcs' = [i \in 1 .. Len(dtcs) |-> dtcs'[i]]
  BY <1>1 DEF ClearAll, clearAll
<1>4. dtcs' \in Seq(Dtc) /\ Len(dtcs') = Len(dtcs)
  BY <1>1, <1>2, <1>3
<1>5. DOMAIN dtcs' = DOMAIN dtcs
  BY <1>1, <1>3
<1>. QED BY <1>2, <1>4, <1>5, ClearedRecorded DEF GoodStore, SameNumbers

LEMMA ClearByNumberGood ==
    ASSUME Inv, NEW n, ClearByNumber(n)
    PROVE  GoodStore(dtcs') /\ SameNumbers(dtcs, dtcs')
<1>1. dtcs \in Seq(Dtc) /\ DOMAIN dtcs = 1 .. Len(dtcs)
  BY DEF Inv, TypeOK
<1>2. PICK i \in DOMAIN dtcs : dtcs' = [dtcs EXCEPT ![i].status = Cleared]
  BY DEF ClearByNumber
<1>3. dtcs'[i] \in Dtc /\ dtcs'[i].status = Cleared /\ dtcs'[i].number = dtcs[i].number
  <2>1. dtcs[i] \in Dtc
    BY <1>1
  <2>2. dtcs'[i] = [dtcs[i] EXCEPT !.status = Cleared]
    BY <1>2
  <2>. QED BY <2>1, <2>2, ClearedRecorded DEF Dtc
<1>4. \A j \in DOMAIN dtcs : j # i => dtcs'[j] = dtcs[j]
  BY <1>2
<1>5. dtcs' = [j \in 1 .. Len(dtcs) |-> dtcs'[j]]
  BY <1>1, <1>2
<1>6. \A j \in 1 .. Len(dtcs) : dtcs'[j] \in Dtc
  BY <1>1, <1>3, <1>4
<1>7. dtcs' \in Seq(Dtc) /\ Len(dtcs') = Len(dtcs) /\ DOMAIN dtcs' = DOMAIN dtcs
  BY <1>1, <1>5, <1>6
<1>8. \A j \in DOMAIN dtcs : Recorded(dtcs'[j].status)
  <2>1. GoodStore(dtcs)
    BY GoodFromInv
  <2>. QED BY <1>3, <1>4, <2>1, ClearedRecorded DEF GoodStore
<1>. QED BY <1>3, <1>4, <1>7, <1>8 DEF GoodStore, SameNumbers

LEMMA InvNext ==
    ASSUME RegisteredAssumption, SensorAssumption, Inv, [Next]_vars
    PROVE  Inv'
<1>1. ASSUME GoodStore(dtcs'), SameNumbers(dtcs, dtcs')
      PROVE  /\ dtcs' \in Seq(Dtc) /\ Len(dtcs') <= MAX_DTCS
             /\ FailureIsRecorded'
             /\ Numbered'
  <2>1. DOMAIN dtcs = 1 .. Len(Registered) /\ Len(dtcs) <= MAX_DTCS
    BY DEF Inv, TypeOK, Numbered
  <2>2. Numbered'
    BY <1>1, <2>1 DEF Inv, Numbered, SameNumbers
  <2>. QED BY <1>1, <2>1, <2>2 DEF GoodStore, FailureIsRecorded, Recorded, SameNumbers
<1>2. CASE Step
  <2>1. GoodStore(dtcs') /\ SameNumbers(dtcs, dtcs')
    BY <1>2, StepKeeps DEF Keeps
  <2>2. /\ engine' \in EngineMin .. EngineMax
        /\ battery' \in BatteryMin .. BatteryMax
        /\ speed' \in SpeedMin .. SpeedMax
    BY <1>2, StepWalks DEF Inv, Walks
  <2>3. phase' \in 0 .. 3
    BY <1>2 DEF Inv, TypeOK, Step
  <2>. QED BY <1>1, <2>1, <2>2, <2>3 DEF Inv, TypeOK
<1>3. CASE ClearAll
  <2>1. GoodStore(dtcs') /\ SameNumbers(dtcs, dtcs')
    BY <1>3, ClearAllGood
  <2>. QED BY <1>1, <1>3, <2>1 DEF Inv, TypeOK, ClearAll, clearAll, sensors
<1>4. CASE \E i \in DOMAIN dtcs : ClearByNumber(dtcs[i].number)
  <2>1. PICK n : ClearByNumber(n)
    BY <1>4
  <2>2. GoodStore(dtcs') /\ SameNumbers(dtcs, dtcs')
    BY <2>1, ClearByNumberGood
  <2>. QED BY <1>1, <2>1, <2>2 DEF Inv, TypeOK, ClearByNumber, sensors
<1>5. CASE UNCHANGED vars
  BY <1>5 DEF vars, Inv, TypeOK, FailureIsRecorded, Numbered
<1>. QED BY <1>2, <1>3, <1>4, <1>5 DEF Next

THEOREM Invariant == Spec => []Inv
<1>1. Init => Inv
  BY InvInit, RegisteredAssumption, SensorAssumption
<1>2. Inv /\ [Next]_vars => Inv'
  BY InvNext, RegisteredAssumption, SensorAssumption
<1>. QED BY <1>1, <1>2, PTL DEF Spec

(* Every variable keeps its type: the store never outgrows its capacity    *)
(* and no sensor leaves its range.                                         *)
THEOREM TypeCorrect == Spec => []TypeOK
  BY Invariant, PTL DEF Inv

(* A DTC that is failing is confirmed and marked as failed since the last  *)
(* clear, whatever toggles, links and clears led to its state.             *)
THEOREM AlwaysRecorded == Spec => []FailureIsRecorded
  BY Invariant, PTL DEF Inv

(* Each sensor moves by at most two per simulator step, inside its range.  *)
THEOREM AlwaysBoundedWalk == Spec => BoundedWalk
<1>1. Inv /\ [Next]_vars => [Step => /\ Walks(engine, engine', EngineMin, EngineMax)
                                    /\ Walks(battery, battery', BatteryMin, BatteryMax)
                                    /\ Walks(speed, speed', SpeedMin, SpeedMax)]_vars
  BY StepWalks, SensorAssumption DEF Inv
<1>. QED BY <1>1, Invariant, PTL DEF Spec, BoundedWalk

(* Only service 0x14 for that DTC, or for all, takes a record away.        *)
THEOREM AlwaysUntilCleared == Spec => RecordUntilCleared
<1> DEFINE KeptOrCleared == \A i \in DOMAIN dtcs :
          "CONFIRMED_DTC" \in dtcs[i].status
             => \/ "CONFIRMED_DTC" \in dtcs'[i].status
                \/ ClearAll
                \/ ClearByNumber(dtcs[i].number)
<1>1. ASSUME Inv, [Next]_vars
      PROVE  [KeptOrCleared]_vars
  <2>1. CASE Step
    BY <1>1, <2>1, StepKeeps, SensorAssumption DEF Keeps
  <2>2. CASE ClearAll
    BY <2>2
  <2>3. CASE \E i \in DOMAIN dtcs : ClearByNumber(dtcs[i].number)
    <3>1. PICK n : ClearByNumber(n)
      BY <2>3
    <3>2. PICK i \in DOMAIN dtcs : /\ IsFirst(dtcs, i, n)
                                  /\ dtcs' = [dtcs EXCEPT ![i].status = Cleared]
      BY <3>1 DEF ClearByNumber
    <3>3. ClearByNumber(dtcs[i].number)
      BY <3>1, <3>2 DEF IsFirst
    <3>4. \A j \in DOMAIN dtcs : j # i => dtcs'[j] = dtcs[j]
      BY <3>2
    <3>. QED BY <3>3, <3>4
  <2>. QED BY <1>1, <2>1, <2>2, <2>3 DEF Next
<1>2. Inv /\ [Next]_vars => [KeptOrCleared]_vars
  BY <1>1
<1>. QED BY <1>2, Invariant, PTL DEF Spec, RecordUntilCleared

-----------------------------------------------------------------------------
(* The links.  Where a number is first does not depend on the statuses, so *)
(* the DTC a link writes is the DTC that is found by its number.           *)
LEMMA FirstIsUnique ==
    ASSUME NEW store, store \in Seq(Dtc), NEW number, NEW i \in DOMAIN store, NEW j \in DOMAIN store,
           IsFirst(store, i, number), IsFirst(store, j, number)
    PROVE  i = j
<1>1. DOMAIN store = 1 .. Len(store) /\ Len(store) \in Nat
  OBVIOUS
<1>2. ~(j \in 1 .. (i - 1)) /\ ~(i \in 1 .. (j - 1))
  BY DEF IsFirst
<1>. QED BY <1>1, <1>2

LEMMA FirstIsKept ==
    ASSUME NEW old, NEW new, GoodStore(old), GoodStore(new), SameNumbers(old, new),
           NEW number, NEW i \in DOMAIN old, IsFirst(old, i, number)
    PROVE  i \in DOMAIN new /\ IsFirst(new, i, number)
<1>1. DOMAIN old = 1 .. Len(old) /\ DOMAIN new = 1 .. Len(old) /\ Len(old) \in Nat
  BY DEF GoodStore, SameNumbers
<1>2. \A j \in 1 .. (i - 1) : j \in DOMAIN old
  BY <1>1
<1>. QED BY <1>1, <1>2 DEF IsFirst, SameNumbers

LEMMA FirstHasNumber ==
    ASSUME NEW store, NEW number, NEW i, IsFirst(store, i, number)
    PROVE  store[i].number = number
  BY DEF IsFirst

(* Both linked DTCs are found, at different places.                        *)
LEMMA LinksAreFound ==
    ASSUME LinkAssumption, RegisteredAssumption, Inv, NEW number \in {EngineDtc, BatteryDtc}
    PROVE  \E i \in DOMAIN dtcs : IsFirst(dtcs, i, number)
<1>1. PICK i \in 1 .. Len(Registered) :
          Registered[i] = number /\ \A j \in 1 .. (i - 1) : Registered[j] # number
  BY DEF LinkAssumption
<1>2. DOMAIN dtcs = 1 .. Len(Registered) /\ Len(Registered) \in Nat
  BY DEF Inv, TypeOK, Numbered, RegisteredAssumption
<1>3. \A j \in 1 .. (i - 1) : j \in 1 .. Len(Registered)
  BY <1>2
<1>4. \A j \in 1 .. Len(Registered) : dtcs[j].number = Registered[j]
  BY DEF Inv, Numbered
<1>5. IsFirst(dtcs, i, number)
  BY <1>1, <1>3, <1>4 DEF IsFirst
<1>. QED BY <1>2, <1>5

(* A link writes the status of its DTC.                                    *)
LEMMA LinkWrites ==
    ASSUME NEW store, GoodStore(store), NEW number, NEW fails \in BOOLEAN, NEW heals \in BOOLEAN,
           NEW i \in DOMAIN store, IsFirst(store, i, number)
    PROVE  /\ fails => "TEST_FAILED" \in LinkedStore(store, number, fails, heals)[i].status
           /\ heals /\ ~fails => "TEST_FAILED" \notin LinkedStore(store, number, fails, heals)[i].status
<1> DEFINE new == LinkedStore(store, number, fails, heals)
<1>1. new[i] = [store[i] EXCEPT !.status = Linked(store[i].status, fails, heals)]
  BY DEF LinkedStore
<1>2. store[i] \in Dtc
  BY DEF GoodStore
<1>3. new[i].status = Linked(store[i].status, fails, heals)
  BY <1>1, <1>2 DEF Dtc
<1>4. fails => "TEST_FAILED" \in Linked(store[i].status, fails, heals)
  BY DEF Linked, FailureBits
<1>5. heals /\ ~fails => "TEST_FAILED" \notin Linked(store[i].status, fails, heals)
  BY DEF Linked
<1>. QED BY <1>3, <1>4, <1>5

(* And it leaves the others alone.                                         *)
LEMMA LinkSpares ==
    ASSUME NEW store, NEW number, NEW fails, NEW heals, NEW i \in DOMAIN store,
           ~IsFirst(store, i, number)
    PROVE  LinkedStore(store, number, fails, heals)[i] = store[i]
  BY DEF LinkedStore

LEMMA StepLinks ==
    ASSUME LinkAssumption, RegisteredAssumption, SensorAssumption, Inv, Step
    PROVE  /\ engine' > EngineHot => Failing(EngineDtc)'
           /\ engine' < EngineCool => ~Failing(EngineDtc)'
           /\ battery' < BatteryLow => Failing(BatteryDtc)'
           /\ battery' > BatteryGood => ~Failing(BatteryDtc)'
<1>1. /\ engine' \in Nat /\ battery' \in Nat
      /\ EngineHot \in Nat /\ EngineCool \in Nat /\ EngineCool <= EngineHot
      /\ BatteryLow \in Nat /\ BatteryGood \in Nat /\ BatteryLow <= BatteryGood
  <2>1. engine' \in Nat /\ battery' \in Nat
    BY StepSensors DEF Inv
  <2>. QED BY <2>1 DEF SensorAssumption
<1> DEFINE eHot == engine' > EngineHot
           eCool == engine' < EngineCool
           bLow == battery' < BatteryLow
           bGood == battery' > BatteryGood
<1>2. /\ eHot \in BOOLEAN /\ eCool \in BOOLEAN /\ bLow \in BOOLEAN /\ bGood \in BOOLEAN
      /\ ~(eHot /\ eCool) /\ ~(bLow /\ bGood)
  BY <1>1
<1>3. PICK toggled \in (IF phase' = 0 THEN ToggledStores(dtcs) ELSE {dtcs}) :
          dtcs' = LinkedStore(LinkedStore(toggled, EngineDtc, eHot, eCool), BatteryDtc, bLow, bGood)
  BY DEF Step, Simulated
<1> DEFINE once == LinkedStore(toggled, EngineDtc, eHot, eCool)
<1>4. GoodStore(toggled) /\ SameNumbers(dtcs, toggled)
  <2>1. GoodStore(dtcs)
    BY GoodFromInv
  <2>2. CASE phase' = 0
    BY <1>3, <2>1, <2>2, ToggledStoresGood DEF Keeps
  <2>3. CASE phase' # 0
    BY <1>3, <2>1, <2>3 DEF GoodStore, SameNumbers
  <2>. QED BY <2>2, <2>3
<1> HIDE DEF eHot, eCool, bLow, bGood
<1>5. GoodStore(once) /\ SameNumbers(toggled, once)
  BY <1>2, <1>4, LinkedStoreGood DEF Keeps
<1>6. dtcs' = LinkedStore(once, BatteryDtc, bLow, bGood)
  BY <1>3
<1>7. ASSUME NEW i \in DOMAIN toggled, IsFirst(toggled, i, EngineDtc)
      PROVE  /\ eHot => "TEST_FAILED" \in once[i].status
             /\ eCool /\ ~eHot => "TEST_FAILED" \notin once[i].status
  BY <1>2, <1>4, <1>7, LinkWrites
<1> HIDE DEF once
<1>8. GoodStore(dtcs') /\ SameNumbers(once, dtcs')
  BY <1>2, <1>5, <1>6, LinkedStoreGood DEF Keeps
<1>9. PICK e \in DOMAIN dtcs : IsFirst(dtcs, e, EngineDtc)
  BY LinksAreFound
<1>10. PICK b \in DOMAIN dtcs : IsFirst(dtcs, b, BatteryDtc)
  BY LinksAreFound
<1>11. /\ e \in DOMAIN toggled /\ IsFirst(toggled, e, EngineDtc)
       /\ b \in DOMAIN toggled /\ IsFirst(toggled, b, BatteryDtc)
  BY <1>4, <1>9, <1>10, GoodFromInv, FirstIsKept
<1>12. /\ e \in DOMAIN once /\ IsFirst(once, e, EngineDtc)
       /\ b \in DOMAIN once /\ IsFirst(once, b, BatteryDtc)
  BY <1>4, <1>5, <1>11, FirstIsKept
<1>13. /\ e \in DOMAIN dtcs' /\ IsFirst(dtcs', e, EngineDtc)
       /\ b \in DOMAIN dtcs' /\ IsFirst(dtcs', b, BatteryDtc)
  BY <1>5, <1>8, <1>12, FirstIsKept
<1>14. ~IsFirst(once, e, BatteryDtc)
  <2>1. once[e].number = EngineDtc
    BY <1>12, FirstHasNumber
  <2>. QED BY <2>1 DEF LinkAssumption, IsFirst
<1>15. dtcs'[e] = once[e]
  <2>1. e \in DOMAIN once
    BY <1>12
  <2>2. LinkedStore(once, BatteryDtc, bLow, bGood)[e] = once[e]
    BY <2>1, <1>14, LinkSpares
  <2>. QED BY <1>6, <2>2
<1>16. /\ eHot => "TEST_FAILED" \in dtcs'[e].status
       /\ eCool => "TEST_FAILED" \notin dtcs'[e].status
  <2>1. /\ eHot => "TEST_FAILED" \in once[e].status
        /\ eCool /\ ~eHot => "TEST_FAILED" \notin once[e].status
    BY <1>7, <1>11
  <2>. QED BY <1>2, <1>15, <2>1
<1>17. /\ bLow => "TEST_FAILED" \in dtcs'[b].status
       /\ bGood => "TEST_FAILED" \notin dtcs'[b].status
  <2>1. /\ bLow => "TEST_FAILED" \in LinkedStore(once, BatteryDtc, bLow, bGood)[b].status
        /\ bGood /\ ~bLow => "TEST_FAILED" \notin LinkedStore(once, BatteryDtc, bLow, bGood)[b].status
    BY <1>2, <1>5, <1>12, LinkWrites
  <2>. QED BY <1>2, <1>6, <2>1
<1>18. dtcs' \in Seq(Dtc)
  BY <1>8 DEF GoodStore
<1>19. /\ Failing(EngineDtc)' <=> "TEST_FAILED" \in dtcs'[e].status
       /\ Failing(BatteryDtc)' <=> "TEST_FAILED" \in dtcs'[b].status
  <2>1. \A i \in DOMAIN dtcs' : IsFirst(dtcs', i, EngineDtc) => i = e
    BY <1>13, <1>18, FirstIsUnique
  <2>2. \A i \in DOMAIN dtcs' : IsFirst(dtcs', i, BatteryDtc) => i = b
    BY <1>13, <1>18, FirstIsUnique
  <2>. QED BY <1>13, <2>1, <2>2 DEF Failing
<1>. QED BY <1>16, <1>17, <1>19 DEF eHot, eCool, bLow, bGood

(* After every simulator step the two linked DTCs agree with the sensors   *)
(* that are outside the band between their thresholds.                     *)
THEOREM AlwaysLinked == Spec => LinksFollowSensors
<1> DEFINE Linking == Step => /\ engine' > EngineHot => Failing(EngineDtc)'
                              /\ engine' < EngineCool => ~Failing(EngineDtc)'
                              /\ battery' < BatteryLow => Failing(BatteryDtc)'
                              /\ battery' > BatteryGood => ~Failing(BatteryDtc)'
<1>1. ASSUME Inv PROVE [Linking]_vars
  BY <1>1, StepLinks, LinkAssumption, RegisteredAssumption, SensorAssumption
<1>2. Inv /\ [Next]_vars => [Linking]_vars
  BY <1>1
<1>. QED BY <1>2, Invariant, PTL DEF Spec, LinksFollowSensors

-----------------------------------------------------------------------------
(* The two reports of service 0x19.                                        *)

(* The recursive definition of the loop defines a function: each response  *)
(* is the one before, with the DTC looked at if it matches.                *)
LEMMA ListedLoop ==
    ASSUME NEW store, store \in Seq(Dtc), NEW mask
    PROVE  /\ Listed(store, mask)[0] = <<>>
           /\ \A n \in 1 .. Len(store) :
                 Listed(store, mask)[n] =
                     IF matchesStatusMask(store[n], mask)
                     THEN Append(Listed(store, mask)[n - 1], store[n])
                     ELSE Listed(store, mask)[n - 1]
<1> DEFINE Body(f, n) == IF n = 0 THEN <<>>
                         ELSE IF matchesStatusMask(store[n], mask) THEN Append(f[n - 1], store[n])
                         ELSE f[n - 1]
           Upto == {m \in Nat : m <= Len(store) => \E f : f = [n \in 0 .. m |-> Body(f, n)]}
<1>1. Len(store) \in Nat
  OBVIOUS
<1>2. 0 \in Upto
  <2>1. [n \in 0 .. 0 |-> <<>>] = [n \in 0 .. 0 |-> Body([k \in 0 .. 0 |-> <<>>], n)]
    OBVIOUS
  <2>. QED BY <2>1
<1>3. ASSUME NEW m \in Nat, m \in Upto PROVE m + 1 \in Upto
  <2>1. SUFFICES ASSUME m + 1 <= Len(store) PROVE \E f : f = [n \in 0 .. m + 1 |-> Body(f, n)]
    OBVIOUS
  <2>2. PICK f : f = [n \in 0 .. m |-> Body(f, n)]
    <3>1. m <= Len(store)
      BY <1>1, <2>1
    <3>. QED BY <1>3, <3>1, Zenon
  <2> DEFINE g == [n \in 0 .. m + 1 |-> IF n = m + 1 THEN Body(f, n) ELSE f[n]]
  <2>3. ASSUME NEW n \in 0 .. m + 1 PROVE g[n] = Body(g, n)
    <3>1. CASE n = 0
      <4>1. 0 \in 0 .. m /\ 0 # m + 1
        OBVIOUS
      <4>2. f[0] = <<>>
        BY <2>2, <4>1
      <4>. QED BY <3>1, <4>1, <4>2
    <3>2. CASE n # 0
      <4>1. n - 1 \in 0 .. m + 1 /\ n - 1 # m + 1
        BY <3>2
      <4>2. g[n - 1] = f[n - 1]
        BY <4>1
      <4>3. g[n] = Body(f, n)
        <5>1. CASE n = m + 1
          BY <5>1
        <5>2. CASE n # m + 1
          <6>1. n \in 0 .. m
            BY <5>2
          <6>. QED BY <2>2, <5>2, <6>1
        <5>. QED BY <5>1, <5>2
      <4>. QED BY <3>2, <4>2, <4>3
    <3>. QED BY <3>1, <3>2
  <2>4. g = [n \in 0 .. m + 1 |-> g[n]]
    OBVIOUS
  <2> HIDE DEF g
  <2>5. g = [n \in 0 .. m + 1 |-> Body(g, n)]
    BY <2>3, <2>4
  <2>. QED BY <2>5
<1>4. Len(store) \in Upto
  <2> HIDE DEF Upto
  <2>. QED BY <1>1, <1>2, <1>3, Induction
<1>5. \E f : f = [n \in 0 .. Len(store) |-> Body(f, n)]
  BY <1>1, <1>4
<1>6. Listed(store, mask) = CHOOSE f : f = [n \in 0 .. Len(store) |-> Body(f, n)]
  BY DEF Listed
<1> HIDE DEF Upto
<1>7. Listed(store, mask) = [n \in 0 .. Len(store) |-> Body(Listed(store, mask), n)]
  BY <1>5, <1>6, Zenon
<1>8. \A n \in 0 .. Len(store) : Listed(store, mask)[n] = Body(Listed(store, mask), n)
  BY <1>7, Zenon
<1>. QED BY <1>1, <1>8

(* list holds the matching ones of the first n DTCs, in their order: place *)
(* says where each entry comes from.                                       *)
Lists(list, store, mask, n) ==
    \E place \in [1 .. Len(list) -> 1 .. n] :
        /\ \A k \in 1 .. Len(list) : /\ list[k] = store[place[k]]
                                     /\ matchesStatusMask(store[place[k]], mask)
        /\ \A k, l \in 1 .. Len(list) : k < l => place[k] < place[l]
        /\ \A i \in 1 .. n : matchesStatusMask(store[i], mask) => \E k \in 1 .. Len(list) : place[k] = i

(* One more DTC.                                                           *)
LEMMA ListsNext ==
    ASSUME NEW store, store \in Seq(Dtc), NEW mask, NEW n \in Nat, n + 1 <= Len(store),
           NEW list, list \in Seq(Dtc), Lists(list, store, mask, n)
    PROVE  /\ matchesStatusMask(store[n + 1], mask) =>
                 /\ Append(list, store[n + 1]) \in Seq(Dtc)
                 /\ Lists(Append(list, store[n + 1]), store, mask, n + 1)
           /\ ~matchesStatusMask(store[n + 1], mask) => Lists(list, store, mask, n + 1)
<1> DEFINE Matches(i) == matchesStatusMask(store[i], mask)
<1>1. PICK place \in [1 .. Len(list) -> 1 .. n] :
          /\ \A k \in 1 .. Len(list) : list[k] = store[place[k]] /\ Matches(place[k])
          /\ \A k, l \in 1 .. Len(list) : k < l => place[k] < place[l]
          /\ \A i \in 1 .. n : Matches(i) => \E k \in 1 .. Len(list) : place[k] = i
  BY DEF Lists
<1>2. Len(list) \in Nat /\ store[n + 1] \in Dtc
  OBVIOUS
<1> HIDE DEF Matches
<1>3. CASE Matches(n + 1)
  <2> DEFINE longer == Append(list, store[n + 1])
             after == [k \in 1 .. Len(list) + 1 |-> IF k = Len(list) + 1 THEN n + 1 ELSE place[k]]
  <2>1. /\ longer \in Seq(Dtc) /\ Len(longer) = Len(list) + 1
        /\ \A k \in 1 .. Len(list) : longer[k] = list[k]
        /\ longer[Len(list) + 1] = store[n + 1]
    BY <1>2
  <2>2. /\ after[Len(list) + 1] = n + 1
        /\ \A k \in 1 .. Len(list) : after[k] = place[k] /\ place[k] \in 1 .. n
        /\ \A k \in 1 .. Len(list) + 1 : k # Len(list) + 1 => k \in 1 .. Len(list)
    <3>1. \A k \in 1 .. Len(list) : k \in 1 .. Len(list) + 1 /\ k # Len(list) + 1
      BY <1>2
    <3>2. \A k \in 1 .. Len(list) : place[k] \in 1 .. n
      BY <1>1
    <3>3. Len(list) + 1 \in 1 .. Len(list) + 1
      BY <1>2
    <3>. QED BY <1>2, <3>1, <3>2, <3>3
  <2>3. after \in [1 .. Len(list) + 1 -> 1 .. n + 1]
    BY <1>2
  <2> HIDE DEF longer, after
  <2>4. \A k \in 1 .. Len(longer) : longer[k] = store[after[k]] /\ Matches(after[k])
    BY <1>1, <1>3, <2>1, <2>2
  <2>5. \A k, l \in 1 .. Len(longer) : k < l => after[k] < after[l]
    <3>1. SUFFICES ASSUME NEW k \in 1 .. Len(list) + 1, NEW l \in 1 .. Len(list) + 1, k < l
                   PROVE  after[k] < after[l]
      BY <2>1
    <3>2. k \in 1 .. Len(list) /\ after[k] = place[k] /\ place[k] \in 1 .. n
      <4>1. k # Len(list) + 1
        BY <1>2, <3>1
      <4>. QED BY <2>2, <4>1
    <3>3. CASE l = Len(list) + 1
      BY <2>2, <3>2, <3>3
    <3>4. CASE l # Len(list) + 1
      <4>1. l \in 1 .. Len(list) /\ after[l] = place[l]
        BY <2>2, <3>4
      <4>. QED BY <1>1, <3>1, <3>2, <4>1
    <3>. QED BY <3>3, <3>4
  <2>6. \A i \in 1 .. n + 1 : Matches(i) => \E k \in 1 .. Len(longer) : after[k] = i
    <3>1. SUFFICES ASSUME NEW i \in 1 .. n + 1, Matches(i)
                   PROVE  \E k \in 1 .. Len(longer) : after[k] = i
      OBVIOUS
    <3>2. CASE i = n + 1
      BY <1>2, <2>1, <2>2, <3>2
    <3>3. CASE i # n + 1
      <4>1. i \in 1 .. n
        BY <3>3
      <4>2. PICK k \in 1 .. Len(list) : place[k] = i
        BY <1>1, <3>1, <4>1
      <4>3. k \in 1 .. Len(longer)
        BY <1>2, <2>1
      <4>. QED BY <2>2, <4>2, <4>3
    <3>. QED BY <3>2, <3>3
  <2>7. Lists(longer, store, mask, n + 1)
    <3>1. after \in [1 .. Len(longer) -> 1 .. n + 1]
      BY <2>1, <2>3
    <3>. QED BY <2>4, <2>5, <2>6, <3>1 DEF Lists, Matches
  <2>. QED BY <1>3, <2>1, <2>7 DEF longer, Matches
<1>4. CASE ~Matches(n + 1)
  <2>1. place \in [1 .. Len(list) -> 1 .. n + 1]
    BY <1>1
  <2>2. \A i \in 1 .. n + 1 : Matches(i) => i \in 1 .. n
    BY <1>4
  <2>3. \A i \in 1 .. n + 1 : Matches(i) => \E k \in 1 .. Len(list) : place[k] = i
    BY <1>1, <2>2
  <2>4. Lists(list, store, mask, n + 1)
    BY <1>1, <2>1, <2>3 DEF Lists, Matches
  <2>. QED BY <1>4, <2>4 DEF Matches
<1>. QED BY <1>3, <1>4

(* 0x19 02 reports the DTCs that match the mask, each of them once and in  *)
(* the order of the store, for any store and any mask.                     *)
THEOREM ListIsExact ==
    ASSUME NEW store, store \in Seq(Dtc), NEW mask
    PROVE  LET list == Listed(store, mask)[Len(store)]
           IN  list \in Seq(Dtc) /\ Lists(list, store, mask, Len(store))
<1> DEFINE list(n) == Listed(store, mask)[n]
           Good == {n \in Nat : n <= Len(store) => list(n) \in Seq(Dtc) /\ Lists(list(n), store, mask, n)}
<1>1. Len(store) \in Nat
  OBVIOUS
<1>2. 0 \in Good
  <2>1. list(0) = <<>>
    BY ListedLoop
  <2>2. <<>> \in Seq(Dtc) /\ Len(<<>>) = 0
    OBVIOUS
  <2>3. <<>> \in [1 .. 0 -> 1 .. 0] /\ 1 .. 0 = {}
    BY SMT
  <2>4. Lists(<<>>, store, mask, 0)
    BY <2>2, <2>3 DEF Lists
  <2>. QED BY <2>1, <2>2, <2>4
<1>3. ASSUME NEW n \in Nat, n \in Good PROVE n + 1 \in Good
  <2>1. SUFFICES ASSUME n + 1 <= Len(store)
                 PROVE  list(n + 1) \in Seq(Dtc) /\ Lists(list(n + 1), store, mask, n + 1)
    OBVIOUS
  <2>2. n <= Len(store) /\ n + 1 \in 1 .. Len(store) /\ (n + 1) - 1 = n
    BY <1>1, <2>1
  <2>3. list(n) \in Seq(Dtc) /\ Lists(list(n), store, mask, n)
    BY <1>3, <2>2
  <2>4. list(n + 1) = IF matchesStatusMask(store[n + 1], mask) THEN Append(list(n), store[n + 1])
                      ELSE list(n)
    BY <2>2, ListedLoop
  <2> HIDE DEF list
  <2>. QED BY <2>1, <2>3, <2>4, ListsNext
<1>4. Len(store) \in Good
  <2> HIDE DEF Good
  <2>. QED BY <1>1, <1>2, <1>3, Induction
<1>. QED BY <1>1, <1>4

(* The numbers up to n are n.                                              *)
LEMMA FirstNumbers ==
    ASSUME NEW n \in Nat
    PROVE  IsFiniteSet(1 .. n) /\ Cardinality(1 .. n) = n
  BY FS_Interval

(* 0x19 01 reports the length of that list, for any store and any mask.    *)
THEOREM CountIsLength ==
    ASSUME NEW store, store \in Seq(Dtc), NEW mask
    PROVE  reportNumberOfDtcByStatusMask(store, mask) = Len(reportDtcByStatusMask(store, mask))
<1> DEFINE available == mask \cap StatusAvailabilityMask
           list == Listed(store, available)[Len(store)]
           matching == {i \in DOMAIN store : matchesStatusMask(store[i], available)}
<1>1. list \in Seq(Dtc) /\ Lists(list, store, available, Len(store))
  BY ListIsExact
<1> HIDE DEF list
<1>2. PICK place \in [1 .. Len(list) -> 1 .. Len(store)] :
          /\ \A k \in 1 .. Len(list) : matchesStatusMask(store[place[k]], available)
          /\ \A k, l \in 1 .. Len(list) : k < l => place[k] < place[l]
          /\ \A i \in 1 .. Len(store) :
                matchesStatusMask(store[i], available) => \E k \in 1 .. Len(list) : place[k] = i
  BY <1>1 DEF Lists
<1>3. Len(list) \in Nat /\ Len(store) \in Nat /\ DOMAIN store = 1 .. Len(store)
  BY <1>1
<1>4. place \in Bijection(1 .. Len(list), matching)
  <2>1. place \in [1 .. Len(list) -> matching]
    BY <1>2, <1>3
  <2>2. \A k, l \in 1 .. Len(list) : k # l => place[k] # place[l]
    <3>1. \A k \in 1 .. Len(list) : place[k] \in Int
      BY <1>2, <1>3
    <3>. QED BY <1>2, <1>3, <3>1
  <2>3. \A i \in matching : \E k \in 1 .. Len(list) : place[k] = i
    BY <1>2, <1>3
  <2> HIDE DEF matching
  <2>. QED BY <2>1, <2>2, <2>3 DEF Bijection, Injection, IsInjective, Surjection
<1>5. Cardinality(1 .. Len(list)) = Cardinality(matching)
  <2>1. IsFiniteSet(1 .. Len(list)) /\ Cardinality(1 .. Len(list)) = Len(list)
    BY <1>3, FirstNumbers
  <2> HIDE DEF matching
  <2>. QED BY <1>4, <2>1, FS_Bijection DEF ExistsBijection
<1>6. Cardinality(1 .. Len(list)) = Len(list)
  BY <1>3, FirstNumbers
<1>. QED BY <1>5, <1>6 DEF reportNumberOfDtcByStatusMask, countByStatusMask, reportDtcByStatusMask, list

(* The two reports agree in every state the fault memory can be in.        *)
THEOREM CountsAgree == Spec => []CountMatchesList
<1>1. Inv => CountMatchesList
  <2>1. Inv => dtcs \in Seq(Dtc)
    BY DEF Inv, TypeOK
  <2>. QED BY <2>1, CountIsLength DEF CountMatchesList
<1>. QED BY <1>1, Invariant, PTL
=============================================================================
