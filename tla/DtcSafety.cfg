CONSTANTS
    Registered <- ThreeDtcs
    EngineDtc = "engine"
    BatteryDtc = "battery"
    MAX_DTCS = 3
    EngineMin = 0
    EngineMax = 4
    EngineStart = 2
    EngineCool = 1
    EngineHot = 3
    BatteryMin = 0
    BatteryMax = 4
    BatteryStart = 4
    BatteryLow = 1
    BatteryGood = 3
    SpeedMin = 0
    SpeedMax = 0
    SpeedStart = 0
SPECIFICATION Spec
INVARIANTS
    TypeOK
    FailureIsRecorded
    CountMatchesList
PROPERTIES
    RecordUntilCleared
    LinksFollowSensors
    BoundedWalk
