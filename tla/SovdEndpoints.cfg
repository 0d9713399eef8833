CONSTANTS
    Registered <- TwoDtcs
    EngineDtc = "engine"
    BatteryDtc = "battery"
    MAX_DTCS = 2
    EngineMin = 1
    EngineMax = 1
    EngineStart = 1
    EngineCool = 0
    EngineHot = 0
    BatteryMin = 1
    BatteryMax = 1
    BatteryStart = 1
    BatteryLow = 1
    BatteryGood = 1
    SpeedMin = 1
    SpeedMax = 1
    SpeedStart = 1
    Requests = {r1, r2}
    Polls = {"p1"}
    Operations <- AskedOperations
    MaxMoves = 2
SPECIFICATION SovdSpec
SYMMETRY RequestSymmetry
CHECK_DEADLOCK FALSE
INVARIANTS
    SovdTypeOK
    ReadsFollowClears
PROPERTIES
    ImplementsService
