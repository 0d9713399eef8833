-------------------------- MODULE MCSovdEndpoints --------------------------
(* A TLC instance of SovdEndpoints: two requests and one poll beside the   *)
(* simulator.  The engine is always too hot, so each simulator step brings *)
(* its fault (back); the second DTC only shows which DTCs a clear reaches. *)
EXTENDS SovdEndpoints, TLC

TwoDtcs == <<"engine", "battery">>

AskedOperations ==
    {PollFaults, ReadDetail("engine"), ClearFaults(AllDtcs),
     ClearFaults("engine"), ReadData("EngineTemp")}

RequestSymmetry == Permutations(Requests)
=============================================================================
