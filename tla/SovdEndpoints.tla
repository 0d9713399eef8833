--------------------------- MODULE SovdEndpoints ---------------------------
(***************************************************************************)
(* The SOVD endpoints of the stub CDA, sovd-cda/main.py, and its poller as *)
(* far as the faults go, composed with the fault memory of the ECU.        *)
(*                                                                         *)
(* Each HTTP request runs in a thread of its own: it opens a connection,   *)
(* sends one UDS request, takes the first response and closes the          *)
(* connection.  The ECU executes the request at some time, perhaps after a *)
(* "response pending", perhaps when the client has given up, perhaps       *)
(* never.  A poll does the same for its fault list; one poll runs at a     *)
(* time, and each request and each poll is a caller that acts once.        *)
(*                                                                         *)
(* External are the DoIP client and the network: connecting, sending and   *)
(* receiving may fail at any time.  Abstracted: the status byte and the    *)
(* DTC number (see DtcMemory), the texts of the catalog, numbers with more *)
(* than three bytes.                                                       *)
(***************************************************************************)
EXTENDS DiagnosticServices

CONSTANTS
    Requests,       \* HTTP requests
    Polls,          \* polls of the background poller
    Operations,     \* what a request may ask of the ECU
    MaxMoves        \* bound of the model: steps of the simulator

Callers == Requests \cup Polls

(* The fault request of a poll: 0x19 02 FF. *)
PollFaults == ReadFaults(StatusBit)

ASSUME CallerAssumption ==
    /\ Requests \cap Polls = {} /\ "none" \notin Polls
    /\ PollFaults \in Operations /\ MaxMoves \in Nat

(* A simulated value is a positive int32_t: its first byte has no sign bit. *)
ASSUME WidthAssumption == \A max \in {EngineMax, BatteryMax, SpeedMax} : max \div 2^24 < 128

VARIABLES
    request,    \* progress of each caller and the answer it got
    ecu,        \* where the UDS request of each caller is in the ECU
    inbox,      \* responses on each open connection that have not been read
    latest,     \* the poll whose snapshot is fault_history[-1], or "none"
    clears,     \* number of clears the ECU has executed (history variable)
    confirmed,  \* how many of them a client knows of (history variable)
    moves       \* number of steps of the simulator

client == <<request, latest, confirmed>>
link == <<ecu, inbox, clears>>
sovdVars == <<vars, client, link, moves>>

AnswerWith(code, faults, counter, reading, asOf) ==
    [code |-> code, faults |-> faults, counter |-> counter, reading |-> reading, asOf |-> asOf]

NoAnswer == AnswerWith(0, <<>>, <<>>, <<>>, 0)

Nothing == [at |-> "new", op |-> ReadFaults({}), answer |-> NoAnswer, since |-> 0]

SovdInit ==
    /\ Init
    /\ request = [c \in Callers |-> Nothing]
    /\ ecu = [c \in Callers |-> "none"]
    /\ inbox = [c \in Callers |-> <<>>]
    /\ latest = "none"
    /\ clears = 0 /\ confirmed = 0
    /\ moves = 0

-----------------------------------------------------------------------------
(* The ECU's side of a connection.                                         *)

(* Four bytes, big-endian. *)
Encoded(value) == <<value \div 2^24, (value \div 2^16) % 2^8, (value \div 2^8) % 2^8, value % 2^8>>

NegativeResponse == [kind |-> "negative", faults |-> <<>>, extended |-> <<>>, data |-> <<>>, asOf |-> 0]

(* 0x19 06 carries the record number and the occurrence counter. *)
ExtendedData(op) ==
    IF op.service # "detail" THEN <<>>
    ELSE <<255, IF "TEST_FAILED" \in Reported(op)[1].status THEN 1 ELSE 0>>

PositiveResponse(op, executed) ==
    [kind |-> "positive", faults |-> Reported(op), extended |-> ExtendedData(op), asOf |-> executed,
     data |-> IF op.service = "data" THEN Encoded(Read(op)[1]) ELSE <<>>]

(* A response reaches the client as long as the connection is open. *)
Respond(c, response) ==
    inbox' = [inbox EXCEPT ![c] = IF request[c].at = "waiting" THEN Append(@, response) ELSE @]

InEcu(c) == ecu[c] \in {"queued", "pending"}

EcuExecutes(c) ==
    /\ InEcu(c)
    /\ Accepts(request[c].op) /\ Performs(request[c].op)
    /\ clears' = IF IsClear(request[c].op) THEN clears + 1 ELSE clears
    /\ ecu' = [ecu EXCEPT ![c] = "executed"]
    /\ Respond(c, PositiveResponse(request[c].op, clears'))
    /\ UNCHANGED <<client, moves>>

(* 0x7F <service> 78: the execution takes longer. *)
EcuPends(c) ==
    /\ ecu[c] = "queued"
    /\ ecu' = [ecu EXCEPT ![c] = "pending"]
    /\ Respond(c, NegativeResponse)
    /\ UNCHANGED <<vars, client, clears, moves>>

(* A negative response: the request is out of range, or the ECU is busy.   *)
EcuRefuses(c) ==
    /\ InEcu(c)
    /\ ecu' = [ecu EXCEPT ![c] = "dropped"]
    /\ Respond(c, NegativeResponse)
    /\ UNCHANGED <<vars, client, clears, moves>>

(* The request never reaches the ECU's diagnosis. *)
EcuLoses(c) ==
    /\ InEcu(c)
    /\ ecu' = [ecu EXCEPT ![c] = "dropped"]
    /\ UNCHANGED <<vars, client, inbox, clears, moves>>

EcuMoves ==
    /\ moves < MaxMoves /\ moves' = moves + 1
    /\ Step
    /\ UNCHANGED <<client, link>>

-----------------------------------------------------------------------------
(* What an endpoint makes of a response.                                   *)

Error(code) == AnswerWith(code, <<>>, <<>>, <<>>, 0)

(* The value of a data identifier with format int32, if it is long enough. *)
Decoded(bytes) ==
    IF Len(bytes) < 4 THEN <<>>
    ELSE <<(IF bytes[1] < 128 THEN bytes[1] ELSE bytes[1] - 256) * 2^24
             + bytes[2] * 2^16 + bytes[3] * 2^8 + bytes[4]>>

read_faults(response) == AnswerWith(200, response.faults, <<>>, <<>>, response.asOf)

(* Mutant: occurrence_counter is resp[6:]. *)
CounterSlice(extended) == extended

(* occurrence_counter is resp[6], the first byte after the status. *)
Counter(extended) == IF extended = <<>> THEN <<>> ELSE <<extended[1]>>

read_fault_detail(response) ==
    AnswerWith(200, response.faults, Counter(response.extended), <<>>, response.asOf)

clear_faults(response) == AnswerWith(200, <<>>, <<>>, <<>>, response.asOf)

read_data(response) == AnswerWith(200, <<>>, <<>>, Decoded(response.data), response.asOf)

Endpoint(op, response) ==
    CASE op.service = "faults" -> read_faults(response)
      [] op.service = "detail" -> read_fault_detail(response)
      [] op.service = "clear" -> clear_faults(response)
      [] op.service = "data" -> read_data(response)

(* Whatever is raised inside _doip_connection() becomes 502. *)
Raised(code) == 502

(* Mutant: a negative response is not recognised. *)
AnswerUnchecked(op, response) == Endpoint(op, response)

(* _send_uds() tells a negative response by its first byte. *)
AnswerTo(op, response) ==
    IF response.kind = "negative" THEN Error(Raised(422)) ELSE Endpoint(op, response)

-----------------------------------------------------------------------------
(* A request in the adapter.                                               *)

Start(c, op, at, answer) ==
    /\ request[c].at = "new"
    /\ request' = [request EXCEPT ![c] =
                      [at |-> at, op |-> op, answer |-> answer, since |-> confirmed]]
    /\ UNCHANGED <<vars, latest, confirmed, link, moves>>

(* 404 for an unknown component, 400 for a number that cannot be parsed;   *)
(* both end the request before a connection is opened, and no property     *)
(* tells them apart.                                                       *)
Reject(r, op) == Start(r, op, "answered", Error(404))

Receive(r, op) == Start(r, op, "connecting", NoAnswer)

(* A poll that starts when the one before has ended. *)
StartPoll(p) ==
    /\ \A other \in Polls : request[other].at \in {"new", "answered"}
    /\ Start(p, PollFaults, "connecting", NoAnswer)

(* The connection is closed, with what has not been read from it. *)
Finish(c, answer) ==
    /\ request' = [request EXCEPT ![c] =
                      [at |-> "answered", op |-> @.op, answer |-> answer, since |-> @.since]]
    /\ inbox' = [inbox EXCEPT ![c] = <<>>]

ConnectFails(c) ==
    /\ request[c].at = "connecting"
    /\ Finish(c, Error(Raised(502)))
    /\ UNCHANGED <<vars, latest, confirmed, ecu, clears, moves>>

SendUds(c) ==
    /\ request[c].at = "connecting"
    /\ request' = [request EXCEPT ![c].at = "waiting"]
    /\ ecu' = [ecu EXCEPT ![c] = "queued"]
    /\ UNCHANGED <<vars, latest, confirmed, inbox, clears, moves>>

(* A poll appends its snapshot to the history. *)
ReceiveUds(c) ==
    /\ request[c].at = "waiting" /\ inbox[c] # <<>>
    /\ LET answer == AnswerTo(request[c].op, Head(inbox[c]))
       IN  /\ Finish(c, answer)
           /\ latest' = IF c \in Polls /\ answer.code = 200 THEN c ELSE latest
           /\ confirmed' = IF IsClear(request[c].op) /\ answer.asOf > confirmed
                           THEN answer.asOf ELSE confirmed
    /\ UNCHANGED <<vars, ecu, clears, moves>>

(* The DoIP client gives up when a time has passed, or loses the connection. *)
GiveUp(c) ==
    /\ request[c].at = "waiting"
    /\ \E code \in {502, 504} : Finish(c, Error(Raised(code)))
    /\ UNCHANGED <<vars, latest, confirmed, ecu, clears, moves>>

(* The endpoints that describe the catalog ask nobody. *)
DescribeCatalog(r) == Start(r, [service |-> "catalog"], "answered", AnswerWith(200, <<>>, <<>>, <<>>, 0))

(* Mutant: the snapshot is stamped with the time of the request. *)
StampedNow(snapshot) == confirmed

(* A snapshot has the time stamp of the beginning of its poll. *)
Stamped(snapshot) == snapshot.since

(* faults_current() and faults_active_count() report the newest snapshot.  *)
CurrentFaults(r) ==
    /\ request[r].at = "new"
    /\ LET snapshot == IF latest = "none" THEN Nothing ELSE request[latest]
       IN  request' = [request EXCEPT ![r] =
               [at |-> "answered", op |-> [service |-> "current"], since |-> Stamped(snapshot),
                answer |-> [snapshot.answer EXCEPT !.code = 200]]]
    /\ UNCHANGED <<vars, latest, confirmed, link, moves>>

-----------------------------------------------------------------------------
Proceed(c) == ConnectFails(c) \/ SendUds(c) \/ ReceiveUds(c) \/ GiveUp(c)

EcuServes(c) == EcuExecutes(c) \/ EcuPends(c) \/ EcuRefuses(c) \/ EcuLoses(c)

SovdNext ==
    \/ EcuMoves
    \/ \E r \in Requests : \E op \in Operations : Reject(r, op) \/ Receive(r, op)
    \/ \E r \in Requests : DescribeCatalog(r) \/ CurrentFaults(r)
    \/ \E p \in Polls : StartPoll(p)
    \/ \E c \in Callers : Proceed(c) \/ EcuServes(c)

SovdSpec == SovdInit /\ [][SovdNext]_sovdVars

-----------------------------------------------------------------------------
(* Properties.                                                             *)

SensorValues == (EngineMin .. EngineMax) \cup (BatteryMin .. BatteryMax) \cup (SpeedMin .. SpeedMax)

Codes == {0, 200, 404, 422, 502, 504}

SovdTypeOK ==
    /\ \A c \in Callers :
          /\ request[c].at \in {"new", "connecting", "waiting", "answered"}
          /\ request[c].answer.code \in Codes
          /\ request[c].answer.code # 0 <=> request[c].at = "answered"
          /\ request[c].answer.counter \in {<<>>} \cup {<<byte>> : byte \in 0 .. 255}
          /\ request[c].answer.reading \in {<<>>} \cup {<<value>> : value \in SensorValues}
          /\ ecu[c] \in {"none", "queued", "pending", "dropped", "executed"}
    /\ latest \in Polls \cup {"none"}
    /\ clears \in Nat /\ confirmed \in 0 .. clears /\ moves \in 0 .. MaxMoves

(* Who starts after a clear was confirmed sees its effect: whatever a      *)
(* request reads, and whatever a snapshot shows whose time stamp is later  *)
(* than the confirmation, was reported by the ECU after that clear, in     *)
(* spite of answers of other requests that are still under way.            *)
ReadsFollowClears ==
    \A c \in Callers :
        request[c].answer.code = 200 /\ request[c].op.service # "catalog"
            => request[c].since <= request[c].answer.asOf

(* The call of FaultService a caller has made. *)
Outcome(c) ==
    LET code == request[c].answer.code
        acted == ecu[c] = "executed"
    IN  IF request[c].at # "answered" THEN IF acted THEN "acted" ELSE "called"
        ELSE IF code = 200 THEN "answered"
        ELSE IF code \in 400 .. 499 THEN "refused"
        ELSE IF acted THEN "over" ELSE "unknown"

(* While a response is under way: what the caller would be told. *)
Told(c) ==
    IF request[c].at = "answered" THEN request[c].answer
    ELSE IF ecu[c] = "executed" THEN Endpoint(request[c].op, inbox[c][Len(inbox[c])])
    ELSE NoAnswer

AsksEcu(c) == request[c].at # "new" /\ request[c].op.service \notin {"catalog", "current"}

CallOf(c) ==
    IF ~AsksEcu(c)
    THEN [state |-> "idle", op |-> ReadFaults({}), faults |-> <<>>, reading |-> <<>>]
    ELSE [state |-> Outcome(c), op |-> request[c].op,
          faults |-> Told(c).faults, reading |-> Told(c).reading]

Service == INSTANCE FaultService WITH call <- [c \in Callers |-> CallOf(c)]

(* The endpoints keep the promise of FaultService: connections, pending    *)
(* and late responses, timeouts and status codes are not visible to a      *)
(* client except as "I do not know".                                       *)
ImplementsService == Service!ServiceSpec
=============================================================================
