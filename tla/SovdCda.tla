------------------------------ MODULE SovdCda ------------------------------
(***************************************************************************)
(* The stub diagnostic adapter, sovd-cda/main.py: the background poller,   *)
(* which reads sensors and faults from the ECU once a second, the history  *)
(* it keeps, and the endpoints for Grafana, which run in other threads and *)
(* read the history while the poller writes it.                            *)
(*                                                                         *)
(* The grain is the access to a shared object: what a thread does between  *)
(* two accesses to the histories is private.  External are the connection  *)
(* (doipclient: answers arrive in order, perhaps after the request has     *)
(* timed out) and the ECU (an answer may be missing, negative, or come     *)
(* after a "response pending"), and the collections of Python, which raise *)
(* an error when they are changed during an iteration.                     *)
(*                                                                         *)
(* Abstracted: a value is known by the request it answers; a time stamp is *)
(* the number of the poll (the clock is taken not to go back).             *)
(***************************************************************************)
EXTENDS Naturals, Sequences, FiniteSets

CONSTANTS
    POLL_DIDS,      \* the data identifiers to poll, in order
    MAX_HISTORY,    \* capacity of each history
    Requests,       \* concurrent requests to the Grafana endpoints
    MaxPolls,       \* bound of the model: number of polls
    MaxLate         \* bound of the model: answers waiting in a connection

ASSUME PollAssumption ==
    /\ POLL_DIDS \in Seq(STRING) /\ Len(POLL_DIDS) > 0
    /\ \A i, j \in 1 .. Len(POLL_DIDS) : POLL_DIDS[i] = POLL_DIDS[j] => i = j
    /\ \A i \in 1 .. Len(POLL_DIDS) : POLL_DIDS[i] # "faults"
    /\ MAX_HISTORY \in Nat \ {0} /\ MaxPolls \in Nat /\ MaxLate \in Nat

VARIABLES
    ts,                 \* ts of the current or the last poll
    step,               \* what the poller does next
    pos,                \* position in POLL_DIDS
    inbox,              \* answers of the ECU the poller has not received
    value,              \* the value to append, when its deque is new
    sensor_history,     \* DID -> deque of readings
    fault_history,      \* deque of fault snapshots
    request             \* progress of each request to an endpoint

poller == <<ts, step, pos, inbox, value>>
vars == <<poller, sensor_history, fault_history, request>>

Dids == {POLL_DIDS[i] : i \in 1 .. Len(POLL_DIDS)}

Reading == [time : 1 .. MaxPolls, of : Dids \cup {"faults"}, asked : 1 .. MaxPolls]

Deque == UNION {[1 .. n -> Reading] : n \in 0 .. MAX_HISTORY}

NoValue == [of |-> "none", asked |-> 0]

Steps == {"sleeping", "poll", "record", "faults"}

Iteration(at, did, started, read) == [at |-> at, did |-> did, started |-> started, read |-> read]

(* A request that is not in an iteration. *)
Ended(how, did) == Iteration(how, did, {}, 0)

(* Mutant: a deque without a capacity. *)
AppendedUnbounded(history, reading) == Append(history, reading)

(* Mutant: appendleft(), which drops the newest reading. *)
AppendedLeft(history, reading) ==
    IF Len(history) < MAX_HISTORY THEN <<reading>> \o history
    ELSE <<reading>> \o SubSeq(history, 1, MAX_HISTORY - 1)

(* append() of a deque(maxlen=MAX_HISTORY), which drops the oldest. *)
Appended(history, reading) ==
    IF Len(history) < MAX_HISTORY THEN Append(history, reading)
    ELSE Append(Tail(history), reading)

Init ==
    /\ ts = 0
    /\ step = "sleeping"
    /\ pos = 1
    /\ inbox = <<>>
    /\ value = NoValue
    /\ sensor_history = [did \in {} |-> <<>>]
    /\ fault_history = <<>>
    /\ request = [r \in Requests |-> Ended("idle", "none")]

-----------------------------------------------------------------------------
(* The poller.                                                             *)

(* Mutant: one connection is kept for all polls. *)
NewInboxKept == inbox

(* A new client reads from a new connection. *)
NewInbox == <<>>

(* The ECU cannot be reached, or refuses the tester: the poll is over.     *)
ConnectFails ==
    /\ step = "sleeping" /\ ts < MaxPolls
    /\ ts' = ts + 1
    /\ UNCHANGED <<step, pos, inbox, value, sensor_history, fault_history, request>>

Connect ==
    /\ step = "sleeping" /\ ts < MaxPolls
    /\ ts' = ts + 1
    /\ step' = "poll"
    /\ pos' = 1
    /\ inbox' = NewInbox
    /\ UNCHANGED <<value, sensor_history, fault_history, request>>

(* What the ECU may answer to one request: nothing, a positive or a        *)
(* negative response, or the positive one after a "response pending",      *)
(* which has the form of a negative response.                              *)
Answers(to) ==
    LET answer(ok) == [of |-> to, asked |-> ts, positive |-> ok]
    IN  {<<>>, <<answer(TRUE)>>, <<answer(FALSE)>>, <<answer(FALSE), answer(TRUE)>>}

(* What has come in when the answers to a request are there: the client    *)
(* drops what arrives before the request is acknowledged, so answers that  *)
(* are already late are lost or come first.                                *)
Incoming(to) == {late \o answers : late \in {inbox, <<>>}, answers \in Answers(to)}

(* Waiting for an answer ends with an error or a timeout, or with the      *)
(* oldest answer that has not been received.                               *)
NothingReceived(to) ==
    inbox' \in {incoming \in Incoming(to) : Len(incoming) <= MaxLate}

Received(to, answer) ==
    \E incoming \in Incoming(to) :
        /\ incoming # <<>> /\ Len(incoming) <= MaxLate + 1
        /\ answer = Head(incoming)
        /\ inbox' = Tail(incoming)

(* Responses that can come in, whichever request they answer. *)
Responses == [of : Dids \cup {"faults"}, asked : {ts}, positive : BOOLEAN]
               \cup {inbox[i] : i \in DOMAIN inbox}

(* The loop over the data identifiers, then the faults. *)
AfterDid ==
    /\ step' = IF pos < Len(POLL_DIDS) THEN "poll" ELSE "faults"
    /\ pos' = IF pos < Len(POLL_DIDS) THEN pos + 1 ELSE pos

(* Mutant: a failing data identifier is polled again and again. *)
AfterFailureRetry == UNCHANGED <<step, pos>>

(* The exception handler inside the loop: go on with the next one. *)
AfterFailure == AfterDid

ReadingOf(answer) == [time |-> ts, of |-> answer.of, asked |-> answer.asked]

(* One data identifier without a usable response. *)
PollDidFails ==
    /\ step = "poll"
    /\ \/ NothingReceived(POLL_DIDS[pos])
       \/ \E answer \in Responses :
            /\ Received(POLL_DIDS[pos], answer)
            /\ ~(answer.positive /\ answer.of \in Dids)
    /\ AfterFailure
    /\ UNCHANGED <<ts, value, sensor_history, fault_history, request>>

(* The dictionary with a new, empty deque. *)
WithNewDeque(new) ==
    [did \in DOMAIN sensor_history \cup {new} |-> IF did = new THEN <<>> ELSE sensor_history[did]]

(* One data identifier with a positive response to service 0x22: append    *)
(* the value, or first create the deque for the identifier.                *)
PollDid ==
    /\ step = "poll"
    /\ \E answer \in Responses :
         /\ answer.positive /\ answer.of \in Dids
         /\ Received(POLL_DIDS[pos], answer)
         /\ \/ /\ POLL_DIDS[pos] \in DOMAIN sensor_history
               /\ sensor_history' =
                     [sensor_history EXCEPT ![POLL_DIDS[pos]] = Appended(@, ReadingOf(answer))]
               /\ AfterDid
               /\ UNCHANGED value
            \/ /\ POLL_DIDS[pos] \notin DOMAIN sensor_history
               /\ sensor_history' = WithNewDeque(POLL_DIDS[pos])
               /\ step' = "record"
               /\ value' = [of |-> answer.of, asked |-> answer.asked]
               /\ UNCHANGED pos
    /\ UNCHANGED <<ts, fault_history, request>>

(* Append to the deque that has just been created. *)
RecordFirst ==
    /\ step = "record"
    /\ sensor_history' = [sensor_history EXCEPT ![POLL_DIDS[pos]] = Appended(@, ReadingOf(value))]
    /\ AfterDid
    /\ value' = NoValue
    /\ UNCHANGED <<ts, inbox, fault_history, request>>

(* resp[0] == 0x59 *)
IsFaultResponse(answer) == answer.positive /\ answer.of = "faults"

(* The faults, the last request of a poll; then the connection is closed.  *)
PollFaults ==
    /\ step = "faults"
    /\ \/ NothingReceived("faults") /\ UNCHANGED fault_history
       \/ \E answer \in Responses :
            /\ Received("faults", answer)
            /\ fault_history' = IF IsFaultResponse(answer)
                                THEN Appended(fault_history, ReadingOf(answer))
                                ELSE fault_history
    /\ step' = "sleeping"
    /\ UNCHANGED <<ts, pos, value, sensor_history, request>>

-----------------------------------------------------------------------------
(* The endpoints.  "started" is the collection an iteration started with,  *)
(* "read" what it has read so far.                                         *)

Free(r) == request[r].at \in {"idle", "answered", "RuntimeError", "IndexError"}

Progress(r, new) ==
    /\ request' = [request EXCEPT ![r] = new]
    /\ UNCHANGED <<poller, sensor_history, fault_history>>

(* sensors_history_endpoint() for a spelling of the identifier that finds  *)
(* its history, and faults_history_endpoint(): iterate over a deque.       *)
StartHistory(r, did) ==
    /\ Free(r)
    /\ did \in DOMAIN sensor_history \cup {"faults"}
    /\ Progress(r, Iteration("history", did,
                             IF did = "faults" THEN fault_history ELSE sensor_history[did], 0))

NextOfHistory(r) ==
    LET history == IF request[r].did = "faults" THEN fault_history
                   ELSE sensor_history[request[r].did]
    IN  /\ request[r].at = "history"
        /\ Progress(r, IF history # request[r].started
                       THEN Ended("RuntimeError", request[r].did)
                       ELSE IF request[r].read = Len(history)
                       THEN Ended("answered", "none")
                       ELSE Iteration("history", request[r].did, history, request[r].read + 1))

(* sensors_current(): iterate over the dictionary, look whether a deque is *)
(* empty, and take its last reading if it is not.                          *)
StartCurrent(r) ==
    /\ Free(r)
    /\ Progress(r, Iteration("current", "none", DOMAIN sensor_history, DOMAIN sensor_history))

(* Mutant: the deque is not checked. *)
HasLatestUnchecked(history) == TRUE

(* if hist *)
HasLatest(history) == history # <<>>

Looked(current, did) ==
    Iteration(IF HasLatest(sensor_history[did]) THEN "latest" ELSE "current", did,
              current.started, current.read \ {did})

NextOfCurrent(r) ==
    /\ request[r].at = "current"
    /\ \/ /\ DOMAIN sensor_history # request[r].started
          /\ Progress(r, Ended("RuntimeError", "none"))
       \/ /\ DOMAIN sensor_history = request[r].started
          /\ request[r].read = {}
          /\ Progress(r, Ended("answered", "none"))
       \/ /\ DOMAIN sensor_history = request[r].started
          /\ \E did \in request[r].read :
               Progress(r, Looked(request[r], did))

(* hist[-1] *)
TakeLatest(r) ==
    /\ request[r].at = "latest"
    /\ Progress(r, IF sensor_history[request[r].did] = <<>> THEN Ended("IndexError", "none")
                   ELSE Iteration("current", "none", request[r].started, request[r].read))

Poll ==
    \/ ConnectFails
    \/ Connect
    \/ PollDidFails
    \/ PollDid
    \/ RecordFirst
    \/ PollFaults

Serve(r) ==
    \/ \E did \in Dids \cup {"faults"} : StartHistory(r, did)
    \/ NextOfHistory(r)
    \/ StartCurrent(r)
    \/ NextOfCurrent(r)
    \/ TakeLatest(r)

Next == Poll \/ \E r \in Requests : Serve(r)

Spec == Init /\ [][Next]_vars

(* The executor thread of a poll runs, and each exchange with the ECU ends *)
(* (the client gives up after its timeout).  No fairness for requests.     *)
FairSpec == Spec /\ WF_vars(Poll)

-----------------------------------------------------------------------------
(* Properties.                                                             *)

TypeOK ==
    /\ ts \in 0 .. MaxPolls
    /\ step \in Steps /\ pos \in 1 .. Len(POLL_DIDS)
    /\ \A i \in DOMAIN inbox :
          inbox[i] \in [of : Dids \cup {"faults"}, asked : 1 .. MaxPolls, positive : BOOLEAN]
    /\ value # NoValue <=> step = "record"
    /\ DOMAIN sensor_history \subseteq Dids
    /\ \A did \in DOMAIN sensor_history : sensor_history[did] \in Deque
    /\ fault_history \in Deque
    /\ \A r \in Requests :
          request[r].at \in {"idle", "history", "current", "latest", "answered",
                              "RuntimeError", "IndexError"}

Histories == {fault_history} \cup {sensor_history[did] : did \in DOMAIN sensor_history}

(* A graph of a history goes forward in time: readings are in the order of *)
(* their polls, at most one for each poll, however the exchanges of the    *)
(* polls failed.                                                           *)
HistoryIsChronological ==
    \A history \in Histories : \A i, j \in DOMAIN history :
        i < j => history[i].time < history[j].time

(* No reading carries the time stamp of a later poll than the one the ECU  *)
(* was asked in, although answers may come after their request timed out.  *)
ReadingsAreFresh ==
    \A history \in Histories : \A i \in DOMAIN history : history[i].asked = history[i].time

(* An answer is only ever taken for a later request of the same poll: the  *)
(* history of a sensor may show the value of one that is polled before it, *)
(* never of one that is polled after it, and the first sensor of POLL_DIDS *)
(* has no values but its own.                                              *)
LateAnswersOnly ==
    \A n \in 1 .. Len(POLL_DIDS) : POLL_DIDS[n] \in DOMAIN sensor_history =>
        \A i \in DOMAIN sensor_history[POLL_DIDS[n]] :
            \E k \in 1 .. n : sensor_history[POLL_DIDS[n]][i].of = POLL_DIDS[k]

(* sensors_current() never takes the last reading of an empty deque: a new *)
(* deque is in the dictionary before its first value, and what was seen    *)
(* not to be empty may be at its capacity and drop readings before it is   *)
(* read.                                                                   *)
NoIndexError == \A r \in Requests : request[r].at # "IndexError"

(* How far a poll has come.                                                *)
Place ==
    CASE step = "poll"     -> 2 * pos
      [] step = "record"   -> 2 * pos + 1
      [] step = "faults"   -> 2 * Len(POLL_DIDS) + 2
      [] step = "sleeping" -> 2 * Len(POLL_DIDS) + 3

(* A poll never asks twice and never goes back, whatever fails in it, and  *)
(* the next one begins when it has ended: the poller takes at most two     *)
(* steps for each data identifier and one for the faults.                  *)
PollAdvances ==
    [][Poll => \/ ts' = ts + 1 /\ step = "sleeping"
               \/ ts' = ts /\ Place < Place']_vars

(* Each poll ends, whatever the ECU does, and the poller goes on: it makes *)
(* all the polls the model allows ("polling the ECU every second").        *)
PollerGoesOn == <>(ts = MaxPolls /\ step = "sleeping")

(* main.py:535: "Return time-series history for a sensor": the readings    *)
(* of a sensor are its own.                                                *)
ReadingsAreTheirOwn ==
    \A did \in DOMAIN sensor_history : \A i \in DOMAIN sensor_history[did] :
        sensor_history[did][i].of = did

(* main.py:568: "Return fault count over time (for Graph panels)": the     *)
(* request is answered, also when the poller is at work.                   *)
FaultHistoryIsReturned ==
    \A r \in Requests : ~(request[r].at = "RuntimeError" /\ request[r].did = "faults")
=============================================================================
