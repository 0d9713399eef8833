------------------------ MODULE SovdEndpointsProofs ------------------------
(***************************************************************************)
(* Proofs about the SOVD endpoints, for any number of requests and polls,  *)
(* any operations, any DTC table and any sensor ranges.                    *)
(***************************************************************************)
EXTENDS SovdEndpoints, DtcMemoryProofs, SequenceTheorems

-----------------------------------------------------------------------------
(* The inductive invariant: what a request r can be, with e its UDS        *)
(* request in the ECU and q the responses it has not read, when known      *)
(* clears are confirmed and done are executed.                             *)

UdsServices == {"faults", "detail", "clear", "data"}

SensorReading == {<<>>} \cup {<<value>> : value \in SensorValues}

(* An answer with status code 200 that reports what the ECU said. *)
Report(answer, since, done) ==
    /\ answer = [code |-> 200, faults |-> answer.faults, counter |-> answer.counter,
                 reading |-> answer.reading, asOf |-> answer.asOf]
    /\ answer.counter \in {<<>>, <<255>>}
    /\ answer.reading \in SensorReading
    /\ answer.asOf \in since .. done

(* A positive response that is under way to r. *)
Result(r, response, done) ==
    /\ r.op.service \in UdsServices
    /\ response.kind = "positive"
    /\ Report(Endpoint(r.op, response), r.since, done)

Waiting(r, e, q, done) ==
    /\ r.answer = NoAnswer
    /\ \/ e = "queued" /\ q = <<>>
       \/ e = "pending" /\ q = <<NegativeResponse>>
       \/ e = "dropped" /\ q \in {<<>>, <<NegativeResponse>>, <<NegativeResponse, NegativeResponse>>}
       \/ /\ e = "executed"
          /\ q \in {<<q[Len(q)]>>, <<NegativeResponse, q[Len(q)]>>}
          /\ Result(r, q[Len(q)], done)

Answered(r, e, done) ==
    \/ r.op.service = "catalog" /\ r.answer = AnswerWith(200, <<>>, <<>>, <<>>, 0) /\ e = "none"
    \/ r.op.service = "current" /\ Report(r.answer, r.since, done) /\ e = "none"
    \/ r.op.service \in UdsServices /\ Report(r.answer, r.since, done) /\ e = "executed"
    \/ r.answer = Error(404) /\ e = "none"
    \/ /\ r.answer = Error(502)
       /\ e \in {"none", "queued", "pending", "dropped", "executed"}
       /\ e = "executed" => r.op.service \in UdsServices

Exchange(r, e, q, known, done) ==
    /\ r = [at |-> r.at, op |-> r.op, answer |-> r.answer, since |-> r.since]
    /\ r.since \in 0 .. known
    /\ \/ r = Nothing /\ e = "none" /\ q = <<>>
       \/ r.at = "connecting" /\ r.answer = NoAnswer /\ e = "none" /\ q = <<>>
       \/ r.at = "waiting" /\ Waiting(r, e, q, done)
       \/ r.at = "answered" /\ Answered(r, e, done) /\ q = <<>>

(* The newest snapshot is the answer of a poll. *)
Snapshot(p) ==
    p # "none" => /\ p \in Polls /\ request[p].at = "answered"
                  /\ request[p].answer.code = 200 /\ request[p].op = PollFaults

SovdInv ==
    /\ DOMAIN request = Callers /\ DOMAIN ecu = Callers /\ DOMAIN inbox = Callers
    /\ clears \in Nat /\ confirmed \in 0 .. clears /\ moves \in 0 .. MaxMoves
    /\ \A c \in Callers : Exchange(request[c], ecu[c], inbox[c], confirmed, clears)
    /\ \A p \in Polls : request[p].at # "new" => request[p].op = PollFaults
    /\ Snapshot(latest)

-----------------------------------------------------------------------------
(* Values and responses.                                                   *)

LEMMA Powers == 2^24 = 16777216 /\ 2^16 = 65536 /\ 2^8 = 256
  BY SMT

(* The adapter decodes what the ECU has encoded.                           *)
LEMMA RoundTrip ==
    ASSUME NEW value \in Nat, value < 128 * 2^24
    PROVE  Decoded(Encoded(value)) = <<value>>
<1>1. value = (value \div 2^24) * 2^24 + ((value \div 2^16) % 2^8) * 2^16
                 + ((value \div 2^8) % 2^8) * 2^8 + (value % 2^8)
  BY Powers, SMTT(30)
<1>2. value \div 2^24 \in 0 .. 127
  BY Powers, SMTT(30)
<1>. QED BY <1>1, <1>2, Powers, SMTT(30) DEF Decoded, Encoded

(* A reading in its range is short enough for that.                        *)
LEMMA ReadingDecoded ==
    ASSUME NEW value \in SensorValues
    PROVE  Decoded(Encoded(value)) = <<value>>
<1>1. PICK max \in {EngineMax, BatteryMax, SpeedMax} : value \in Nat /\ max \in Nat /\ value <= max
  BY SensorAssumption DEF SensorValues
<1>2. max \div 2^24 < 128
  BY WidthAssumption
<1>3. value < 128 * 2^24
  BY <1>1, <1>2, Powers, SMTT(30)
<1>. QED BY <1>1, <1>3, RoundTrip

(* The ECU's answer to an accepted request, as the adapter passes it on.   *)
LEMMA AcceptedAnswer ==
    ASSUME NEW op, NEW done \in Nat, Accepts(op),
           engine \in EngineMin .. EngineMax, battery \in BatteryMin .. BatteryMax,
           speed \in SpeedMin .. SpeedMax
    PROVE  LET answer == Endpoint(op, PositiveResponse(op, done))
           IN  /\ op.service \in UdsServices
               /\ PositiveResponse(op, done).kind = "positive"
               /\ answer = [code |-> 200, faults |-> answer.faults, counter |-> answer.counter,
                             reading |-> answer.reading, asOf |-> done]
               /\ answer.counter \in {<<>>, <<255>>}
               /\ answer.reading \in SensorReading
               /\ answer.faults = Reported(op) /\ answer.reading = Read(op)
<1> DEFINE response == PositiveResponse(op, done)
           answer == Endpoint(op, response)
<1>1. op.service \in UdsServices
  BY DEF Accepts, UdsServices
<1>2. response = [kind |-> "positive", faults |-> Reported(op), extended |-> ExtendedData(op),
                  asOf |-> done,
                  data |-> IF op.service = "data" THEN Encoded(Read(op)[1]) ELSE <<>>]
  BY DEF PositiveResponse
<1> HIDE DEF response
<1>4. CASE op.service = "faults"
  <2>1. answer = [code |-> 200, faults |-> Reported(op), counter |-> <<>>, reading |-> <<>>,
                  asOf |-> done]
    BY <1>2, <1>4 DEF Endpoint, AnswerWith, read_faults
  <2>2. Read(op) = <<>>
    BY <1>4 DEF Read
  <2>. QED BY <1>1, <1>2, <2>1, <2>2 DEF SensorReading, response
<1>5. CASE op.service = "detail"
  <2>1. PICK byte : ExtendedData(op) = <<255, byte>>
    BY <1>5 DEF ExtendedData
  <2>2. Counter(ExtendedData(op)) = <<255>>
    BY <2>1 DEF Counter
  <2>3. answer = [code |-> 200, faults |-> Reported(op), counter |-> <<255>>, reading |-> <<>>,
                  asOf |-> done]
    BY <1>2, <1>5, <2>2 DEF Endpoint, AnswerWith, read_fault_detail
  <2>4. Read(op) = <<>>
    BY <1>5 DEF Read
  <2>. QED BY <1>1, <1>2, <2>3, <2>4 DEF SensorReading, response
<1>6. CASE op.service = "clear"
  <2>1. answer = [code |-> 200, faults |-> <<>>, counter |-> <<>>, reading |-> <<>>,
                  asOf |-> done]
    BY <1>2, <1>6 DEF Endpoint, AnswerWith, clear_faults
  <2>2. Read(op) = <<>> /\ Reported(op) = <<>>
    BY <1>6 DEF Read, Reported
  <2>. QED BY <1>1, <1>2, <2>1, <2>2 DEF SensorReading, response
<1>7. CASE op.service = "data"
  <2>1. op.did \in DOMAIN SensorValue
    BY <1>7 DEF Accepts
  <2>2. SensorValue[op.did] \in {engine, battery, speed}
    BY <2>1 DEF SensorValue
  <2>3. SensorValue[op.did] \in SensorValues
    BY <2>2 DEF SensorValues
  <2>4. Read(op) = <<SensorValue[op.did]>> /\ Reported(op) = <<>>
    BY <1>7 DEF Read, Reported
  <2>5. response.data = Encoded(SensorValue[op.did])
    BY <1>2, <1>7, <2>4
  <2>6. Decoded(response.data) = <<SensorValue[op.did]>>
    BY <2>3, <2>5, ReadingDecoded
  <2>7. answer = [code |-> 200, faults |-> <<>>, counter |-> <<>>,
                  reading |-> <<SensorValue[op.did]>>, asOf |-> done]
    BY <1>2, <1>7, <2>6 DEF Endpoint, AnswerWith, read_data
  <2>. QED BY <1>1, <1>2, <2>3, <2>4, <2>7 DEF SensorReading, response
<1>. QED BY <1>1, <1>4, <1>5, <1>6, <1>7 DEF UdsServices

-----------------------------------------------------------------------------
(* One exchange moves.                                                     *)

(* c has moved to r, e and q, and no other caller has moved.               *)
Only(c, r, e, q) ==
    /\ DOMAIN request' = Callers /\ DOMAIN ecu' = Callers /\ DOMAIN inbox' = Callers
    /\ request'[c] = r /\ ecu'[c] = e /\ inbox'[c] = q
    /\ \A d \in Callers \ {c} : request'[d] = request[d] /\ ecu'[d] = ecu[d] /\ inbox'[d] = inbox[d]

(* An exchange that does not move is not disturbed by clears of others.    *)
LEMMA LaterReport ==
    ASSUME NEW since, NEW done \in Nat, NEW later \in Nat, done <= later, since \in Nat,
           NEW answer, Report(answer, since, done)
    PROVE  Report(answer, since, later)
  BY DEF Report

LEMMA LaterExchange ==
    ASSUME NEW r, NEW e, NEW q, NEW known \in Nat, NEW done \in Nat, Exchange(r, e, q, known, done),
           NEW knownLater \in Nat, NEW later \in Nat, known <= knownLater, done <= later
    PROVE  Exchange(r, e, q, knownLater, later)
<1>1. r.since \in Nat /\ r.since \in 0 .. knownLater
  BY DEF Exchange
<1>2. Waiting(r, e, q, done) => Waiting(r, e, q, later)
  BY <1>1, LaterReport DEF Waiting, Result
<1>3. Answered(r, e, done) => Answered(r, e, later)
  BY <1>1, LaterReport DEF Answered
<1>. QED BY <1>1, <1>2, <1>3 DEF Exchange

(* So a step of one caller preserves the invariant if it leads to a legal  *)
(* exchange of that caller.                                                *)
LEMMA OnlyInv ==
    ASSUME SovdInv, NEW c \in Callers, NEW r, NEW e, NEW q, Only(c, r, e, q),
           request[c].at # "answered" \/ r = request[c],
           clears' \in Nat, clears <= clears', confirmed' \in confirmed .. clears', moves' = moves,
           Exchange(r, e, q, confirmed', clears'),
           c \in Polls /\ r.at # "new" => r.op = PollFaults,
           \/ latest' = latest
           \/ latest' = c /\ c \in Polls /\ r.at = "answered" /\ r.answer.code = 200
    PROVE  SovdInv'
<1>1. clears \in Nat /\ confirmed \in Nat /\ confirmed' \in Nat /\ confirmed <= confirmed'
  BY DEF SovdInv
<1>2. \A d \in Callers \ {c} : Exchange(request[d], ecu[d], inbox[d], confirmed', clears')
  BY <1>1, LaterExchange DEF SovdInv
<1>3. \A d \in Callers : Exchange(request'[d], ecu'[d], inbox'[d], confirmed', clears')
  BY <1>2 DEF Only
<1>4. \A p \in Polls : request'[p].at # "new" => request'[p].op = PollFaults
  BY DEF SovdInv, Only, Callers
<1>5. Snapshot(latest)'
  <2>1. CASE latest' = latest
    <3>1. latest # "none" => latest \in Callers /\ request'[latest] = request[latest]
      BY DEF SovdInv, Snapshot, Callers, Only
    <3>. QED BY <2>1, <3>1 DEF SovdInv, Snapshot
  <2>2. CASE latest' = c /\ c \in Polls /\ r.at = "answered" /\ r.answer.code = 200
    BY <2>2 DEF Snapshot, Only
  <2>. QED BY <2>1, <2>2
<1>6. DOMAIN request' = Callers /\ DOMAIN ecu' = Callers /\ DOMAIN inbox' = Callers
  BY DEF Only
<1>7. clears' \in Nat /\ confirmed' \in 0 .. clears' /\ moves' \in 0 .. MaxMoves
  BY <1>1 DEF SovdInv
<1>. QED BY <1>3, <1>4, <1>5, <1>6, <1>7 DEF SovdInv

(* What a caller of each kind has on its connection.                       *)
LEMMA Shape ==
    ASSUME SovdInv, NEW c \in Callers
    PROVE  /\ Exchange(request[c], ecu[c], inbox[c], confirmed, clears)
           /\ request[c].since \in 0 .. confirmed
           /\ request[c].at = "new" => ecu[c] = "none" /\ inbox[c] = <<>>
           /\ request[c].at = "connecting" =>
                 request[c].answer = NoAnswer /\ ecu[c] = "none" /\ inbox[c] = <<>>
           /\ request[c].at = "waiting" =>
                 request[c].answer = NoAnswer /\ Waiting(request[c], ecu[c], inbox[c], clears)
           /\ request[c].at = "answered" => Answered(request[c], ecu[c], clears) /\ inbox[c] = <<>>
           /\ c \in Polls /\ request[c].at # "new" => request[c].op = PollFaults
<1>1. Exchange(request[c], ecu[c], inbox[c], confirmed, clears)
  BY DEF SovdInv
<1>. QED BY <1>1 DEF Exchange, SovdInv, Nothing, Waiting

-----------------------------------------------------------------------------
(* The actions.                                                            *)

Started(op, at, answer) == [at |-> at, op |-> op, answer |-> answer, since |-> confirmed]

Finished(r, answer) == [at |-> "answered", op |-> r.op, answer |-> answer, since |-> r.since]

LEMMA StartMove ==
    ASSUME SovdInv, NEW c \in Callers, NEW op, NEW at, NEW answer, Start(c, op, at, answer)
    PROVE  /\ Only(c, Started(op, at, answer), "none", <<>>)
           /\ request[c].at = "new"
           /\ clears' = clears /\ confirmed' = confirmed /\ moves' = moves /\ latest' = latest
<1>1. ecu[c] = "none" /\ inbox[c] = <<>>
  BY Shape DEF Start
<1>. QED BY <1>1 DEF Start, SovdInv, Only, Started, link

LEMMA Settled ==
    ASSUME SovdInv PROVE clears \in Nat /\ clears <= clears /\ confirmed \in confirmed .. clears
                         /\ confirmed \in 0 .. confirmed /\ confirmed \in Nat
  BY DEF SovdInv

LEMMA RejectInv == ASSUME SovdInv, CallerAssumption, NEW r \in Requests, NEW op, Reject(r, op) PROVE SovdInv'
<1> DEFINE new == Started(op, "answered", Error(404))
<1>1. Start(r, op, "answered", Error(404)) /\ r \in Callers /\ r \notin Polls
  BY DEF Reject, Callers, CallerAssumption
<1>2. Exchange(new, "none", <<>>, confirmed, clears)
  BY Settled DEF Exchange, Answered, Started
<1> HIDE DEF new
<1>3. Only(r, new, "none", <<>>) /\ request[r].at = "new"
      /\ clears' = clears /\ confirmed' = confirmed /\ moves' = moves /\ latest' = latest
  BY <1>1, StartMove DEF new
<1>. QED BY <1>1, <1>2, <1>3, OnlyInv, Settled

LEMMA CatalogInv ==
    ASSUME SovdInv, CallerAssumption, NEW r \in Requests, DescribeCatalog(r) PROVE SovdInv'
<1> DEFINE op == [service |-> "catalog"]
           answer == AnswerWith(200, <<>>, <<>>, <<>>, 0)
           new == Started(op, "answered", answer)
<1>1. Start(r, op, "answered", answer) /\ r \in Callers /\ r \notin Polls
  BY DEF DescribeCatalog, Callers, CallerAssumption
<1>2. Exchange(new, "none", <<>>, confirmed, clears)
  BY Settled DEF Exchange, Answered, Started
<1> HIDE DEF new
<1>3. Only(r, new, "none", <<>>) /\ request[r].at = "new"
      /\ clears' = clears /\ confirmed' = confirmed /\ moves' = moves /\ latest' = latest
  BY <1>1, StartMove DEF new
<1>. QED BY <1>1, <1>2, <1>3, OnlyInv, Settled

LEMMA ConnectingInv ==
    ASSUME SovdInv, NEW c \in Callers, NEW op, c \in Polls => op = PollFaults,
           Start(c, op, "connecting", NoAnswer)
    PROVE  SovdInv'
<1> DEFINE new == Started(op, "connecting", NoAnswer)
<1>1. Exchange(new, "none", <<>>, confirmed, clears) /\ new.op = op
  BY Settled DEF Exchange, Started
<1> HIDE DEF new
<1>2. Only(c, new, "none", <<>>) /\ request[c].at = "new"
      /\ clears' = clears /\ confirmed' = confirmed /\ moves' = moves /\ latest' = latest
  BY StartMove DEF new
<1>. QED BY <1>1, <1>2, OnlyInv, Settled

(* The newest snapshot is reported with its own time stamp.                *)
LEMMA CurrentInv ==
    ASSUME SovdInv, CallerAssumption, NEW r \in Requests, CurrentFaults(r) PROVE SovdInv'
<1> DEFINE snapshot == IF latest = "none" THEN Nothing ELSE request[latest]
           answer == [snapshot.answer EXCEPT !.code = 200]
           new == [at |-> "answered", op |-> [service |-> "current"],
                   since |-> Stamped(snapshot), answer |-> answer]
<1>1. r \in Callers /\ r \notin Polls
  BY DEF Callers, CallerAssumption
<1>2. Report(answer, snapshot.since, clears) /\ snapshot.since \in 0 .. confirmed
  <2>1. CASE latest = "none"
    <3>1. snapshot = Nothing /\ Nothing.answer = NoAnswer /\ Nothing.since = 0
      BY <2>1 DEF Nothing
    <3>2. NoAnswer = [code |-> 0, faults |-> <<>>, counter |-> <<>>, reading |-> <<>>, asOf |-> 0]
      BY DEF NoAnswer, AnswerWith
    <3>3. answer = [code |-> 200, faults |-> <<>>, counter |-> <<>>, reading |-> <<>>, asOf |-> 0]
      BY <3>1, <3>2
    <3>. QED BY <3>1, <3>3, Settled DEF Report, SensorReading
  <2>2. CASE latest # "none"
    <3>1. /\ snapshot = request[latest] /\ latest \in Callers
          /\ request[latest].at = "answered" /\ request[latest].answer.code = 200
          /\ request[latest].op = PollFaults
      BY <2>2 DEF SovdInv, Snapshot, Callers
    <3>2. PollFaults.service = "faults"
      BY DEF PollFaults, ReadFaults
    <3>3. Answered(request[latest], ecu[latest], clears) /\ request[latest].since \in 0 .. confirmed
      BY <3>1, Shape
    <3>4. Error(404).code # 200 /\ Error(502).code # 200
      BY DEF Error, AnswerWith
    <3>5. Report(request[latest].answer, request[latest].since, clears)
      BY <3>1, <3>2, <3>3, <3>4 DEF Answered
    <3> DEFINE given == request[latest].answer
    <3>6. given = [code |-> 200, faults |-> given.faults, counter |-> given.counter,
                   reading |-> given.reading, asOf |-> given.asOf]
      BY <3>5 DEF Report
    <3>7. answer = given
      BY <3>1, <3>6
    <3>. QED BY <3>1, <3>3, <3>5, <3>7
  <2>. QED BY <2>1, <2>2
<1> HIDE DEF snapshot, answer
<1>3. Exchange(new, "none", <<>>, confirmed, clears)
  BY <1>2 DEF Exchange, Answered, Stamped
<1>4. Only(r, new, "none", <<>>) /\ request[r].at = "new"
      /\ clears' = clears /\ confirmed' = confirmed /\ moves' = moves /\ latest' = latest
  <2>1. request[r].at = "new" /\ ecu[r] = "none" /\ inbox[r] = <<>>
    BY <1>1, Shape DEF CurrentFaults
  <2>2. request' = [request EXCEPT ![r] = new]
    BY DEF CurrentFaults, snapshot, answer
  <2> HIDE DEF new
  <2>. QED BY <1>1, <2>1, <2>2 DEF CurrentFaults, SovdInv, Only, link
<1> HIDE DEF new
<1>. QED BY <1>1, <1>3, <1>4, OnlyInv, Settled
(* The end of a request.                                                   *)
LEMMA FinishMove ==
    ASSUME SovdInv, NEW c \in Callers, NEW answer, Finish(c, answer), ecu' = ecu
    PROVE  Only(c, Finished(request[c], answer), ecu[c], <<>>)
  BY DEF Finish, SovdInv, Only, Finished

LEMMA EcuState ==
    ASSUME SovdInv, NEW c \in Callers, request[c].at \in {"connecting", "waiting"}
    PROVE  /\ ecu[c] \in {"none", "queued", "pending", "dropped", "executed"}
           /\ ecu[c] = "executed" => request[c].op.service \in UdsServices
  BY Shape DEF Waiting, Result

(* An error after which the caller does not know.                          *)
LEMMA UnknownInv ==
    ASSUME SovdInv, NEW c \in Callers, request[c].at \in {"connecting", "waiting"},
           Finish(c, Error(502)), ecu' = ecu, clears' = clears, confirmed' = confirmed,
           moves' = moves, latest' = latest
    PROVE  SovdInv'
<1> DEFINE new == Finished(request[c], Error(502))
<1>1. Only(c, new, ecu[c], <<>>)
  BY FinishMove
<1>2. Exchange(new, ecu[c], <<>>, confirmed, clears)
  BY EcuState, Shape DEF Exchange, Answered, Finished
<1>3. c \in Polls => new.op = PollFaults
  BY Shape DEF Finished
<1> HIDE DEF new
<1>. QED BY <1>1, <1>2, <1>3, OnlyInv, Settled

LEMMA ConnectFailsInv == ASSUME SovdInv, NEW c \in Callers, ConnectFails(c) PROVE SovdInv'
  BY UnknownInv DEF ConnectFails, Raised

LEMMA GiveUpInv == ASSUME SovdInv, NEW c \in Callers, GiveUp(c) PROVE SovdInv'
  BY UnknownInv DEF GiveUp, Raised

LEMMA SendUdsInv == ASSUME SovdInv, NEW c \in Callers, SendUds(c) PROVE SovdInv'
<1> DEFINE new == [request[c] EXCEPT !.at = "waiting"]
<1>1. /\ request[c].at = "connecting" /\ request[c].answer = NoAnswer /\ inbox[c] = <<>>
      /\ Exchange(request[c], ecu[c], inbox[c], confirmed, clears)
      /\ c \in Polls => request[c].op = PollFaults
  BY Shape DEF SendUds
<1>2. new = [at |-> "waiting", op |-> request[c].op, answer |-> NoAnswer, since |-> request[c].since]
  BY <1>1 DEF Exchange
<1>3. Only(c, new, "queued", <<>>)
  <2>1. request' = [request EXCEPT ![c] = new]
    BY DEF SendUds
  <2> HIDE DEF new
  <2>. QED BY <1>1, <2>1 DEF SendUds, SovdInv, Only
<1>4. Exchange(new, "queued", <<>>, confirmed, clears)
  BY <1>1, <1>2 DEF Exchange, Waiting
<1>5. c \in Polls => new.op = PollFaults
  BY <1>1, <1>2
<1> HIDE DEF new
<1>. QED BY <1>1, <1>3, <1>4, <1>5, OnlyInv, Settled DEF SendUds

(* The first response is a negative one, or the result.                    *)
LEMMA FirstResponse ==
    ASSUME SovdInv, NEW c \in Callers, request[c].at = "waiting", inbox[c] # <<>>
    PROVE  \/ Head(inbox[c]) = NegativeResponse
           \/ /\ ecu[c] = "executed" /\ inbox[c] = <<Head(inbox[c])>>
              /\ inbox[c][Len(inbox[c])] = Head(inbox[c])
              /\ Result(request[c], Head(inbox[c]), clears)
<1>1. Waiting(request[c], ecu[c], inbox[c], clears)
  BY Shape
<1> DEFINE q == inbox[c]
           last == q[Len(q)]
<1>2. \/ q \in {<<NegativeResponse>>, <<NegativeResponse, NegativeResponse>>}
      \/ /\ ecu[c] = "executed" /\ q \in {<<last>>, <<NegativeResponse, last>>}
         /\ Result(request[c], last, clears)
  BY <1>1 DEF Waiting
<1> HIDE DEF last
<1>3. CASE q \in {<<NegativeResponse>>, <<NegativeResponse, NegativeResponse>>}
  BY <1>3
<1>4. CASE q = <<NegativeResponse, last>>
  BY <1>4
<1>5. CASE ecu[c] = "executed" /\ q = <<last>> /\ Result(request[c], last, clears)
  <2>1. Head(q) = last
    BY <1>5
  <2>. QED BY <1>5, <2>1 DEF last
<1>. QED BY <1>2, <1>3, <1>4, <1>5

LEMMA ReceiveUdsInv == ASSUME SovdInv, NEW c \in Callers, ReceiveUds(c) PROVE SovdInv'
<1> DEFINE response == Head(inbox[c])
           answer == AnswerTo(request[c].op, response)
           new == Finished(request[c], answer)
<1>1. /\ request[c].at = "waiting" /\ inbox[c] # <<>>
      /\ Finish(c, answer) /\ ecu' = ecu /\ clears' = clears /\ moves' = moves
      /\ latest' = IF c \in Polls /\ answer.code = 200 THEN c ELSE latest
      /\ confirmed' = IF IsClear(request[c].op) /\ answer.asOf > confirmed
                      THEN answer.asOf ELSE confirmed
  BY DEF ReceiveUds
<1>2. CASE response = NegativeResponse
  <2>1. answer = Error(502)
    BY <1>2 DEF AnswerTo, NegativeResponse, Raised
  <2>2. answer.code # 200 /\ answer.asOf = 0
    BY <2>1 DEF Error, AnswerWith
  <2>3. ~(answer.asOf > confirmed)
    BY <2>2, Settled
  <2>4. confirmed' = confirmed /\ latest' = latest
    BY <1>1, <2>2, <2>3
  <2>. QED BY <1>1, <2>1, <2>4, UnknownInv
<1>3. CASE /\ ecu[c] = "executed" /\ inbox[c] = <<response>>
           /\ Result(request[c], response, clears)
  <2>1. answer = Endpoint(request[c].op, response) /\ request[c].op.service \in UdsServices
    BY <1>3 DEF Result, AnswerTo
  <2>2. Report(answer, request[c].since, clears)
    BY <1>3, <2>1 DEF Result
  <2>3. request[c].since \in 0 .. confirmed /\ (c \in Polls => request[c].op = PollFaults)
    BY <1>1, Shape
  <2>4. answer.asOf \in 0 .. clears /\ answer.code = 200
    <3>1. answer.asOf \in request[c].since .. clears
      BY <2>2 DEF Report
    <3>2. answer.code = 200
      BY <2>2 DEF Report
    <3>. QED BY <2>3, <3>1, <3>2, Settled
  <2> HIDE DEF answer
  <2>5. confirmed' \in confirmed .. clears
    BY <1>1, <2>4, Settled
  <2>6. request[c].since \in 0 .. confirmed'
    BY <2>3, <2>5, Settled
  <2>7. Exchange(new, "executed", <<>>, confirmed', clears)
    BY <2>1, <2>2, <2>6 DEF Exchange, Answered, Finished
  <2>8. Only(c, new, "executed", <<>>)
    BY <1>1, <1>3, FinishMove
  <2>9. new.at = "answered" /\ new.op = request[c].op /\ new.answer.code = 200
    BY <2>4 DEF Finished
  <2> HIDE DEF new
  <2>10. latest' = latest \/ (latest' = c /\ c \in Polls /\ new.at = "answered" /\ new.answer.code = 200)
    BY <1>1, <2>9
  <2>. QED BY <1>1, <2>3, <2>5, <2>7, <2>8, <2>9, <2>10, OnlyInv, Settled
<1>. QED BY <1>1, <1>2, <1>3, FirstResponse
(* The ECU's side.                                                         *)
LEMMA AppendToOne ==
    ASSUME NEW x, NEW y PROVE Append(<<>>, y) = <<y>> /\ Append(<<x>>, y) = <<x, y>>
<1>1. <<x>> \in Seq({x, y}) /\ <<x, y>> \in Seq({x, y}) /\ y \in {x, y}
  OBVIOUS
<1>2. /\ Append(<<x>>, y) \in Seq({x, y}) /\ Len(Append(<<x>>, y)) = Len(<<x, y>>)
      /\ \A i \in 1 .. Len(Append(<<x>>, y)) : Append(<<x>>, y)[i] = <<x, y>>[i]
  BY <1>1
<1>3. Append(<<x>>, y) = <<x, y>>
  BY <1>1, <1>2, SeqEqual
<1>4. Append(<<>>, y) = <<y>>
  OBVIOUS
<1>. QED BY <1>3, <1>4

(* The responses of c when one more has been sent.                         *)
With(c, response) == IF request[c].at = "waiting" THEN Append(inbox[c], response) ELSE <<>>

LEMMA EcuMove ==
    ASSUME SovdInv, NEW c \in Callers, NEW response, NEW e, InEcu(c),
           ecu' = [ecu EXCEPT ![c] = e], Respond(c, response), request' = request
    PROVE  /\ Only(c, request[c], e, With(c, response))
           /\ \/ /\ request[c].at = "waiting" /\ request[c].answer = NoAnswer
                 /\ Append(inbox[c], response) \in {<<response>>, <<NegativeResponse, response>>}
                 /\ ecu[c] = "queued" => Append(inbox[c], response) = <<response>>
              \/ /\ request[c].at = "answered" /\ request[c].answer = Error(502)
<1>1. ecu[c] \in {"queued", "pending"}
  BY DEF InEcu
<1>2. request[c].at \in {"new", "connecting", "waiting", "answered"}
  BY DEF SovdInv, Exchange, Nothing
<1>3. CASE request[c].at = "waiting"
  <2>1. Waiting(request[c], ecu[c], inbox[c], clears)
    BY <1>3, Shape
  <2>2. /\ request[c].answer = NoAnswer
        /\ \/ ecu[c] = "queued" /\ inbox[c] = <<>>
           \/ ecu[c] = "pending" /\ inbox[c] = <<NegativeResponse>>
    BY <1>1, <2>1 DEF Waiting
  <2>3. /\ Append(<<>>, response) = <<response>>
        /\ Append(<<NegativeResponse>>, response) = <<NegativeResponse, response>>
    BY AppendToOne
  <2>4. /\ Append(inbox[c], response) \in {<<response>>, <<NegativeResponse, response>>}
        /\ ecu[c] = "queued" => Append(inbox[c], response) = <<response>>
    BY <2>2, <2>3
  <2>. QED BY <1>3, <2>2, <2>4 DEF SovdInv, Only, Respond, With
<1>4. CASE request[c].at = "answered"
  <2>1. Answered(request[c], ecu[c], clears) /\ inbox[c] = <<>>
    BY <1>4, Shape
  <2>2. request[c].answer = Error(502)
    BY <1>1, <2>1 DEF Answered
  <2>. QED BY <1>4, <2>1, <2>2 DEF SovdInv, Only, Respond, With
<1>. QED BY <1>1, <1>2, <1>3, <1>4, Shape

LEMMA ExecuteMove ==
    ASSUME SovdInv, NEW c \in Callers, NEW response, InEcu(c),
           ecu' = [ecu EXCEPT ![c] = "executed"], Respond(c, response), request' = request
    PROVE  /\ Only(c, request[c], "executed", With(c, response))
           /\ \/ /\ request[c].at = "waiting" /\ request[c].answer = NoAnswer
                 /\ Append(inbox[c], response) \in {<<response>>, <<NegativeResponse, response>>}
              \/ request[c].at = "answered" /\ request[c].answer = Error(502)
<1>1. /\ Only(c, request[c], "executed", With(c, response))
      /\ \/ /\ request[c].at = "waiting" /\ request[c].answer = NoAnswer
            /\ Append(inbox[c], response) \in {<<response>>, <<NegativeResponse, response>>}
            /\ ecu[c] = "queued" => Append(inbox[c], response) = <<response>>
         \/ /\ request[c].at = "answered" /\ request[c].answer = Error(502)
  BY EcuMove, Zenon
<1>. QED BY <1>1

(* A request the ECU has not executed, with what it has been told.         *)
LEMMA UnexecutedInv ==
    ASSUME SovdInv, NEW c \in Callers, NEW e, NEW q, Only(c, request[c], e, q),
           request[c].at \in {"waiting", "answered"}, ecu[c] \in {"queued", "pending"},
           \/ e = "pending" /\ (request[c].at = "waiting" => q = <<NegativeResponse>>)
           \/ e = "dropped" /\ (request[c].at = "waiting" =>
                 q \in {<<>>, <<NegativeResponse>>, <<NegativeResponse, NegativeResponse>>}),
           request[c].at = "answered" => q = <<>>,
           clears' = clears, confirmed' = confirmed, moves' = moves, latest' = latest
    PROVE  SovdInv'
<1>1. Exchange(request[c], e, q, confirmed, clears)
  <2>1. CASE request[c].at = "waiting"
    BY <2>1, Shape DEF Exchange, Waiting
  <2>2. CASE request[c].at = "answered"
    BY <2>2, Shape DEF Exchange, Answered
  <2>. QED BY <2>1, <2>2
<1>2. c \in Polls => request[c].op = PollFaults
  BY Shape
<1>. QED BY <1>1, <1>2, OnlyInv, Settled

LEMMA EcuPendsInv == ASSUME SovdInv, NEW c \in Callers, EcuPends(c) PROVE SovdInv'
<1>1. /\ ecu[c] = "queued" /\ InEcu(c)
      /\ ecu' = [ecu EXCEPT ![c] = "pending"] /\ Respond(c, NegativeResponse) /\ request' = request
      /\ clears' = clears /\ confirmed' = confirmed /\ moves' = moves /\ latest' = latest
  BY DEF EcuPends, InEcu, client
<1>2. /\ Only(c, request[c], "pending", With(c, NegativeResponse))
      /\ \/ /\ request[c].at = "waiting" /\ request[c].answer = NoAnswer
            /\ Append(inbox[c], NegativeResponse) \in {<<NegativeResponse>>, <<NegativeResponse, NegativeResponse>>}
            /\ ecu[c] = "queued" => Append(inbox[c], NegativeResponse) = <<NegativeResponse>>
         \/ /\ request[c].at = "answered" /\ request[c].answer = Error(502)
  BY <1>1, EcuMove, Zenon
<1>3. /\ request[c].at \in {"waiting", "answered"}
      /\ request[c].at = "waiting" => With(c, NegativeResponse) = <<NegativeResponse>>
      /\ request[c].at = "answered" => With(c, NegativeResponse) = <<>>
  BY <1>1, <1>2 DEF With
<1>. QED BY <1>1, <1>2, <1>3, UnexecutedInv

LEMMA EcuRefusesInv == ASSUME SovdInv, NEW c \in Callers, EcuRefuses(c) PROVE SovdInv'
<1>1. /\ ecu[c] \in {"queued", "pending"} /\ InEcu(c)
      /\ ecu' = [ecu EXCEPT ![c] = "dropped"] /\ Respond(c, NegativeResponse) /\ request' = request
      /\ clears' = clears /\ confirmed' = confirmed /\ moves' = moves /\ latest' = latest
  BY DEF EcuRefuses, InEcu, client
<1>2. /\ Only(c, request[c], "dropped", With(c, NegativeResponse))
      /\ \/ /\ request[c].at = "waiting"
            /\ Append(inbox[c], NegativeResponse)
                  \in {<<NegativeResponse>>, <<NegativeResponse, NegativeResponse>>}
         \/ request[c].at = "answered"
  BY <1>1, EcuMove, Zenon
<1>3. /\ request[c].at \in {"waiting", "answered"}
      /\ request[c].at = "waiting" =>
            With(c, NegativeResponse) \in {<<NegativeResponse>>, <<NegativeResponse, NegativeResponse>>}
      /\ request[c].at = "answered" => With(c, NegativeResponse) = <<>>
  BY <1>2 DEF With
<1>. QED BY <1>1, <1>2, <1>3, UnexecutedInv

LEMMA EcuLosesInv == ASSUME SovdInv, NEW c \in Callers, EcuLoses(c) PROVE SovdInv'
<1>1. ecu[c] \in {"queued", "pending"}
  BY DEF EcuLoses, InEcu
<1>2. request[c].at \in {"new", "connecting", "waiting", "answered"}
  BY DEF SovdInv, Exchange, Nothing
<1>3. request[c].at \in {"waiting", "answered"}
  BY <1>1, <1>2, Shape
<1>4. request[c].at = "waiting" => inbox[c] \in {<<>>, <<NegativeResponse>>}
  BY <1>1, Shape DEF Waiting
<1>5. request[c].at = "answered" => inbox[c] = <<>>
  BY Shape
<1>6. Only(c, request[c], "dropped", inbox[c])
  BY DEF EcuLoses, client, SovdInv, Only
<1>. QED BY <1>1, <1>3, <1>4, <1>5, <1>6, UnexecutedInv DEF EcuLoses, client

(* The execution gives a result that is newer than every clear that was    *)
(* confirmed when the request started.                                     *)
LEMMA EcuExecutesInv ==
    ASSUME SovdInv, NEW c \in Callers, EcuExecutes(c),
           engine \in EngineMin .. EngineMax, battery \in BatteryMin .. BatteryMax,
           speed \in SpeedMin .. SpeedMax
    PROVE  SovdInv'
<1> DEFINE r == request[c]
           done == clears'
           response == PositiveResponse(r.op, done)
           q == IF r.at = "waiting" THEN Append(inbox[c], response) ELSE <<>>
<1>1. /\ InEcu(c) /\ Accepts(r.op) /\ ecu' = [ecu EXCEPT ![c] = "executed"]
      /\ Respond(c, response) /\ request' = request /\ moves' = moves
      /\ confirmed' = confirmed /\ latest' = latest
      /\ clears' = IF IsClear(r.op) THEN clears + 1 ELSE clears
  BY DEF EcuExecutes, client
<1>2. done \in Nat /\ clears <= done /\ confirmed \in confirmed .. done
      /\ \A since \in 0 .. confirmed : done \in since .. done
  BY <1>1, Settled
<1> DEFINE answer == Endpoint(r.op, response)
<1>3. /\ r.op.service \in UdsServices /\ response.kind = "positive"
      /\ answer = [code |-> 200, faults |-> answer.faults, counter |-> answer.counter,
                   reading |-> answer.reading, asOf |-> done]
      /\ answer.counter \in {<<>>, <<255>>} /\ answer.reading \in SensorReading
  BY <1>1, <1>2, AcceptedAnswer
<1>4. r.since \in 0 .. confirmed /\ Exchange(r, ecu[c], inbox[c], confirmed, clears)
      /\ (c \in Polls /\ r.at # "new" => r.op = PollFaults)
  BY Shape
<1>5. Report(answer, r.since, done)
  <2> HIDE DEF answer, response, done, r
  <2>1. answer.asOf = done
    BY <1>3
  <2>. QED BY <1>2, <1>3, <1>4, <2>1 DEF Report
<1>6. Result(r, response, done)
  BY <1>3, <1>5 DEF Result
<1> HIDE DEF response, answer
<1>7. /\ Only(c, r, "executed", q)
      /\ \/ /\ r.at = "waiting" /\ r.answer = NoAnswer
            /\ q \in {<<response>>, <<NegativeResponse, response>>}
         \/ r.at = "answered" /\ r.answer = Error(502) /\ q = <<>>
  <2>1. /\ Only(c, request[c], "executed", With(c, response))
        /\ \/ /\ request[c].at = "waiting" /\ request[c].answer = NoAnswer
              /\ Append(inbox[c], response) \in {<<response>>, <<NegativeResponse, response>>}
           \/ request[c].at = "answered" /\ request[c].answer = Error(502)
    <3>1. InEcu(c) /\ ecu' = [ecu EXCEPT ![c] = "executed"] /\ Respond(c, response) /\ request' = request
      BY <1>1
    <3>. QED BY <3>1, ExecuteMove
  <2>. QED BY <2>1 DEF With
<1> HIDE DEF q
<1>8. Exchange(r, "executed", q, confirmed, done)
  <2>1. CASE r.at = "waiting"
    <3>1. q \in {<<response>>, <<NegativeResponse, response>>} /\ r.answer = NoAnswer
      BY <1>7, <2>1
    <3>2. q[Len(q)] = response
      <4>1. CASE q = <<response>>
        BY <4>1
      <4>2. CASE q = <<NegativeResponse, response>>
        <5>1. Len(<<NegativeResponse, response>>) = 2
          OBVIOUS
        <5>. QED BY <4>2, <5>1
      <4>. QED BY <3>1, <4>1, <4>2
    <3>3. Waiting(r, "executed", q, done)
      BY <1>6, <3>1, <3>2 DEF Waiting
    <3>. QED BY <1>4, <2>1, <3>3 DEF Exchange
  <2>2. CASE r.at = "answered"
    <3>1. r.answer = Error(502) /\ q = <<>>
      BY <1>7, <2>2
    <3>2. Answered(r, "executed", done)
      BY <1>3, <3>1 DEF Answered
    <3>. QED BY <1>4, <2>2, <3>1, <3>2 DEF Exchange
  <2>. QED BY <1>7, <2>1, <2>2
<1> HIDE DEF r, done
<1>9. Only(c, r, "executed", q) /\ r = request[c] /\ done = clears'
  BY <1>7 DEF r, done
<1>. QED BY <1>1, <1>2, <1>4, <1>8, <1>9, OnlyInv
-----------------------------------------------------------------------------
(* The theorems.                                                           *)

LEMMA SovdInitInv == SovdInit => SovdInv
<1> SUFFICES ASSUME SovdInit PROVE SovdInv
  OBVIOUS
<1>1. \A c \in Callers : request[c] = Nothing /\ ecu[c] = "none" /\ inbox[c] = <<>>
  BY DEF SovdInit
<1>2. Nothing = [at |-> Nothing.at, op |-> Nothing.op, answer |-> Nothing.answer, since |-> Nothing.since]
      /\ Nothing.since = 0 /\ Nothing.at = "new"
  BY DEF Nothing
<1>3. \A c \in Callers : Exchange(request[c], ecu[c], inbox[c], 0, 0)
  BY <1>1, <1>2 DEF Exchange
<1>4. \A p \in Polls : request[p].at = "new"
  BY <1>1, <1>2 DEF Callers
<1>. QED BY <1>3, <1>4, CallerAssumption DEF SovdInit, SovdInv, Snapshot

(* The ECU beneath the endpoints is the fault memory: it moves on its own  *)
(* or executes one clear.                                                  *)
LEMMA MemoryStep == [SovdNext]_sovdVars => [Next]_vars
<1> SUFFICES ASSUME [SovdNext]_sovdVars PROVE Next \/ UNCHANGED vars
  OBVIOUS
<1>1. CASE EcuMoves
  BY <1>1 DEF EcuMoves, Next
<1>2. ASSUME NEW c \in Callers, EcuExecutes(c) PROVE Next \/ UNCHANGED vars
  <2>1. Performs(request[c].op)
    BY <1>2 DEF EcuExecutes
  <2>2. ASSUME NEW number, ClearByNumber(number) PROVE Next
    <3>1. PICK i \in DOMAIN dtcs : IsFirst(dtcs, i, number)
      BY <2>2 DEF ClearByNumber
    <3>2. number = dtcs[i].number
      BY <3>1 DEF IsFirst
    <3>. QED BY <2>2, <3>2 DEF Next
  <2>. QED BY <2>1, <2>2 DEF Performs, Next
<1>3. ASSUME NEW c \in Callers, Proceed(c) \/ EcuPends(c) \/ EcuRefuses(c) \/ EcuLoses(c)
      PROVE  UNCHANGED vars
  BY <1>3 DEF Proceed, ConnectFails, SendUds, ReceiveUds, GiveUp, EcuPends, EcuRefuses, EcuLoses
<1>4. ASSUME NEW c, NEW op, Reject(c, op) \/ Receive(c, op) PROVE UNCHANGED vars
  BY <1>4 DEF Reject, Receive, Start
<1>5. ASSUME NEW c, DescribeCatalog(c) \/ CurrentFaults(c) \/ StartPoll(c) PROVE UNCHANGED vars
  BY <1>5 DEF DescribeCatalog, CurrentFaults, StartPoll, Start
<1>6. CASE UNCHANGED sovdVars
  BY <1>6 DEF sovdVars
<1>. QED BY <1>1, <1>2, <1>3, <1>4, <1>5, <1>6 DEF SovdNext, EcuServes

(* Whatever clients and network do, the ECU behaves as DtcMemory says (the *)
(* UDS services of main.py only read and clear its DTCs).  All that is     *)
(* proved of DtcMemory holds beneath the endpoints.                        *)
THEOREM EcuIsDtcMemory == SovdSpec => Spec
<1>1. SovdInit => Init
  BY DEF SovdInit
<1>. QED BY <1>1, MemoryStep, PTL DEF SovdSpec, Spec

LEMMA SovdNextInv ==
    ASSUME SovdInv, CallerAssumption, TypeOK, [SovdNext]_sovdVars PROVE SovdInv'
<1>1. CASE EcuMoves
  <2>1. request' = request /\ ecu' = ecu /\ inbox' = inbox /\ clears' = clears
        /\ confirmed' = confirmed /\ latest' = latest /\ moves < MaxMoves /\ moves' = moves + 1
    BY <1>1 DEF EcuMoves, client, link
  <2>. QED BY <2>1, CallerAssumption DEF SovdInv, Snapshot
<1>2. ASSUME NEW r \in Requests, NEW op \in Operations, Reject(r, op) PROVE SovdInv'
  BY <1>2, RejectInv
<1>3. ASSUME NEW r \in Requests, NEW op \in Operations, Receive(r, op) PROVE SovdInv'
  <2>1. r \in Callers /\ r \notin Polls
    BY CallerAssumption DEF Callers
  <2>. QED BY <1>3, <2>1, ConnectingInv DEF Receive
<1>4. ASSUME NEW r \in Requests, DescribeCatalog(r) PROVE SovdInv'
  BY <1>4, CatalogInv
<1>5. ASSUME NEW r \in Requests, CurrentFaults(r) PROVE SovdInv'
  BY <1>5, CurrentInv
<1>6. ASSUME NEW p \in Polls, StartPoll(p) PROVE SovdInv'
  <2>1. p \in Callers
    BY DEF Callers
  <2>. QED BY <1>6, <2>1, ConnectingInv DEF StartPoll
<1>7. ASSUME NEW c \in Callers, Proceed(c) PROVE SovdInv'
  BY <1>7, ConnectFailsInv, SendUdsInv, ReceiveUdsInv, GiveUpInv DEF Proceed
<1>8. ASSUME NEW c \in Callers, EcuServes(c) PROVE SovdInv'
  <2>1. EcuExecutes(c) => SovdInv'
    BY EcuExecutesInv DEF TypeOK
  <2>. QED BY <1>8, <2>1, EcuPendsInv, EcuRefusesInv, EcuLosesInv DEF EcuServes
<1>9. CASE UNCHANGED sovdVars
  BY <1>9 DEF sovdVars, client, link, SovdInv, Snapshot
<1>. QED BY <1>1, <1>2, <1>3, <1>4, <1>5, <1>6, <1>7, <1>8, <1>9 DEF SovdNext

(* Each exchange follows its protocol: at most one response pending before *)
(* the last response, and nothing after the connection is closed.          *)
THEOREM SovdInvariant == SovdSpec => []SovdInv
<1>1. TypeOK /\ SovdInv /\ [SovdNext]_sovdVars => SovdInv'
  BY SovdNextInv, CallerAssumption
<1>2. SovdSpec => []TypeOK
  BY EcuIsDtcMemory, TypeCorrect
<1>. QED BY SovdInitInv, <1>1, <1>2, PTL DEF SovdSpec
(* The codes and answers of Exchange.                                      *)
LEMMA Coded ==
    ASSUME SovdInv, NEW c \in Callers
    PROVE  /\ request[c].at # "answered" => request[c].answer = NoAnswer
           /\ request[c].at = "answered" =>
                 \/ /\ request[c].answer.code = 200
                    /\ \/ request[c].op.service = "catalog"
                       \/ request[c].since <= request[c].answer.asOf
                 \/ request[c].answer.code = 404 /\ ecu[c] = "none"
                 \/ request[c].answer.code = 502
           /\ request[c].answer.counter \in {<<>>, <<255>>}
           /\ request[c].answer.reading \in SensorReading
<1>1. /\ Error(404) = [code |-> 404, faults |-> <<>>, counter |-> <<>>, reading |-> <<>>, asOf |-> 0]
      /\ Error(502) = [code |-> 502, faults |-> <<>>, counter |-> <<>>, reading |-> <<>>, asOf |-> 0]
      /\ NoAnswer = [code |-> 0, faults |-> <<>>, counter |-> <<>>, reading |-> <<>>, asOf |-> 0]
      /\ AnswerWith(200, <<>>, <<>>, <<>>, 0)
            = [code |-> 200, faults |-> <<>>, counter |-> <<>>, reading |-> <<>>, asOf |-> 0]
  BY DEF Error, NoAnswer, AnswerWith
<1>2. <<>> \in SensorReading
  BY DEF SensorReading
<1>3. CASE request[c].at = "answered"
  <2>1. Answered(request[c], ecu[c], clears) /\ request[c].since \in Nat
    BY <1>3, Shape, Settled
  <2>2. Report(request[c].answer, request[c].since, clears) =>
           /\ request[c].answer.code = 200 /\ request[c].since <= request[c].answer.asOf
           /\ request[c].answer.counter \in {<<>>, <<255>>}
           /\ request[c].answer.reading \in SensorReading
    BY <2>1, Settled DEF Report
  <2>. QED BY <1>1, <1>2, <1>3, <2>1, <2>2 DEF Answered
<1>4. CASE request[c].at # "answered"
  <2>1. request[c].answer = NoAnswer
    <3>1. Exchange(request[c], ecu[c], inbox[c], confirmed, clears) /\ Nothing.answer = NoAnswer
      BY Shape DEF Nothing
    <3>. QED BY <1>4, <3>1 DEF Exchange, Waiting
  <2>. QED BY <1>1, <1>2, <1>4, <2>1
<1>. QED BY <1>3, <1>4

(* Who starts after a clear was confirmed sees its effect, and so does who *)
(* reads a snapshot whose time stamp is later.                             *)
THEOREM ReadsAreCurrent == SovdSpec => []ReadsFollowClears
<1>1. SovdInv => ReadsFollowClears
  <2> SUFFICES ASSUME SovdInv, NEW c \in Callers, request[c].answer.code = 200,
                      request[c].op.service # "catalog"
               PROVE  request[c].since <= request[c].answer.asOf
    BY DEF ReadsFollowClears
  <2>1. NoAnswer.code = 0
    BY DEF NoAnswer, AnswerWith
  <2>. QED BY <2>1, Coded
<1>. QED BY <1>1, SovdInvariant, PTL

(* Each request is answered with one of the status codes of the adapter,   *)
(* and each value it reports was in the range of a sensor: four bytes are  *)
(* encoded and decoded without loss.                                       *)
THEOREM EndpointsTypeCorrect == SovdSpec => []SovdTypeOK
<1>1. SovdInv => SovdTypeOK
  <2> SUFFICES ASSUME SovdInv PROVE SovdTypeOK
    OBVIOUS
  <2>1. ASSUME NEW c \in Callers
        PROVE  /\ request[c].at \in {"new", "connecting", "waiting", "answered"}
               /\ ecu[c] \in {"none", "queued", "pending", "dropped", "executed"}
    <3>1. Exchange(request[c], ecu[c], inbox[c], confirmed, clears)
      BY Shape
    <3>. QED BY <3>1 DEF Exchange, Waiting, Answered, Nothing
  <2>2. ASSUME NEW c \in Callers
        PROVE  /\ request[c].answer.code \in Codes
               /\ request[c].answer.code # 0 <=> request[c].at = "answered"
    <3>1. NoAnswer.code = 0
      BY DEF NoAnswer, AnswerWith
    <3>. QED BY <3>1, Coded DEF Codes
  <2>3. ASSUME NEW c \in Callers
        PROVE  /\ request[c].answer.counter \in {<<>>} \cup {<<byte>> : byte \in 0 .. 255}
               /\ request[c].answer.reading \in {<<>>} \cup {<<value>> : value \in SensorValues}
    <3>1. <<255>> \in {<<byte>> : byte \in 0 .. 255}
      OBVIOUS
    <3>. QED BY <3>1, Coded DEF SensorReading
  <2>4. latest \in Polls \cup {"none"} /\ clears \in Nat /\ confirmed \in 0 .. clears
        /\ moves \in 0 .. MaxMoves
    BY DEF SovdInv, Snapshot
  <2>. QED BY <2>1, <2>2, <2>3, <2>4 DEF SovdTypeOK
<1>. QED BY <1>1, SovdInvariant, PTL
-----------------------------------------------------------------------------
(* The endpoints implement FaultService.                                   *)

(* Both modules mean the same fault memory.                                *)
LEMMA SameMemory ==
    /\ Service!Init <=> Init
    /\ Service!Step <=> Step
    /\ Service!vars = vars
  BY DEF Service!Init, Init, Service!Step, Step, Service!Simulated, Simulated,
         Service!LinkedStore, LinkedStore, Service!Linked, Linked, Service!ToggledStores,
         ToggledStores, Service!Toggled, Toggled, Service!Stepped, Stepped, Service!Clamp, Clamp,
         Service!Deltas, Deltas, Service!FailureBits, FailureBits, Service!IsFirst, IsFirst,
         Service!vars, vars

LEMMA SameServices ==
    ASSUME NEW op
    PROVE  /\ Service!Accepts(op) <=> Accepts(op)
           /\ Service!Performs(op) <=> Performs(op)
           /\ Service!Reported(op) = Reported(op)
           /\ Service!Read(op) = Read(op)
<1>1. Service!Accepts(op) <=> Accepts(op)
  BY DEF Service!Accepts, Accepts, Service!IsRegistered, IsRegistered, Service!IsFirst, IsFirst,
         Service!AllDtcs, AllDtcs, Service!SensorValue, SensorValue
<1>2. Service!Performs(op) <=> Performs(op)
  BY DEF Service!Performs, Performs, Service!IsClear, IsClear, Service!AllDtcs, AllDtcs,
         Service!ClearAll, ClearAll, Service!clearAll, clearAll, Service!Cleared, Cleared,
         Service!ClearByNumber, ClearByNumber, Service!IsFirst, IsFirst,
         Service!vars, vars, Service!sensors, sensors
<1>3. Service!Reported(op) = Reported(op)
  BY DEF Service!Reported, Reported, Service!reportDtcByStatusMask, reportDtcByStatusMask,
         Service!Listed, Listed, Service!IsFirst, IsFirst,
         Service!matchesStatusMask, matchesStatusMask, Service!StatusAvailabilityMask, StatusAvailabilityMask, Service!StatusBit, StatusBit
<1>4. Service!Read(op) = Read(op)
  BY DEF Service!Read, Read, Service!SensorValue, SensorValue
<1>. QED BY <1>1, <1>2, <1>3, <1>4

Call(state, op, faults, reading) == [state |-> state, op |-> op, faults |-> faults, reading |-> reading]

Asked(r) == r.at # "new" /\ r.op.service \notin {"catalog", "current"}

(* CallOf() of a caller, as a function of its exchange.                    *)
Abstract(r, e, q) ==
    LET code == r.answer.code
        acted == e = "executed"
        told == IF r.at = "answered" THEN r.answer
                ELSE IF acted THEN Endpoint(r.op, q[Len(q)]) ELSE NoAnswer
    IN  IF ~Asked(r) THEN Call("idle", ReadFaults({}), <<>>, <<>>)
        ELSE Call(IF r.at # "answered" THEN IF acted THEN "acted" ELSE "called"
                  ELSE IF code = 200 THEN "answered"
                  ELSE IF code \in 400 .. 499 THEN "refused"
                  ELSE IF acted THEN "over" ELSE "unknown",
                  r.op, told.faults, told.reading)

LEMMA CallNow ==
    ASSUME NEW c \in Callers
    PROVE  CallOf(c) = Abstract(request[c], ecu[c], inbox[c])
  BY DEF CallOf, AsksEcu, Outcome, Told, Abstract, Asked, Call

LEMMA CallNext ==
    ASSUME NEW c \in Callers
    PROVE  CallOf(c)' = Abstract(request'[c], ecu'[c], inbox'[c])
  BY DEF CallOf, AsksEcu, Outcome, Told, Abstract, Asked, Call

Calls == [c \in Callers |-> CallOf(c)]

(* A step of one caller changes its call only.                             *)
LEMMA CallMoves ==
    ASSUME NEW c \in Callers, NEW r, NEW e, NEW q, Only(c, r, e, q)
    PROVE  /\ Calls[c] = Abstract(request[c], ecu[c], inbox[c])
           /\ Calls' = [Calls EXCEPT ![c] = Abstract(r, e, q)]
<1>1. \A d \in Callers \ {c} : CallOf(d)' = CallOf(d)
  BY CallNow, CallNext DEF Only
<1>2. CallOf(c)' = Abstract(r, e, q)
  BY CallNext DEF Only
<1>3. Calls' = [d \in Callers |-> CallOf(d)']
  BY DEF Calls
<1>. QED BY <1>1, <1>2, <1>3, CallNow DEF Calls

LEMMA CallStays ==
    ASSUME NEW c \in Callers, NEW r, NEW e, NEW q, Only(c, r, e, q), vars' = vars,
           Abstract(r, e, q) = Abstract(request[c], ecu[c], inbox[c])
    PROVE  UNCHANGED Service!serviceVars
<1>1. Calls' = Calls
  <2>1. Calls' = [Calls EXCEPT ![c] = Calls[c]]
    BY CallMoves
  <2>. QED BY <2>1 DEF Calls
<1>. QED BY <1>1 DEF Service!serviceVars, Service!vars, vars, Calls
-----------------------------------------------------------------------------
(* What the caller has been told at each stage.                            *)

LEMMA Stages ==
    ASSUME NEW r, NEW e, NEW q
    PROVE  /\ ~Asked(r) => Abstract(r, e, q) = Call("idle", ReadFaults({}), <<>>, <<>>)
           /\ Asked(r) /\ r.at # "answered" /\ r.answer = NoAnswer /\ e # "executed" =>
                 Abstract(r, e, q) = Call("called", r.op, <<>>, <<>>)
           /\ Asked(r) /\ r.at # "answered" /\ e = "executed" =>
                 Abstract(r, e, q) = Call("acted", r.op, Endpoint(r.op, q[Len(q)]).faults,
                                          Endpoint(r.op, q[Len(q)]).reading)
           /\ Asked(r) /\ r.at = "answered" /\ r.answer.code = 200 =>
                 Abstract(r, e, q) = Call("answered", r.op, r.answer.faults, r.answer.reading)
           /\ Asked(r) /\ r.at = "answered" /\ r.answer = Error(404) =>
                 Abstract(r, e, q) = Call("refused", r.op, <<>>, <<>>)
           /\ Asked(r) /\ r.at = "answered" /\ r.answer = Error(502) /\ e # "executed" =>
                 Abstract(r, e, q) = Call("unknown", r.op, <<>>, <<>>)
           /\ Asked(r) /\ r.at = "answered" /\ r.answer = Error(502) /\ e = "executed" =>
                 Abstract(r, e, q) = Call("over", r.op, <<>>, <<>>)
<1>1. /\ NoAnswer.faults = <<>> /\ NoAnswer.reading = <<>>
      /\ Error(404).code = 404 /\ Error(404).faults = <<>> /\ Error(404).reading = <<>>
      /\ Error(502).code = 502 /\ Error(502).faults = <<>> /\ Error(502).reading = <<>>
  BY DEF NoAnswer, Error, AnswerWith
<1>2. ~Asked(r) => Abstract(r, e, q) = Call("idle", ReadFaults({}), <<>>, <<>>)
  BY DEF Abstract
<1>3. Asked(r) /\ r.at # "answered" /\ r.answer = NoAnswer /\ e # "executed" =>
        Abstract(r, e, q) = Call("called", r.op, <<>>, <<>>)
  BY <1>1 DEF Abstract
<1>4. Asked(r) /\ r.at # "answered" /\ e = "executed" =>
        Abstract(r, e, q) = Call("acted", r.op, Endpoint(r.op, q[Len(q)]).faults,
                                 Endpoint(r.op, q[Len(q)]).reading)
  BY DEF Abstract
<1>5. Asked(r) /\ r.at = "answered" /\ r.answer.code = 200 =>
        Abstract(r, e, q) = Call("answered", r.op, r.answer.faults, r.answer.reading)
  BY DEF Abstract
<1>6. Asked(r) /\ r.at = "answered" /\ r.answer = Error(404) =>
        Abstract(r, e, q) = Call("refused", r.op, <<>>, <<>>)
  <2>1. 404 # 200 /\ 404 \in 400 .. 499
    OBVIOUS
  <2>. QED BY <1>1, <2>1 DEF Abstract
<1>7. r.answer = Error(502) => ~(r.answer.code = 200) /\ ~(r.answer.code \in 400 .. 499)
  <2> SUFFICES ASSUME r.answer = Error(502)
               PROVE  ~(r.answer.code = 200) /\ ~(r.answer.code \in 400 .. 499)
    OBVIOUS
  <2>1. r.answer.code = 502
    BY <1>1
  <2>2. 502 # 200 /\ ~(502 \in 400 .. 499)
    OBVIOUS
  <2>. QED
    BY ONLY <2>1, <2>2
<1>8. Asked(r) /\ r.at = "answered" /\ r.answer = Error(502) /\ e # "executed" =>
        Abstract(r, e, q) = Call("unknown", r.op, <<>>, <<>>)
  <2> SUFFICES ASSUME Asked(r), r.at = "answered", r.answer = Error(502), e # "executed"
               PROVE  Abstract(r, e, q) = Call("unknown", r.op, <<>>, <<>>)
    OBVIOUS
  <2>1. r.answer.faults = <<>> /\ r.answer.reading = <<>>
    BY <1>1
  <2>. QED BY <1>7, <2>1, Zenon DEF Abstract
<1>9. Asked(r) /\ r.at = "answered" /\ r.answer = Error(502) /\ e = "executed" =>
        Abstract(r, e, q) = Call("over", r.op, <<>>, <<>>)
  <2> SUFFICES ASSUME Asked(r), r.at = "answered", r.answer = Error(502), e = "executed"
               PROVE  Abstract(r, e, q) = Call("over", r.op, <<>>, <<>>)
    OBVIOUS
  <2>1. r.answer.faults = <<>> /\ r.answer.reading = <<>>
    BY <1>1
  <2>. QED BY <1>7, <2>1, Zenon DEF Abstract
<1>. QED BY <1>2, <1>3, <1>4, <1>5, <1>6, <1>8, <1>9

(* The actions of FaultService, on the calls of this module.               *)
LEMMA ServiceActions ==
    ASSUME NEW c \in Callers, NEW op
    PROVE  /\ Calls[c].state = "idle" /\ vars' = vars
              /\ Calls' = [Calls EXCEPT ![c] = Call("called", op, <<>>, <<>>)]
                => Service!Call(c, op)
           /\ Calls[c].state = "idle" /\ vars' = vars
              /\ Calls' = [Calls EXCEPT ![c] = Call("refused", op, <<>>, <<>>)]
                => Service!Refuse(c, op)
           /\ Calls[c] = Call("called", op, <<>>, <<>>) /\ Accepts(op) /\ Performs(op)
              /\ Calls' = [Calls EXCEPT ![c] = Call("acted", op, Reported(op), Read(op))]
                => Service!Act(c)
           /\ Calls[c] = Call("unknown", op, <<>>, <<>>) /\ Accepts(op) /\ Performs(op)
              /\ Calls' = [Calls EXCEPT ![c] = Call("over", op, <<>>, <<>>)]
                => Service!Act(c)
           /\ \A faults, reading :
                 Calls[c] = Call("acted", op, faults, reading) /\ vars' = vars
                 /\ Calls' = [Calls EXCEPT ![c] = Call("answered", op, faults, reading)]
                   => Service!Answer(c)
           /\ Calls[c] = Call("called", op, <<>>, <<>>) /\ vars' = vars
              /\ Calls' = [Calls EXCEPT ![c] = Call("unknown", op, <<>>, <<>>)]
                => Service!Fail(c)
           /\ \A faults, reading :
                 Calls[c] = Call("acted", op, faults, reading) /\ vars' = vars
                 /\ Calls' = [Calls EXCEPT ![c] = Call("over", op, <<>>, <<>>)]
                   => Service!Fail(c)
<1>1. vars' = vars => UNCHANGED Service!vars
  BY DEF vars, Service!vars
<1>2. Calls[c].state = "idle" /\ vars' = vars
      /\ Calls' = [Calls EXCEPT ![c] = Call("called", op, <<>>, <<>>)]
        => Service!Call(c, op)
  BY <1>1 DEF Service!Call, Service!Progress, Call, Calls
<1>3. Calls[c].state = "idle" /\ vars' = vars
      /\ Calls' = [Calls EXCEPT ![c] = Call("refused", op, <<>>, <<>>)]
        => Service!Refuse(c, op)
  BY <1>1 DEF Service!Refuse, Service!Progress, Call, Calls
<1>4. Service!Act(c) <=>
        /\ \/ /\ Calls[c].state = "called"
              /\ Calls' = [Calls EXCEPT ![c] =
                    Service!Progress("acted", @.op, Service!Reported(@.op), Service!Read(@.op))]
           \/ /\ Calls[c].state = "unknown"
              /\ Calls' = [Calls EXCEPT ![c] = Service!Progress("over", @.op, <<>>, <<>>)]
        /\ Service!Accepts(Calls[c].op) /\ Service!Performs(Calls[c].op)
  BY DEF Service!Act, Calls
<1>5. Service!Answer(c) <=>
        /\ Calls[c].state = "acted"
        /\ Calls' = [Calls EXCEPT ![c] = Service!Progress("answered", @.op, @.faults, @.reading)]
        /\ UNCHANGED Service!vars
  BY DEF Service!Answer, Calls
<1>6. Service!Fail(c) <=>
        /\ \/ /\ Calls[c].state = "called"
              /\ Calls' = [Calls EXCEPT ![c] = Service!Progress("unknown", @.op, <<>>, <<>>)]
           \/ /\ Calls[c].state = "acted"
              /\ Calls' = [Calls EXCEPT ![c] = Service!Progress("over", @.op, <<>>, <<>>)]
        /\ UNCHANGED Service!vars
  BY DEF Service!Fail, Calls
<1>7. ASSUME NEW state, NEW faults, NEW reading, Calls[c] = Call(state, op, faults, reading)
      PROVE  /\ Calls[c].state = state /\ Calls[c].op = op
             /\ Calls[c].faults = faults /\ Calls[c].reading = reading
  BY <1>7 DEF Call
<1>8. \A state, faults, reading : Service!Progress(state, op, faults, reading) = Call(state, op, faults, reading)
  BY DEF Service!Progress, Call
<1>9. ASSUME Calls[c] = Call("called", op, <<>>, <<>>), Accepts(op), Performs(op),
             Calls' = [Calls EXCEPT ![c] = Call("acted", op, Reported(op), Read(op))]
      PROVE  Service!Act(c)
  <2>1. Calls[c].state = "called" /\ Calls[c].op = op
    BY <1>7, <1>9
  <2>2. Service!Progress("acted", op, Service!Reported(op), Service!Read(op))
          = Call("acted", op, Reported(op), Read(op))
    BY <1>8, SameServices
  <2>3. Calls' = [Calls EXCEPT ![c] =
           Service!Progress("acted", @.op, Service!Reported(@.op), Service!Read(@.op))]
    BY <1>9, <2>1, <2>2
  <2>. QED BY <1>4, <1>9, <2>1, <2>3, SameServices
<1>10. ASSUME Calls[c] = Call("unknown", op, <<>>, <<>>), Accepts(op), Performs(op),
              Calls' = [Calls EXCEPT ![c] = Call("over", op, <<>>, <<>>)]
       PROVE  Service!Act(c)
  <2>1. Calls[c].state = "unknown" /\ Calls[c].op = op
    BY <1>7, <1>10
  <2>2. Calls' = [Calls EXCEPT ![c] = Service!Progress("over", @.op, <<>>, <<>>)]
    BY <1>8, <1>10, <2>1
  <2>. QED BY <1>4, <1>10, <2>1, <2>2, SameServices
<1>11. ASSUME NEW faults, NEW reading,
              Calls[c] = Call("acted", op, faults, reading), vars' = vars,
              Calls' = [Calls EXCEPT ![c] = Call("answered", op, faults, reading)]
       PROVE  Service!Answer(c)
  <2>1. Calls[c].state = "acted" /\ Calls[c].op = op /\ Calls[c].faults = faults /\ Calls[c].reading = reading
    BY <1>7, <1>11
  <2>2. Service!Progress("answered", Calls[c].op, Calls[c].faults, Calls[c].reading)
          = Call("answered", op, faults, reading)
    BY <1>8, <2>1
  <2>3. Calls' = [Calls EXCEPT ![c] = Service!Progress("answered", @.op, @.faults, @.reading)]
    BY <1>11, <2>2
  <2>. QED BY <1>1, <1>5, <1>11, <2>1, <2>3
<1>12. ASSUME Calls[c] = Call("called", op, <<>>, <<>>), vars' = vars,
              Calls' = [Calls EXCEPT ![c] = Call("unknown", op, <<>>, <<>>)]
       PROVE  Service!Fail(c)
  <2>1. Calls[c].state = "called" /\ Calls[c].op = op
    BY <1>7, <1>12
  <2>2. Calls' = [Calls EXCEPT ![c] = Service!Progress("unknown", @.op, <<>>, <<>>)]
    BY <1>8, <1>12, <2>1
  <2>. QED BY <1>1, <1>6, <1>12, <2>1, <2>2
<1>13. ASSUME NEW faults, NEW reading,
              Calls[c] = Call("acted", op, faults, reading), vars' = vars,
              Calls' = [Calls EXCEPT ![c] = Call("over", op, <<>>, <<>>)]
       PROVE  Service!Fail(c)
  <2>1. Calls[c].state = "acted" /\ Calls[c].op = op
    BY <1>7, <1>13
  <2>2. Calls' = [Calls EXCEPT ![c] = Service!Progress("over", @.op, <<>>, <<>>)]
    BY <1>8, <1>13, <2>1
  <2>. QED BY <1>1, <1>6, <1>13, <2>1, <2>2
<1>. QED BY <1>2, <1>3, <1>9, <1>10, <1>11, <1>12, <1>13
-----------------------------------------------------------------------------
(* Each step is one of FaultService, or none.                              *)

Serves == Service!ServiceNext \/ UNCHANGED Service!serviceVars

LEMMA OfService ==
    ASSUME NEW c \in Callers
    PROVE  /\ \A op \in Operations : Service!Call(c, op) \/ Service!Refuse(c, op) => Serves
           /\ Service!Act(c) \/ Service!Answer(c) \/ Service!Fail(c) => Serves
  BY DEF Serves, Service!ServiceNext

LEMMA CatalogServes ==
    ASSUME SovdInv, NEW r \in Requests, DescribeCatalog(r) \/ CurrentFaults(r) PROVE Serves
<1>1. r \in Callers
  BY DEF Callers
<1>2. CASE DescribeCatalog(r)
  <2> DEFINE new == Started([service |-> "catalog"], "answered", AnswerWith(200, <<>>, <<>>, <<>>, 0))
  <2>1. Start(r, [service |-> "catalog"], "answered", AnswerWith(200, <<>>, <<>>, <<>>, 0))
    BY <1>2 DEF DescribeCatalog
  <2>2. Only(r, new, "none", <<>>) /\ request[r].at = "new" /\ vars' = vars
    BY <1>1, <2>1, StartMove DEF Start
  <2>3. ~Asked(new) /\ ~Asked(request[r])
    BY <2>2 DEF Asked, Started
  <2> HIDE DEF new
  <2>. QED BY <1>1, <2>2, <2>3, Stages, CallStays DEF Serves
<1>3. CASE CurrentFaults(r)
  <2>1. PICK answer, since : request' = [request EXCEPT ![r] =
           [at |-> "answered", op |-> [service |-> "current"], since |-> since, answer |-> answer]]
    BY <1>3 DEF CurrentFaults
  <2> DEFINE new == [at |-> "answered", op |-> [service |-> "current"], since |-> since, answer |-> answer]
  <2>2. ~Asked(new)
    BY DEF Asked
  <2>3. request' = [request EXCEPT ![r] = new]
    BY <2>1
  <2> HIDE DEF new
  <2>4. request[r].at = "new" /\ vars' = vars /\ ecu' = ecu /\ inbox' = inbox
    BY <1>3 DEF CurrentFaults, link
  <2>5. Only(r, new, ecu[r], inbox[r])
    BY <1>1, <2>3, <2>4 DEF SovdInv, Only
  <2>6. ~Asked(request[r])
    BY <2>4 DEF Asked
  <2>. QED BY <1>1, <2>2, <2>4, <2>5, <2>6, Stages, CallStays DEF Serves
<1>. QED BY <1>2, <1>3

LEMMA StartServes ==
    ASSUME SovdInv, NEW c \in Callers, NEW op \in Operations, NEW at, NEW answer,
           Start(c, op, at, answer),
           \/ at = "answered" /\ answer = Error(404)
           \/ at = "connecting" /\ answer = NoAnswer
    PROVE  Serves
<1> DEFINE new == Started(op, at, answer)
<1>1. Only(c, new, "none", <<>>) /\ request[c].at = "new" /\ vars' = vars
  BY StartMove DEF Start
<1>2. ~Asked(request[c])
  BY <1>1 DEF Asked
<1>3. new.at = at /\ new.op = op /\ new.answer = answer
  BY DEF Started
<1> HIDE DEF new
<1>4. Calls[c] = Call("idle", ReadFaults({}), <<>>, <<>>) /\ Calls[c].state = "idle"
  <2>1. Calls[c] = Call("idle", ReadFaults({}), <<>>, <<>>)
    BY <1>1, <1>2, CallMoves, Stages
  <2>. QED BY <2>1 DEF Call
<1>5. Calls' = [Calls EXCEPT ![c] = Abstract(new, "none", <<>>)]
  BY <1>1, CallMoves
<1>6. CASE ~Asked(new)
  BY <1>1, <1>2, <1>6, Stages, CallStays DEF Serves
<1>7. CASE Asked(new) /\ at = "answered" /\ answer = Error(404)
  <2>1. Abstract(new, "none", <<>>) = Call("refused", op, <<>>, <<>>)
    BY <1>3, <1>7, Stages
  <2>. QED BY <1>1, <1>4, <1>5, <2>1, ServiceActions, OfService
<1>8. CASE Asked(new) /\ at = "connecting" /\ answer = NoAnswer
  <2>1. Abstract(new, "none", <<>>) = Call("called", op, <<>>, <<>>)
    BY <1>3, <1>8, Stages
  <2>. QED BY <1>1, <1>4, <1>5, <2>1, ServiceActions, OfService
<1>. QED BY <1>6, <1>7, <1>8

LEMMA SendServes == ASSUME SovdInv, NEW c \in Callers, SendUds(c) PROVE Serves
<1> DEFINE new == [request[c] EXCEPT !.at = "waiting"]
<1>1. /\ request[c].at = "connecting" /\ request[c].answer = NoAnswer /\ inbox[c] = <<>>
      /\ ecu[c] = "none" /\ Exchange(request[c], ecu[c], inbox[c], confirmed, clears)
  BY Shape DEF SendUds
<1>2. new = [at |-> "waiting", op |-> request[c].op, answer |-> NoAnswer, since |-> request[c].since]
  BY <1>1 DEF Exchange
<1>3. Only(c, new, "queued", <<>>) /\ vars' = vars
  <2>1. request' = [request EXCEPT ![c] = new]
    BY DEF SendUds
  <2> HIDE DEF new
  <2>. QED BY <1>1, <2>1 DEF SendUds, SovdInv, Only
<1>4. new.at = "waiting" /\ new.op = request[c].op /\ new.answer = NoAnswer
      /\ (Asked(new) <=> Asked(request[c]))
  BY <1>1, <1>2 DEF Asked
<1> HIDE DEF new
<1>5. Abstract(new, "queued", <<>>) = Abstract(request[c], ecu[c], inbox[c])
  <2>1. CASE ~Asked(new)
    BY <1>4, <2>1, Stages
  <2>2. CASE Asked(new)
    <3>1. Abstract(new, "queued", <<>>) = Call("called", request[c].op, <<>>, <<>>)
      BY <1>4, <2>2, Stages
    <3>2. Abstract(request[c], ecu[c], inbox[c]) = Call("called", request[c].op, <<>>, <<>>)
      BY <1>1, <1>4, <2>2, Stages
    <3>. QED BY <3>1, <3>2
  <2>. QED BY <2>1, <2>2
<1>. QED BY <1>3, <1>5, CallStays DEF Serves

LEMMA AskedService ==
    ASSUME NEW r, r.at # "new", r.op.service \in UdsServices PROVE Asked(r)
  BY DEF Asked, UdsServices

(* What was under way before an end with an error is lost.                 *)
LEMMA UnknownServes ==
    ASSUME SovdInv, NEW c \in Callers, request[c].at \in {"connecting", "waiting"},
           Finish(c, Error(502)), ecu' = ecu, vars' = vars
    PROVE  Serves
<1> DEFINE new == Finished(request[c], Error(502))
           op == request[c].op
<1>1. Only(c, new, ecu[c], <<>>)
  BY FinishMove
<1>2. new.at = "answered" /\ new.op = op /\ new.answer = Error(502) /\ request[c].answer = NoAnswer
      /\ (Asked(new) <=> Asked(request[c]))
  BY Shape DEF Finished, Asked
<1> HIDE DEF new
<1>3. Calls[c] = Abstract(request[c], ecu[c], inbox[c])
      /\ Calls' = [Calls EXCEPT ![c] = Abstract(new, ecu[c], <<>>)]
  BY <1>1, CallMoves
<1>4. CASE ~Asked(new)
  BY <1>1, <1>2, <1>4, Stages, CallStays DEF Serves
<1>5. CASE Asked(new) /\ ecu[c] # "executed"
  <2>1. Abstract(request[c], ecu[c], inbox[c]) = Call("called", op, <<>>, <<>>)
    BY <1>2, <1>5, Stages
  <2>2. Abstract(new, ecu[c], <<>>) = Call("unknown", op, <<>>, <<>>)
    BY <1>2, <1>5, Stages
  <2>. QED BY <1>3, <2>1, <2>2, ServiceActions, OfService
<1>6. CASE Asked(new) /\ ecu[c] = "executed"
  <2>1. PICK faults, reading :
            Abstract(request[c], ecu[c], inbox[c]) = Call("acted", op, faults, reading)
    BY <1>2, <1>6, Stages
  <2>2. Abstract(new, ecu[c], <<>>) = Call("over", op, <<>>, <<>>)
    BY <1>2, <1>6, Stages
  <2>. QED BY <1>3, <2>1, <2>2, ServiceActions, OfService
<1>. QED BY <1>4, <1>5, <1>6
LEMMA ReceiveServes == ASSUME SovdInv, NEW c \in Callers, ReceiveUds(c) PROVE Serves
<1> DEFINE response == Head(inbox[c])
           op == request[c].op
           answer == AnswerTo(op, response)
           new == Finished(request[c], answer)
<1>1. /\ request[c].at = "waiting" /\ inbox[c] # <<>>
      /\ Finish(c, answer) /\ ecu' = ecu /\ vars' = vars
  BY DEF ReceiveUds
<1>2. CASE response = NegativeResponse
  <2>1. answer = Error(502)
    BY <1>2 DEF AnswerTo, NegativeResponse, Raised
  <2>. QED BY <1>1, <2>1, UnknownServes
<1>3. CASE /\ ecu[c] = "executed" /\ inbox[c] = <<response>>
           /\ inbox[c][Len(inbox[c])] = response
           /\ Result(request[c], response, clears)
  <2>1. answer = Endpoint(op, response) /\ op.service \in UdsServices
    BY <1>3 DEF Result, AnswerTo
  <2>2. answer.code = 200
    BY <1>3, <2>1 DEF Result, Report
  <2>3. Only(c, new, ecu[c], <<>>)
    BY <1>1, FinishMove
  <2>4. new.at = "answered" /\ new.op = op /\ new.answer = answer
    BY DEF Finished
  <2>5. Asked(new) /\ Asked(request[c])
    BY <1>1, <2>1, <2>4, AskedService
  <2> HIDE DEF new
  <2>6. Abstract(request[c], ecu[c], inbox[c]) = Call("acted", op, answer.faults, answer.reading)
    BY <1>1, <1>3, <2>1, <2>5, Stages
  <2>7. Abstract(new, ecu[c], <<>>) = Call("answered", op, answer.faults, answer.reading)
    BY <2>2, <2>4, <2>5, Stages
  <2>8. Calls[c] = Abstract(request[c], ecu[c], inbox[c])
        /\ Calls' = [Calls EXCEPT ![c] = Abstract(new, ecu[c], <<>>)]
    BY <2>3, CallMoves
  <2> HIDE DEF answer, op
  <2>. QED BY <1>1, <2>6, <2>7, <2>8, ServiceActions, OfService
<1>. QED BY <1>1, <1>2, <1>3, FirstResponse

(* A request the ECU has not executed stays what it is for the caller.     *)
LEMMA UnexecutedServes ==
    ASSUME SovdInv, NEW c \in Callers, NEW e, NEW q, Only(c, request[c], e, q), vars' = vars,
           ecu[c] # "executed", e # "executed"
    PROVE  Serves
<1>1. Abstract(request[c], e, q) = Abstract(request[c], ecu[c], inbox[c])
  BY DEF Abstract
<1>. QED BY <1>1, CallStays DEF Serves

LEMMA EcuServesOthers ==
    ASSUME SovdInv, NEW c \in Callers, EcuPends(c) \/ EcuRefuses(c) \/ EcuLoses(c) PROVE Serves
<1>1. CASE EcuPends(c)
  <2>1. ecu[c] = "queued" /\ InEcu(c) /\ vars' = vars /\ request' = request
        /\ Respond(c, NegativeResponse) /\ ecu' = [ecu EXCEPT ![c] = "pending"]
    BY <1>1 DEF EcuPends, InEcu, client
  <2>2. PICK q : Only(c, request[c], "pending", q)
    BY <2>1, EcuMove, Zenon
  <2>3. ecu[c] # "executed"
    BY <2>1
  <2>. QED BY <2>1, <2>2, <2>3, UnexecutedServes
<1>2. CASE EcuRefuses(c)
  <2>1. InEcu(c) /\ vars' = vars /\ request' = request
        /\ Respond(c, NegativeResponse) /\ ecu' = [ecu EXCEPT ![c] = "dropped"]
    BY <1>2 DEF EcuRefuses, client
  <2>2. ecu[c] # "executed"
    BY <2>1 DEF InEcu
  <2>3. PICK q : Only(c, request[c], "dropped", q)
    BY <2>1, EcuMove, Zenon
  <2>. QED BY <2>1, <2>2, <2>3, UnexecutedServes
<1>3. CASE EcuLoses(c)
  <2>1. Only(c, request[c], "dropped", inbox[c]) /\ vars' = vars /\ ecu[c] # "executed"
    BY <1>3 DEF EcuLoses, InEcu, client, SovdInv, Only
  <2>. QED BY <2>1, UnexecutedServes
<1>. QED BY <1>1, <1>2, <1>3

(* The execution is where the request acts.                                *)
LEMMA ExecuteServes ==
    ASSUME SovdInv, TypeOK, NEW c \in Callers, EcuExecutes(c) PROVE Serves
<1> DEFINE op == request[c].op
           response == PositiveResponse(op, clears')
           q == IF request[c].at = "waiting" THEN Append(inbox[c], response) ELSE <<>>
<1>1. /\ InEcu(c) /\ ecu' = [ecu EXCEPT ![c] = "executed"]
      /\ Respond(c, response) /\ request' = request
  BY DEF EcuExecutes, client
<1>2. Accepts(op) /\ Performs(op)
  BY DEF EcuExecutes
<1>3. clears' \in Nat
  BY Settled DEF EcuExecutes
<1>4. /\ op.service \in UdsServices
      /\ Endpoint(op, response).faults = Reported(op) /\ Endpoint(op, response).reading = Read(op)
  BY <1>2, <1>3, AcceptedAnswer DEF TypeOK
<1> HIDE DEF response
<1>5. /\ Only(c, request[c], "executed", q)
      /\ \/ /\ request[c].at = "waiting" /\ request[c].answer = NoAnswer
            /\ Append(inbox[c], response) \in {<<response>>, <<NegativeResponse, response>>}
         \/ request[c].at = "answered" /\ request[c].answer = Error(502)
  <2>1. /\ Only(c, request[c], "executed", With(c, response))
        /\ \/ /\ request[c].at = "waiting" /\ request[c].answer = NoAnswer
              /\ Append(inbox[c], response) \in {<<response>>, <<NegativeResponse, response>>}
           \/ request[c].at = "answered" /\ request[c].answer = Error(502)
    BY <1>1, ExecuteMove
  <2>. QED BY <2>1 DEF With
<1> HIDE DEF q
<1>6. Calls[c] = Abstract(request[c], ecu[c], inbox[c])
      /\ Calls' = [Calls EXCEPT ![c] = Abstract(request[c], "executed", q)]
  BY <1>5, CallMoves
<1>7. ecu[c] # "executed" /\ Asked(request[c])
  BY <1>1, <1>4, <1>5, AskedService DEF InEcu
<1>8. CASE request[c].at = "waiting"
  <2>1. request[c].answer = NoAnswer
    BY <1>5, <1>8
  <2>2. q \in {<<response>>, <<NegativeResponse, response>>}
    BY <1>5, <1>8 DEF q
  <2>3. q[Len(q)] = response
    <3>1. CASE q = <<response>>
      BY <3>1
    <3>2. CASE q = <<NegativeResponse, response>>
      <4>1. Len(<<NegativeResponse, response>>) = 2
        OBVIOUS
      <4>. QED BY <3>2, <4>1
    <3>. QED BY <2>2, <3>1, <3>2
  <2>4. Abstract(request[c], ecu[c], inbox[c]) = Call("called", op, <<>>, <<>>)
    BY <1>7, <1>8, <2>1, Stages
  <2>5. Abstract(request[c], "executed", q) = Call("acted", op, Reported(op), Read(op))
    BY <1>4, <1>7, <1>8, <2>3, Stages
  <2>. QED BY <1>2, <1>6, <2>4, <2>5, ServiceActions, OfService
<1>9. CASE request[c].at = "answered"
  <2>1. request[c].answer = Error(502)
    BY <1>5, <1>9
  <2>2. Abstract(request[c], ecu[c], inbox[c]) = Call("unknown", op, <<>>, <<>>)
    BY <1>7, <1>9, <2>1, Stages
  <2>3. Abstract(request[c], "executed", q) = Call("over", op, <<>>, <<>>)
    BY <1>7, <1>9, <2>1, Stages
  <2>. QED BY <1>2, <1>6, <2>2, <2>3, ServiceActions, OfService
<1>. QED BY <1>5, <1>8, <1>9

LEMMA StepServes ==
    ASSUME SovdInv, CallerAssumption, TypeOK, [SovdNext]_sovdVars PROVE Serves
<1>1. CASE EcuMoves
  <2>1. request' = request /\ ecu' = ecu /\ inbox' = inbox /\ Step
    BY <1>1 DEF EcuMoves, client, link
  <2>2. Calls' = Calls
    BY <2>1, CallNow, CallNext DEF Calls
  <2>3. Service!EcuMoves
    BY <2>1, <2>2, SameMemory DEF Service!EcuMoves, Calls
  <2>. QED BY <2>3 DEF Serves, Service!ServiceNext
<1>2. ASSUME NEW r \in Requests, NEW op \in Operations, Reject(r, op) \/ Receive(r, op)
      PROVE  Serves
  <2>1. r \in Callers
    BY DEF Callers
  <2>2. CASE Reject(r, op)
    <3>1. Start(r, op, "answered", Error(404))
      BY <2>2 DEF Reject
    <3>. QED BY <2>1, <3>1, StartServes
  <2>3. CASE Receive(r, op)
    <3>1. Start(r, op, "connecting", NoAnswer)
      BY <2>3 DEF Receive
    <3>. QED BY <2>1, <3>1, StartServes
  <2>. QED BY <1>2, <2>2, <2>3
<1>3. ASSUME NEW r \in Requests, DescribeCatalog(r) \/ CurrentFaults(r) PROVE Serves
  BY <1>3, CatalogServes
<1>4. ASSUME NEW p \in Polls, StartPoll(p) PROVE Serves
  <2>1. p \in Callers /\ PollFaults \in Operations
    BY CallerAssumption DEF Callers
  <2>2. Start(p, PollFaults, "connecting", NoAnswer)
    BY <1>4 DEF StartPoll
  <2>. QED BY <2>1, <2>2, StartServes
<1>5. ASSUME NEW c \in Callers, Proceed(c) PROVE Serves
  <2>1. ConnectFails(c) \/ GiveUp(c) => Serves
    BY UnknownServes DEF ConnectFails, GiveUp, Raised
  <2>. QED BY <1>5, <2>1, SendServes, ReceiveServes DEF Proceed
<1>6. ASSUME NEW c \in Callers, EcuServes(c) PROVE Serves
  BY <1>6, ExecuteServes, EcuServesOthers DEF EcuServes
<1>7. CASE UNCHANGED sovdVars
  <2>1. request' = request /\ ecu' = ecu /\ inbox' = inbox /\ vars' = vars
    BY <1>7 DEF sovdVars, client, link
  <2>2. Calls' = Calls
    BY <2>1, CallNow, CallNext DEF Calls
  <2>. QED BY <2>1, <2>2 DEF Serves, Service!serviceVars, Service!vars, vars, Calls
<1>. QED BY <1>1, <1>2, <1>3, <1>4, <1>5, <1>6, <1>7 DEF SovdNext

(* In spite of connections, response pending, late answers, timeouts and   *)
(* polls: a request acts at most once; if it is answered with 200, it has  *)
(* acted between the call and the answer, and reports what the ECU said    *)
(* then; a refused one never acts.                                         *)
THEOREM EndpointsKeepPromise == SovdSpec => ImplementsService
<1>1. SovdInit => Service!ServiceInit
  <2> SUFFICES ASSUME SovdInit PROVE Service!ServiceInit
    OBVIOUS
  <2>1. \A c \in Callers : request[c] = Nothing
    BY DEF SovdInit
  <2>2. \A c \in Callers : CallOf(c) = Service!NoCall
    BY <2>1 DEF CallOf, AsksEcu, Nothing, Service!NoCall, Service!Progress,
                ReadFaults, Service!ReadFaults
  <2>. QED BY <2>2, SameMemory DEF SovdInit, Service!ServiceInit
<1>2. TypeOK /\ SovdInv /\ [SovdNext]_sovdVars => [Service!ServiceNext]_(Service!serviceVars)
  BY StepServes, CallerAssumption DEF Serves
<1>3. SovdSpec => []TypeOK
  BY EcuIsDtcMemory, TypeCorrect
<1>. QED BY <1>1, <1>2, <1>3, SovdInvariant, PTL
         DEF SovdSpec, ImplementsService, Service!ServiceSpec
=============================================================================
