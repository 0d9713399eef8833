--------------------------- MODULE SovdCdaProofs ---------------------------
(***************************************************************************)
(* Proofs about the poller and its histories, for any data identifiers,    *)
(* any capacity of the histories and any number of polls and requests.     *)
(***************************************************************************)
EXTENDS SovdCda, SequenceTheorems, TLAPS

Response == [of : Dids \cup {"faults"}, asked : 1 .. MaxPolls, positive : BOOLEAN]

(* The answers to requests of the current poll.                            *)
Fresh == {answer \in Response : answer.asked = ts}

(* Readings of the first n polls, each asked for in its own poll.          *)
Past(n) == {reading \in Reading : reading.asked = reading.time /\ reading.time <= n}

Chronological(history) ==
    \A i, j \in DOMAIN history : i < j => history[i].time < history[j].time

(* A history the first n polls may have left.                              *)
Good(history, n) ==
    /\ history \in Seq(Past(n))
    /\ Len(history) <= MAX_HISTORY
    /\ Chronological(history)

(* The poll has not come to this data identifier.                          *)
Open(did) ==
    /\ step \in {"poll", "record"}
    /\ \E k \in pos .. Len(POLL_DIDS) : POLL_DIDS[k] = did

Poller ==
    /\ ts \in 0 .. MaxPolls /\ (step # "sleeping" => ts # 0)
    /\ step \in Steps /\ pos \in 1 .. Len(POLL_DIDS)
    /\ inbox \in Seq(Response)
    /\ step # "sleeping" => inbox \in Seq(Fresh)
    /\ IF step = "record"
       THEN /\ value \in [of : Dids, asked : {ts}]
            /\ POLL_DIDS[pos] \in DOMAIN sensor_history
       ELSE value = NoValue

(* What is behind the poll is no older than the poll, what is before it is *)
(* older.                                                                  *)
Recorded ==
    /\ DOMAIN sensor_history \subseteq Dids
    /\ \A did \in DOMAIN sensor_history :
          Good(sensor_history[did], IF Open(did) THEN ts - 1 ELSE ts)
    /\ Good(fault_history, IF step = "sleeping" THEN ts ELSE ts - 1)

Asked(r) ==
    /\ r = [at |-> r.at, did |-> r.did, started |-> r.started, read |-> r.read]
    /\ r.at \in {"idle", "history", "current", "latest", "answered", "RuntimeError"}
    /\ r.at \in {"current", "latest"} => r.read \subseteq r.started

Served ==
    /\ DOMAIN request = Requests
    /\ \A r \in Requests : Asked(request[r])

(* A deque a request has found not to be empty stays so.                   *)
Latest ==
    \A r \in Requests : request[r].at = "latest" =>
        request[r].did \in DOMAIN sensor_history /\ sensor_history[request[r].did] # <<>>

Inv == Poller /\ Recorded /\ Served /\ Latest

-----------------------------------------------------------------------------
(* Histories.                                                              *)

LEMMA PastGrows ==
    ASSUME NEW n \in Int, NEW m \in Int, n <= m, NEW history, Good(history, n)
    PROVE  Good(history, m)
<1>1. Past(n) \subseteq Past(m)
  BY DEF Past, Reading
<1>. QED BY <1>1 DEF Good

LEMMA Positions ==
    ASSUME NEW old \in Nat, NEW k \in Nat, NEW len \in Nat, len = old - k + 1,
           NEW i \in 1 .. len, NEW j \in 1 .. len, i < j
    PROVE  /\ i \in 1 .. (old - k) /\ i + k \in 1 .. old /\ i + k < j + k
           /\ j # len => j \in 1 .. (old - k) /\ j + k \in 1 .. old
  OBVIOUS

(* Appending the reading of the next poll, with or without dropping the    *)
(* oldest one.                                                             *)
LEMMA AppendedGood ==
    ASSUME NEW n \in Int, NEW history, Good(history, n - 1),
           NEW reading \in Past(n), reading.time = n
    PROVE  /\ Good(Appended(history, reading), n) /\ Appended(history, reading) # <<>>
           /\ \A i \in DOMAIN Appended(history, reading) :
                 \/ Appended(history, reading)[i] = reading
                 \/ \E j \in DOMAIN history : Appended(history, reading)[i] = history[j]
<1> DEFINE new == Appended(history, reading)
<1>1. history \in Seq(Past(n)) /\ Len(history) \in Nat /\ Len(history) <= MAX_HISTORY
  BY PastGrows DEF Good
<1>2. \A i \in 1 .. Len(history) : history[i].time <= n - 1 /\ history[i].time \in Int
  <2>1. \A i \in 1 .. Len(history) : history[i] \in Past(n - 1)
    BY DEF Good
  <2>. QED BY <2>1 DEF Past, Reading
<1>3. PICK k \in {0, 1} :
        /\ Len(history) >= k
        /\ new \in Seq(Past(n))
        /\ Len(new) = Len(history) - k + 1 /\ Len(new) <= MAX_HISTORY
        /\ \A i \in 1 .. (Len(history) - k) : new[i] = history[i + k]
        /\ new[Len(new)] = reading
  <2>1. CASE Len(history) < MAX_HISTORY
    <3>1. new = Append(history, reading)
      BY <2>1 DEF Appended
    <3> HIDE DEF new
    <3>2. /\ new \in Seq(Past(n)) /\ Len(new) = Len(history) + 1
          /\ \A i \in 1 .. Len(history) : new[i] = history[i]
          /\ new[Len(history) + 1] = reading
      BY <1>1, <3>1, AppendProperties
    <3>. QED BY <1>1, <2>1, <3>2, PollAssumption
  <2>2. CASE ~(Len(history) < MAX_HISTORY)
    <3>1. new = Append(Tail(history), reading) /\ Len(history) = MAX_HISTORY /\ MAX_HISTORY > 0
      BY <1>1, <2>2, PollAssumption DEF Appended
    <3> HIDE DEF new
    <3>2. history # <<>>
      BY <1>1, <3>1
    <3>3. /\ Tail(history) \in Seq(Past(n)) /\ Len(Tail(history)) = Len(history) - 1
          /\ \A i \in 1 .. (Len(history) - 1) : Tail(history)[i] = history[i + 1]
      BY <1>1, <3>2
    <3>4. /\ new \in Seq(Past(n)) /\ Len(new) = Len(Tail(history)) + 1
          /\ \A i \in 1 .. Len(Tail(history)) : new[i] = Tail(history)[i]
          /\ new[Len(Tail(history)) + 1] = reading
      BY <3>1, <3>3, AppendProperties
    <3>. QED BY <1>1, <3>1, <3>3, <3>4
  <2>. QED BY <2>1, <2>2
<1> HIDE DEF new
<1>4. DOMAIN new = 1 .. Len(new) /\ DOMAIN history = 1 .. Len(history)
  BY <1>1, <1>3
<1>5. \A i \in DOMAIN new : new[i] = reading \/ \E j \in DOMAIN history : new[i] = history[j]
  <2>1. \A i \in 1 .. (Len(history) - k) : i + k \in 1 .. Len(history)
    BY <1>1, <1>3
  <2>2. \A i \in DOMAIN new : i \in 1 .. (Len(history) - k) \/ i = Len(new)
    BY <1>1, <1>3, <1>4
  <2>. QED BY <1>3, <1>4, <2>1, <2>2
<1>6. Chronological(new)
  <2> SUFFICES ASSUME NEW i \in DOMAIN new, NEW j \in DOMAIN new, i < j
               PROVE  new[i].time < new[j].time
    BY DEF Chronological
  <2> DEFINE old == Len(history)
  <2>1. /\ old \in Nat /\ k \in Nat /\ old >= k /\ Len(new) = old - k + 1
        /\ i \in 1 .. Len(new) /\ j \in 1 .. Len(new)
        /\ \A x \in 1 .. (old - k) : new[x] = history[x + k]
    BY <1>1, <1>3, <1>4
  <2> HIDE DEF old
  <2>2. /\ i \in 1 .. (old - k) /\ i + k \in 1 .. old /\ i + k < j + k
        /\ j # Len(new) => j \in 1 .. (old - k) /\ j + k \in 1 .. old
    <3>1. Len(new) \in Nat
      BY <1>3
    <3>. QED BY <2>1, <3>1, Positions
  <2>3. i \in 1 .. (old - k) /\ i + k \in 1 .. Len(history) /\ new[i] = history[i + k]
    BY <2>1, <2>2 DEF old
  <2>4. CASE j = Len(new)
    BY <1>2, <1>3, <2>3, <2>4
  <2>5. CASE j # Len(new)
    <3>1. j + k \in 1 .. Len(history) /\ new[j] = history[j + k] /\ i + k < j + k
      BY <2>1, <2>2, <2>5 DEF old
    <3>. QED BY <1>4, <2>3, <3>1 DEF Good, Chronological
  <2>. QED BY <2>4, <2>5
<1>7. new # <<>>
  BY <1>1, <1>3
<1>. QED BY <1>3, <1>5, <1>6, <1>7 DEF Good, new

-----------------------------------------------------------------------------
(* Answers.                                                                *)

LEMMA FreshIsResponse == Fresh \subseteq Response
  BY DEF Fresh

LEMMA ShortSequences ==
    ASSUME NEW S, NEW a \in S, NEW b \in S
    PROVE  /\ <<>> \in Seq(S) /\ <<a>> \in Seq(S) /\ <<b>> \in Seq(S)
           /\ <<a, b>> \in Seq(S)
<1>1. <<a>> \in Seq(S) /\ <<b>> \in Seq(S)
  OBVIOUS
<1>2. <<a, b>> \in Seq(S)
  OBVIOUS
<1>. QED BY <1>1, <1>2, EmptySeq

(* What can come in is among what is late and what may be answered.        *)
LEMMA IncomingIn ==
    ASSUME NEW S, inbox \in Seq(S), NEW to,
           \A ok \in BOOLEAN : [of |-> to, asked |-> ts, positive |-> ok] \in S,
           NEW incoming \in Incoming(to)
    PROVE  /\ incoming \in Seq(S)
           /\ incoming # <<>> => Head(incoming) \in S /\ Tail(incoming) \in Seq(S)
<1>1. PICK late \in {inbox, <<>>}, answers \in Answers(to) : incoming = late \o answers
  BY DEF Incoming
<1>2. late \in Seq(S)
  BY EmptySeq
<1> DEFINE answer(ok) == [of |-> to, asked |-> ts, positive |-> ok]
<1>3. answers \in Seq(S)
  <2>1. answer(TRUE) \in S /\ answer(FALSE) \in S
    OBVIOUS
  <2>2. answers \in {<<>>, <<answer(TRUE)>>, <<answer(FALSE)>>, <<answer(FALSE), answer(TRUE)>>}
    BY <1>1 DEF Answers
  <2> HIDE DEF answer
  <2>. QED BY <2>1, <2>2, ShortSequences
<1>4. incoming \in Seq(S)
  BY <1>1, <1>2, <1>3, ConcatProperties
<1>5. incoming # <<>> => Head(incoming) \in S /\ Tail(incoming) \in Seq(S)
  BY <1>4, HeadTailProperties
<1>. QED BY <1>4, <1>5

(* What can come in during a poll answers a request of that poll.          *)
LEMMA IncomingFresh ==
    ASSUME NEW to \in Dids \cup {"faults"}, inbox \in Seq(Fresh), ts \in 1 .. MaxPolls,
           NEW incoming \in Incoming(to)
    PROVE  /\ incoming \in Seq(Fresh) /\ incoming \in Seq(Response)
           /\ incoming # <<>> => /\ Head(incoming) \in Fresh
                                /\ Tail(incoming) \in Seq(Fresh) /\ Tail(incoming) \in Seq(Response)
<1>1. \A ok \in BOOLEAN : [of |-> to, asked |-> ts, positive |-> ok] \in Fresh
  BY DEF Fresh, Response
<1>5. /\ incoming \in Seq(Fresh)
      /\ incoming # <<>> => Head(incoming) \in Fresh /\ Tail(incoming) \in Seq(Fresh)
  BY <1>1, IncomingIn
<1>6. incoming \in Seq(Response)
  BY <1>5, FreshIsResponse, SeqMonotonic
<1>7. ASSUME incoming # <<>>
      PROVE  Head(incoming) \in Fresh /\ Tail(incoming) \in Seq(Fresh) /\ Tail(incoming) \in Seq(Response)
  <2>1. Head(incoming) \in Fresh /\ Tail(incoming) \in Seq(Fresh)
    BY <1>5, <1>7
  <2>2. Tail(incoming) \in Seq(Response)
    BY <2>1, FreshIsResponse, SeqMonotonic
  <2>. QED BY <2>1, <2>2
<1>. QED BY <1>5, <1>6, <1>7

LEMMA ReceivedFresh ==
    ASSUME NEW to \in Dids \cup {"faults"}, inbox \in Seq(Fresh), ts \in 1 .. MaxPolls,
           NEW answer, Received(to, answer)
    PROVE  answer \in Fresh /\ inbox' \in Seq(Fresh) /\ inbox' \in Seq(Response)
<1>1. PICK incoming \in Incoming(to) :
          incoming # <<>> /\ answer = Head(incoming) /\ inbox' = Tail(incoming)
  BY DEF Received
<1>. QED BY <1>1, IncomingFresh

LEMMA NothingReceivedFresh ==
    ASSUME NEW to \in Dids \cup {"faults"}, inbox \in Seq(Fresh), ts \in 1 .. MaxPolls,
           NothingReceived(to)
    PROVE  inbox' \in Seq(Fresh) /\ inbox' \in Seq(Response)
  BY IncomingFresh DEF NothingReceived

-----------------------------------------------------------------------------
(* The steps of the poller.                                                *)

LEMMA Positioned ==
    ASSUME Poller
    PROVE  /\ Len(POLL_DIDS) \in Nat /\ pos \in Nat /\ ts \in Int
           /\ POLL_DIDS[pos] \in Dids /\ POLL_DIDS[pos] # "faults"
           /\ step # "sleeping" => ts \in 1 .. MaxPolls
<1>1. Len(POLL_DIDS) \in Nat
  BY PollAssumption
<1>. QED BY <1>1, PollAssumption DEF Poller, Dids

(* After the data identifier at pos the others are open as before.         *)
LEMMA Advanced ==
    ASSUME Poller, step \in {"poll", "record"}, AfterDid
    PROVE  /\ step' \in {"poll", "faults"} /\ pos' \in 1 .. Len(POLL_DIDS)
           /\ \A did : Open(did)' => Open(did) /\ did # POLL_DIDS[pos]
<1>1. Len(POLL_DIDS) \in Nat /\ pos \in 1 .. Len(POLL_DIDS)
  BY Positioned DEF Poller
<1>2. step' \in {"poll", "faults"} /\ pos' \in 1 .. Len(POLL_DIDS)
  BY <1>1 DEF AfterDid
<1>3. ASSUME NEW did, Open(did)' PROVE Open(did) /\ did # POLL_DIDS[pos]
  <2>1. PICK k \in pos' .. Len(POLL_DIDS) : POLL_DIDS[k] = did
    BY <1>3 DEF Open
  <2>2. pos' = pos + 1
    BY <1>2, <1>3 DEF AfterDid, Open
  <2>3. k \in pos .. Len(POLL_DIDS) /\ k \in 1 .. Len(POLL_DIDS) /\ k # pos
    BY <1>1, <2>1, <2>2
  <2>. QED BY <1>1, <2>1, <2>3, PollAssumption DEF Open
<1>. QED BY <1>2, <1>3

(* A history stays good when its data identifier is closed.                *)
LEMMA Closed ==
    ASSUME Poller, Recorded, ts' = ts, NEW did \in DOMAIN sensor_history, Open(did)' => Open(did)
    PROVE  Good(sensor_history[did], IF Open(did)' THEN ts - 1 ELSE ts)
<1>1. ts \in Int /\ ts - 1 \in Int /\ ts - 1 <= ts
  BY Positioned
<1>2. Good(sensor_history[did], IF Open(did) THEN ts - 1 ELSE ts)
  BY DEF Recorded
<1>. QED BY <1>1, <1>2, PastGrows

LEMMA EmptyGood == \A n \in Int : Good(<<>>, n)
<1>1. \A n \in Int : <<>> \in Seq(Past(n))
  BY EmptySeq
<1>. QED BY <1>1, PollAssumption DEF Good, Chronological

LEMMA InitInv == Init => Inv
<1> SUFFICES ASSUME Init PROVE Inv
  OBVIOUS
<1> USE DEF Init
<1>1. Poller
  <2>1. Len(POLL_DIDS) \in Nat /\ Len(POLL_DIDS) > 0 /\ MaxPolls \in Nat
    BY PollAssumption
  <2>2. inbox \in Seq(Response)
    BY EmptySeq
  <2>. QED BY <2>1, <2>2 DEF Poller, Steps
<1>2. Recorded
  <2>1. Good(fault_history, 0)
    BY EmptyGood
  <2>2. DOMAIN sensor_history = {}
    OBVIOUS
  <2>. QED BY <2>1, <2>2 DEF Recorded
<1>3. Served /\ Latest
  BY DEF Served, Asked, Ended, Iteration, Latest
<1>. QED BY <1>1, <1>2, <1>3 DEF Inv

LEMMA ConnectFailsInv == Inv /\ ConnectFails => Inv'
<1> SUFFICES ASSUME Inv, ConnectFails PROVE Inv'
  OBVIOUS
<1>1. Poller /\ Recorded /\ Served /\ Latest
  BY DEF Inv
<1>2. ts \in Int /\ ts + 1 \in Int /\ ts <= ts + 1 /\ ts' = ts + 1 /\ ts' \in 0 .. MaxPolls
  BY <1>1, PollAssumption DEF ConnectFails, Poller
<1>3. Poller'
  BY <1>1, <1>2 DEF ConnectFails, Poller
<1>4. Recorded'
  <2>1. \A did : ~Open(did) /\ ~Open(did)'
    BY DEF ConnectFails, Open
  <2>2. \A did \in DOMAIN sensor_history : Good(sensor_history[did], ts + 1)
    BY <1>1, <1>2, <2>1, PastGrows DEF Recorded
  <2>3. Good(fault_history, ts + 1)
    BY <1>1, <1>2, PastGrows DEF Recorded, ConnectFails
  <2>. QED BY <1>1, <1>2, <2>1, <2>2, <2>3 DEF Recorded, ConnectFails
<1>5. Served' /\ Latest'
  BY <1>1 DEF Served, Latest, ConnectFails
<1>. QED BY <1>3, <1>4, <1>5 DEF Inv

LEMMA ConnectInv == Inv /\ Connect => Inv'
<1> SUFFICES ASSUME Inv, Connect PROVE Inv'
  OBVIOUS
<1>1. Poller /\ Recorded /\ Served /\ Latest
  BY DEF Inv
<1>2. /\ ts \in Int /\ ts + 1 \in Int /\ ts <= ts + 1 /\ (ts + 1) - 1 = ts
      /\ ts' = ts + 1 /\ ts' \in 0 .. MaxPolls /\ ts' # 0
  BY <1>1, PollAssumption DEF Connect, Poller
<1>3. Poller'
  <2>1. 1 \in 1 .. Len(POLL_DIDS)
    BY PollAssumption
  <2>2. inbox' = <<>>
    BY DEF Connect, NewInbox
  <2>3. inbox' \in Seq(Response) /\ inbox' \in Seq(Fresh')
    BY <2>2, EmptySeq
  <2>. QED BY <1>1, <1>2, <2>1, <2>3 DEF Connect, Poller, Steps
<1>4. Recorded'
  <2>1. \A did : ~Open(did)
    BY DEF Connect, Open
  <2>2. \A did \in DOMAIN sensor_history :
            Good(sensor_history[did], ts) /\ Good(sensor_history[did], ts + 1)
    BY <1>1, <1>2, <2>1, PastGrows DEF Recorded
  <2>3. Good(fault_history, ts)
    BY <1>1 DEF Recorded, Connect
  <2>4. \A did \in DOMAIN sensor_history' :
            Good(sensor_history'[did], IF Open(did)' THEN ts' - 1 ELSE ts')
    BY <1>2, <2>2 DEF Connect
  <2>5. Good(fault_history', IF step' = "sleeping" THEN ts' ELSE ts' - 1)
    BY <1>2, <2>3 DEF Connect
  <2>. QED BY <1>1, <2>4, <2>5 DEF Recorded, Connect
<1>5. Served' /\ Latest'
  BY <1>1 DEF Served, Latest, Connect
<1>. QED BY <1>3, <1>4, <1>5 DEF Inv

(* What a step to the next data identifier keeps of the poller.            *)
LEMMA AdvancedPoller ==
    ASSUME Poller, step \in {"poll", "record"}, AfterDid, ts' = ts, value' = NoValue,
           inbox' \in Seq(Fresh)
    PROVE  Poller'
<1>1. ts \in 1 .. MaxPolls
  BY Positioned
<1>2. step' \in {"poll", "faults"} /\ pos' \in 1 .. Len(POLL_DIDS)
  BY Advanced
<1>3. inbox' \in Seq(Response) /\ Fresh' = Fresh
  BY FreshIsResponse, SeqMonotonic DEF Fresh
<1>. QED BY <1>1, <1>2, <1>3, PollAssumption DEF Poller, Steps

LEMMA PollDidFailsInv == Inv /\ PollDidFails => Inv'
<1> SUFFICES ASSUME Inv, PollDidFails PROVE Inv'
  OBVIOUS
<1>1. Poller /\ Recorded /\ Served /\ Latest
  BY DEF Inv
<1>2. step = "poll" /\ AfterDid /\ ts' = ts
  BY DEF PollDidFails, AfterFailure
<1>3. /\ POLL_DIDS[pos] \in Dids \cup {"faults"} /\ ts \in 1 .. MaxPolls
      /\ inbox \in Seq(Fresh) /\ value = NoValue
  BY <1>1, <1>2, Positioned DEF Poller
<1>4. inbox' \in Seq(Fresh)
  BY <1>3, NothingReceivedFresh, ReceivedFresh DEF PollDidFails
<1>5. Poller'
  BY <1>1, <1>2, <1>3, <1>4, AdvancedPoller DEF PollDidFails
<1>6. Recorded'
  <2>1. \A did : Open(did)' => Open(did)
    BY <1>1, <1>2, Advanced
  <2>2. \A did \in DOMAIN sensor_history : Good(sensor_history[did], IF Open(did)' THEN ts - 1 ELSE ts)
    BY <1>1, <1>2, <2>1, Closed
  <2>3. step' # "sleeping"
    BY <1>1, <1>2, Advanced
  <2>4. Good(fault_history, ts - 1)
    BY <1>1, <1>2 DEF Recorded
  <2>. QED BY <1>1, <1>2, <2>2, <2>3, <2>4 DEF Recorded, PollDidFails
<1>7. Served' /\ Latest'
  BY <1>1 DEF Served, Latest, PollDidFails
<1>. QED BY <1>5, <1>6, <1>7 DEF Inv

LEMMA LatestKept ==
    ASSUME Latest, request' = request, DOMAIN sensor_history \subseteq DOMAIN sensor_history',
           \A did \in DOMAIN sensor_history : sensor_history[did] # <<>> => sensor_history'[did] # <<>>
    PROVE  Latest'
  BY DEF Latest

LEMMA FreshReading ==
    ASSUME NEW answer, answer.of \in Dids \cup {"faults"}, answer.asked = ts, ts \in 1 .. MaxPolls
    PROVE  /\ ReadingOf(answer) \in Past(ts) /\ ReadingOf(answer).time = ts
           /\ ReadingOf(answer).of = answer.of
<1>1. ReadingOf(answer) = [time |-> ts, of |-> answer.of, asked |-> answer.asked]
  BY DEF ReadingOf
<1>. QED BY <1>1 DEF Past, Reading

(* The history of the data identifier at pos gets the reading of this      *)
(* poll; the others stay as they are.                                      *)
LEMMA AppendedRecorded ==
    ASSUME Poller, Recorded, Latest, step \in {"poll", "record"}, AfterDid, ts' = ts,
           POLL_DIDS[pos] \in DOMAIN sensor_history,
           NEW reading \in Past(ts), reading.time = ts,
           sensor_history' = [sensor_history EXCEPT ![POLL_DIDS[pos]] = Appended(@, reading)],
           fault_history' = fault_history, request' = request
    PROVE  Recorded' /\ Latest'
<1> DEFINE this == POLL_DIDS[pos]
<1>1. /\ ts \in Int
      /\ \A did : Open(did)' => Open(did) /\ did # this
  BY Positioned, Advanced
<1>2. Open(this)
  <2>1. pos \in pos .. Len(POLL_DIDS)
    BY Positioned DEF Poller
  <2>. QED BY <2>1 DEF Open
<1>3. Good(sensor_history[this], ts - 1)
  BY <1>2 DEF Recorded
<1>4. Good(Appended(sensor_history[this], reading), ts) /\ Appended(sensor_history[this], reading) # <<>>
  BY <1>1, <1>3, AppendedGood
<1>5. \A did \in DOMAIN sensor_history : Good(sensor_history[did], IF Open(did)' THEN ts - 1 ELSE ts)
  BY <1>1, Closed
<1>6. \A did \in DOMAIN sensor_history :
         sensor_history'[did] = IF did = this THEN Appended(sensor_history[this], reading)
                                ELSE sensor_history[did]
  OBVIOUS
<1>7. \A did \in DOMAIN sensor_history' : Good(sensor_history'[did], IF Open(did)' THEN ts' - 1 ELSE ts')
  BY <1>1, <1>4, <1>5, <1>6
<1>8. Good(fault_history', ts' - 1) /\ step' # "sleeping"
  BY Advanced DEF Recorded
<1>9. DOMAIN sensor_history' \subseteq Dids
  BY DEF Recorded
<1>10. Latest'
  BY <1>4, <1>6, LatestKept
<1>. QED BY <1>7, <1>8, <1>9, <1>10 DEF Recorded

LEMMA PollDidInv == Inv /\ PollDid => Inv'
<1> SUFFICES ASSUME Inv, PollDid PROVE Inv'
  OBVIOUS
<1> DEFINE this == POLL_DIDS[pos]
<1>1. Poller /\ Recorded /\ Served /\ Latest
  BY DEF Inv
<1>2. step = "poll" /\ ts' = ts
  BY DEF PollDid
<1>3. /\ this \in Dids /\ this \in Dids \cup {"faults"} /\ ts \in 1 .. MaxPolls
      /\ inbox \in Seq(Fresh) /\ value = NoValue /\ pos \in 1 .. Len(POLL_DIDS)
  BY <1>1, <1>2, Positioned DEF Poller
<1>4. PICK answer \in Responses :
         /\ answer.positive /\ answer.of \in Dids /\ Received(this, answer)
         /\ \/ /\ this \in DOMAIN sensor_history
               /\ sensor_history' = [sensor_history EXCEPT ![this] = Appended(@, ReadingOf(answer))]
               /\ AfterDid
               /\ UNCHANGED value
            \/ /\ this \notin DOMAIN sensor_history
               /\ sensor_history' = WithNewDeque(this)
               /\ step' = "record"
               /\ value' = [of |-> answer.of, asked |-> answer.asked]
               /\ UNCHANGED pos
  BY DEF PollDid
<1>5. answer \in Fresh /\ inbox' \in Seq(Fresh) /\ inbox' \in Seq(Response)
  BY <1>3, <1>4, ReceivedFresh
<1>6. answer.asked = ts /\ answer.of \in Dids
  BY <1>4, <1>5 DEF Fresh
<1>7. Served' /\ fault_history' = fault_history /\ request' = request
  BY <1>1 DEF Served, PollDid
<1>8. CASE this \in DOMAIN sensor_history
  <2>1. /\ AfterDid /\ value' = NoValue
        /\ sensor_history' = [sensor_history EXCEPT ![this] = Appended(@, ReadingOf(answer))]
    BY <1>3, <1>4, <1>8
  <2>2. Poller'
    BY <1>1, <1>2, <1>5, <2>1, AdvancedPoller
  <2>3. ReadingOf(answer) \in Past(ts) /\ ReadingOf(answer).time = ts
    BY <1>3, <1>6, FreshReading
  <2>4. Recorded' /\ Latest'
    BY <1>1, <1>2, <1>7, <1>8, <2>1, <2>3, AppendedRecorded
  <2>. QED BY <1>7, <2>2, <2>4 DEF Inv
<1>9. CASE this \notin DOMAIN sensor_history
  <2>1. /\ sensor_history' = WithNewDeque(this) /\ step' = "record" /\ pos' = pos
        /\ value' = [of |-> answer.of, asked |-> answer.asked]
    BY <1>4, <1>9
  <2>2. /\ DOMAIN sensor_history' = DOMAIN sensor_history \cup {this}
        /\ \A did \in DOMAIN sensor_history : sensor_history'[did] = sensor_history[did]
        /\ sensor_history'[this] = <<>>
    BY <1>9, <2>1 DEF WithNewDeque
  <2>3. Poller'
    <3>1. value' \in [of : Dids, asked : {ts'}]
      BY <1>2, <1>6, <2>1
    <3>2. Fresh' = Fresh
      BY <1>2 DEF Fresh
    <3>. QED BY <1>1, <1>2, <1>3, <1>5, <2>1, <2>2, <3>1, <3>2 DEF Poller, Steps
  <2>4. Recorded'
    <3>1. \A did : Open(did)' <=> Open(did)
      BY <1>2, <2>1 DEF Open
    <3>2. ts \in Int /\ ts - 1 \in Int
      BY <1>3
    <3>3. \A did \in DOMAIN sensor_history : Good(sensor_history[did], IF Open(did)' THEN ts - 1 ELSE ts)
      BY <1>1, <3>1 DEF Recorded
    <3>4. \A did \in DOMAIN sensor_history' : Good(sensor_history'[did], IF Open(did)' THEN ts' - 1 ELSE ts')
      BY <1>2, <2>2, <3>2, <3>3, EmptyGood
    <3>5. Good(fault_history', ts' - 1) /\ step' # "sleeping"
      BY <1>1, <1>2, <1>7, <2>1 DEF Recorded
    <3>6. DOMAIN sensor_history' \subseteq Dids
      BY <1>1, <1>3, <1>7, <2>2 DEF Recorded
    <3>. QED BY <3>4, <3>5, <3>6 DEF Recorded
  <2>5. Latest'
    BY <1>1, <1>7, <2>2, LatestKept
  <2>. QED BY <1>7, <2>3, <2>4, <2>5 DEF Inv
<1>. QED BY <1>8, <1>9

LEMMA RecordFirstInv == Inv /\ RecordFirst => Inv'
<1> SUFFICES ASSUME Inv, RecordFirst PROVE Inv'
  OBVIOUS
<1>1. Poller /\ Recorded /\ Served /\ Latest
  BY DEF Inv
<1>2. /\ step = "record" /\ AfterDid /\ ts' = ts /\ value' = NoValue /\ inbox' = inbox
      /\ fault_history' = fault_history /\ request' = request
      /\ sensor_history' = [sensor_history EXCEPT ![POLL_DIDS[pos]] = Appended(@, ReadingOf(value))]
  BY DEF RecordFirst
<1>3. /\ value.of \in Dids \cup {"faults"} /\ value.asked = ts /\ ts \in 1 .. MaxPolls
      /\ POLL_DIDS[pos] \in DOMAIN sensor_history /\ inbox \in Seq(Fresh)
  BY <1>1, <1>2, Positioned DEF Poller
<1>4. ReadingOf(value) \in Past(ts) /\ ReadingOf(value).time = ts
  BY <1>3, FreshReading
<1>5. Poller'
  BY <1>1, <1>2, <1>3, AdvancedPoller
<1>6. Recorded' /\ Latest'
  BY <1>1, <1>2, <1>3, <1>4, AppendedRecorded
<1>7. Served'
  BY <1>1, <1>2 DEF Served
<1>. QED BY <1>5, <1>6, <1>7 DEF Inv

LEMMA PollFaultsInv == Inv /\ PollFaults => Inv'
<1> SUFFICES ASSUME Inv, PollFaults PROVE Inv'
  OBVIOUS
<1>1. Poller /\ Recorded /\ Served /\ Latest
  BY DEF Inv
<1>2. step = "faults" /\ step' = "sleeping" /\ UNCHANGED <<ts, pos, value, sensor_history, request>>
  BY DEF PollFaults
<1>3. ts \in 1 .. MaxPolls /\ inbox \in Seq(Fresh) /\ value = NoValue
  BY <1>1, <1>2, Positioned DEF Poller
<1>4. Good(fault_history, ts - 1) /\ Good(fault_history, ts)
  <2>1. Good(fault_history, ts - 1)
    BY <1>1, <1>2 DEF Recorded
  <2>. QED BY <1>3, <2>1, PastGrows
<1> DEFINE Kept == inbox' \in Seq(Response) /\ Good(fault_history', ts)
<1>5. Kept
  <2>1. CASE NothingReceived("faults") /\ UNCHANGED fault_history
    BY <1>1, <1>3, <1>4, <2>1, NothingReceivedFresh DEF Recorded
  <2>2. ASSUME NEW answer \in Responses, Received("faults", answer),
               fault_history' = IF IsFaultResponse(answer)
                                THEN Appended(fault_history, ReadingOf(answer))
                                ELSE fault_history
        PROVE  Kept
    <3>1. answer \in Fresh /\ inbox' \in Seq(Response)
      BY <1>3, <2>2, ReceivedFresh
    <3>2. CASE ~IsFaultResponse(answer)
      BY <1>1, <1>4, <2>2, <3>1, <3>2 DEF Recorded
    <3>3. CASE IsFaultResponse(answer)
      <4> DEFINE reading == ReadingOf(answer)
      <4>1. answer.asked = ts /\ answer.of \in Dids \cup {"faults"}
        BY <3>1 DEF Fresh, Response
      <4>2. reading \in Past(ts) /\ reading.time = ts
        BY <1>3, <4>1, FreshReading
      <4>3. fault_history' = Appended(fault_history, reading)
        BY <2>2, <3>3
      <4> HIDE DEF reading
      <4>4. Good(Appended(fault_history, reading), ts)
        <5>1. ts \in Int
          BY <1>3
        <5>. QED BY <1>4, <4>2, <5>1, AppendedGood
      <4>. QED BY <3>1, <4>3, <4>4
    <3>. QED BY <3>2, <3>3
  <2> HIDE DEF Kept
  <2>. QED BY <2>1, <2>2 DEF PollFaults
<1>6. Poller'
  BY <1>1, <1>2, <1>3, <1>5 DEF Poller, Steps
<1>7. Recorded'
  <2>1. \A did : ~Open(did) /\ ~Open(did)'
    BY <1>2 DEF Open
  <2>. QED BY <1>1, <1>2, <1>5, <2>1 DEF Recorded
<1>8. Served' /\ Latest'
  BY <1>1, <1>2 DEF Served, Latest
<1>. QED BY <1>6, <1>7, <1>8 DEF Inv

-----------------------------------------------------------------------------
(* The steps of the requests, which leave the poller and the histories     *)
(* alone.                                                                  *)

LEMMA ProgressInv ==
    ASSUME Inv, NEW r \in Requests, NEW new, Asked(new), Progress(r, new),
           new.at = "latest" => new.did \in DOMAIN sensor_history /\ sensor_history[new.did] # <<>>
    PROVE  Inv'
<1>1. /\ UNCHANGED <<ts, step, pos, inbox, value, sensor_history, fault_history>>
      /\ request' = [request EXCEPT ![r] = new]
  BY DEF Progress, poller
<1>2. Served' /\ Latest'
  BY <1>1 DEF Inv, Served, Latest
<1>3. Poller'
  BY <1>1 DEF Inv, Poller, Fresh
<1>4. Recorded'
  BY <1>1 DEF Inv, Recorded, Open
<1>. QED BY <1>2, <1>3, <1>4 DEF Inv

LEMMA Iterating ==
    ASSUME NEW at \in {"idle", "history", "current", "latest", "answered", "RuntimeError"},
           NEW did, NEW started, NEW read,
           at \in {"current", "latest"} => read \subseteq started
    PROVE  Asked(Iteration(at, did, started, read)) /\ Iteration(at, did, started, read).at = at
           /\ Iteration(at, did, started, read).did = did
  BY DEF Asked, Iteration

LEMMA ServeInv == ASSUME Inv, NEW r \in Requests, Serve(r) PROVE Inv'
<1>1. Asked(request[r])
  BY DEF Inv, Served
<1>2. ASSUME NEW how \in {"answered", "RuntimeError"}, NEW did, Progress(r, Ended(how, did))
      PROVE  Inv'
  BY <1>2, ProgressInv, Iterating DEF Ended
<1>3. ASSUME NEW at \in {"history", "current"}, NEW did, NEW started, NEW read,
             at = "current" => read \subseteq started,
             Progress(r, Iteration(at, did, started, read))
      PROVE  Inv'
  BY <1>3, ProgressInv, Iterating
<1>4. CASE \E did \in Dids \cup {"faults"} : StartHistory(r, did)
  BY <1>3, <1>4 DEF StartHistory
<1>5. CASE NextOfHistory(r)
  BY <1>2, <1>3, <1>5 DEF NextOfHistory
<1>6. CASE StartCurrent(r)
  BY <1>3, <1>6 DEF StartCurrent
<1>7. CASE NextOfCurrent(r)
  <2>1. ASSUME DOMAIN sensor_history = request[r].started, request[r].at = "current",
               NEW did \in request[r].read, Progress(r, Looked(request[r], did))
        PROVE  Inv'
    <3>1. request[r].read \ {did} \subseteq request[r].started /\ did \in DOMAIN sensor_history
      BY <1>1, <2>1 DEF Asked
    <3>2. CASE HasLatest(sensor_history[did])
      <4>1. sensor_history[did] # <<>>
        BY <3>2 DEF HasLatest
      <4>2. Looked(request[r], did)
              = Iteration("latest", did, request[r].started, request[r].read \ {did})
        BY <3>2 DEF Looked
      <4>. QED BY <2>1, <3>1, <4>1, <4>2, ProgressInv, Iterating
    <3>3. CASE ~HasLatest(sensor_history[did])
      <4>1. Looked(request[r], did)
              = Iteration("current", did, request[r].started, request[r].read \ {did})
        BY <3>3 DEF Looked
      <4>. QED BY <1>3, <2>1, <3>1, <4>1
    <3>. QED BY <3>2, <3>3
  <2>. QED BY <1>2, <1>7, <2>1 DEF NextOfCurrent
<1>8. CASE TakeLatest(r)
  <2>1. sensor_history[request[r].did] # <<>> /\ request[r].read \subseteq request[r].started
    BY <1>1, <1>8 DEF Inv, Latest, TakeLatest, Asked
  <2>. QED BY <1>3, <1>8, <2>1 DEF TakeLatest
<1>. QED BY <1>4, <1>5, <1>6, <1>7, <1>8 DEF Serve

-----------------------------------------------------------------------------
(* The invariant and what follows from it.                                 *)

(* What the poller and the requests keep at every step: a history whose    *)
(* data identifier is still to come in this poll holds earlier polls only, *)
(* and the connection holds answers of this poll only.                     *)
THEOREM PollerInvariant == Spec => []Inv
<1>1. Inv /\ [Next]_vars => Inv'
  <2> SUFFICES ASSUME Inv, [Next]_vars PROVE Inv'
    OBVIOUS
  <2>1. CASE UNCHANGED vars
    <3>1. UNCHANGED <<ts, step, pos, inbox, value, sensor_history, fault_history, request>>
      BY <2>1 DEF vars, poller
    <3>2. Served' /\ Latest'
      BY <3>1 DEF Inv, Served, Latest
    <3>3. Poller'
      BY <3>1 DEF Inv, Poller, Fresh
    <3>4. Recorded'
      BY <3>1 DEF Inv, Recorded, Open
    <3>. QED BY <3>2, <3>3, <3>4 DEF Inv
  <2>2. CASE Poll
    BY <2>2, ConnectFailsInv, ConnectInv, PollDidFailsInv, PollDidInv, RecordFirstInv, PollFaultsInv
       DEF Poll
  <2>3. CASE \E r \in Requests : Serve(r)
    BY <2>3, ServeInv
  <2>. QED BY <2>1, <2>2, <2>3 DEF Next
<1>. QED BY <1>1, InitInv, PTL DEF Spec

LEMMA GoodIsDeque ==
    ASSUME NEW n \in Int, NEW history, Good(history, n)
    PROVE  /\ history \in Deque /\ DOMAIN history = 1 .. Len(history)
           /\ \A i \in DOMAIN history : history[i].asked = history[i].time
           /\ Chronological(history)
<1>1. history \in Seq(Past(n)) /\ Len(history) \in Nat /\ Len(history) <= MAX_HISTORY
  BY DEF Good
<1>2. DOMAIN history = 1 .. Len(history) /\ \A i \in 1 .. Len(history) : history[i] \in Past(n)
  BY <1>1
<1>3. history \in [1 .. Len(history) -> Reading]
  BY <1>1, <1>2 DEF Past
<1>4. Len(history) \in 0 .. MAX_HISTORY
  BY <1>1, PollAssumption
<1>. QED BY <1>2, <1>3, <1>4 DEF Deque, Past, Good

LEMMA HistoriesGood == ASSUME Inv, NEW history \in Histories PROVE \E n \in Int : Good(history, n)
<1>1. ts \in Int /\ ts - 1 \in Int
  BY Positioned DEF Inv
<1>. QED BY <1>1 DEF Inv, Recorded, Histories

(* The poller, the answers and the histories keep their types; no history  *)
(* grows beyond its capacity (deque(maxlen=MAX_HISTORY)).                  *)
THEOREM PollerTypeCorrect == Spec => []TypeOK
<1>1. Inv => TypeOK
  <2> SUFFICES ASSUME Inv PROVE TypeOK
    OBVIOUS
  <2>1. \A history \in Histories : history \in Deque
    BY HistoriesGood, GoodIsDeque
  <2>2. ts \in 0 .. MaxPolls /\ step \in Steps /\ pos \in 1 .. Len(POLL_DIDS)
    BY DEF Inv, Poller
  <2>3. \A i \in DOMAIN inbox : inbox[i] \in Response
    BY DEF Inv, Poller
  <2>4. value # NoValue <=> step = "record"
    <3>1. CASE step = "record"
      <4>1. value \in [of : Dids, asked : {ts}] /\ ts # 0
        BY <3>1 DEF Inv, Poller
      <4>. QED BY <3>1, <4>1 DEF NoValue
    <3>2. CASE step # "record"
      BY <3>2 DEF Inv, Poller
    <3>. QED BY <3>1, <3>2
  <2>5. DOMAIN sensor_history \subseteq Dids
    BY DEF Inv, Recorded
  <2>6. \A r \in Requests :
          request[r].at \in {"idle", "history", "current", "latest", "answered",
                              "RuntimeError", "IndexError"}
    BY DEF Inv, Served, Asked
  <2>. QED BY <2>1, <2>2, <2>3, <2>4, <2>5, <2>6 DEF TypeOK, Histories, Response
<1>. QED BY <1>1, PollerInvariant, PTL

(* Every graph goes forward in time, at any capacity and however the       *)
(* exchanges of the polls fail.                                            *)
THEOREM Chronology == Spec => []HistoryIsChronological
<1>1. Inv => HistoryIsChronological
  <2> SUFFICES ASSUME Inv, NEW history \in Histories PROVE Chronological(history)
    BY DEF HistoryIsChronological, Chronological
  <2>. QED BY HistoriesGood, GoodIsDeque
<1>. QED BY <1>1, PollerInvariant, PTL

(* No late answer is recorded with the time stamp of a later poll.         *)
THEOREM Freshness == Spec => []ReadingsAreFresh
<1>1. Inv => ReadingsAreFresh
  <2> SUFFICES ASSUME Inv, NEW history \in Histories, NEW i \in DOMAIN history
               PROVE  history[i].asked = history[i].time
    BY DEF ReadingsAreFresh
  <2>. QED BY HistoriesGood, GoodIsDeque
<1>. QED BY <1>1, PollerInvariant, PTL

-----------------------------------------------------------------------------
(* Late answers.  The answers that are under way while the poller is at    *)
(* pos belong to identifiers up to pos.                                    *)

UpTo(n) == {POLL_DIDS[k] : k \in 1 .. n}

Sent(n) == {answer \in Response : answer.of \in UpTo(n)}

Shown(n) == {reading \in Reading : reading.of \in UpTo(n)}

Late ==
    /\ step \in {"poll", "record"} => inbox \in Seq(Sent(pos))
    /\ step = "record" => value.of \in UpTo(pos)
    /\ \A n \in 1 .. Len(POLL_DIDS) : POLL_DIDS[n] \in DOMAIN sensor_history
          => sensor_history[POLL_DIDS[n]] \in Seq(Shown(n))

LEMMA AppendedIn ==
    ASSUME NEW S, NEW history \in Seq(S), NEW reading \in S
    PROVE  Appended(history, reading) \in Seq(S)
<1>1. CASE Len(history) < MAX_HISTORY
  BY <1>1 DEF Appended
<1>2. CASE ~(Len(history) < MAX_HISTORY)
  <2>1. history # <<>>
    BY <1>2, PollAssumption
  <2>. QED BY <1>2, <2>1 DEF Appended
<1>. QED BY <1>1, <1>2

LEMMA ReceivedSent ==
    ASSUME Poller, Late, step = "poll"
    PROVE  /\ NothingReceived(POLL_DIDS[pos]) => inbox' \in Seq(Sent(pos))
           /\ \A answer : Received(POLL_DIDS[pos], answer)
                  => answer \in Sent(pos) /\ inbox' \in Seq(Sent(pos))
<1> DEFINE to == POLL_DIDS[pos]
<1>1. \A ok \in BOOLEAN : [of |-> to, asked |-> ts, positive |-> ok] \in Sent(pos)
  <2>1. to \in Dids /\ ts \in 1 .. MaxPolls /\ pos \in 1 .. pos
    BY Positioned DEF Poller
  <2>. QED BY <2>1 DEF Sent, UpTo, Response
<1>2. inbox \in Seq(Sent(pos))
  BY DEF Late
<1>. QED BY <1>1, <1>2, IncomingIn DEF Received, NothingReceived

(* Answers under way stay answers to what has been asked.                  *)
LEMMA SentGrows ==
    ASSUME Poller, NEW messages \in Seq(Sent(pos)), pos' = pos \/ pos' = pos + 1
    PROVE  messages \in Seq(Sent(pos)')
<1>1. UpTo(pos) \subseteq UpTo(pos')
  BY Positioned DEF UpTo
<1>2. Sent(pos) \subseteq Sent(pos')
  BY <1>1 DEF Sent
<1>3. Sent(pos)' = Sent(pos')
  BY DEF Sent, UpTo, Response, Dids
<1>. QED BY <1>2, <1>3, SeqMonotonic

LEMMA AppendedLate ==
    ASSUME Poller, Late, POLL_DIDS[pos] \in DOMAIN sensor_history,
           NEW reading \in Reading, reading.of \in UpTo(pos),
           sensor_history' = [sensor_history EXCEPT ![POLL_DIDS[pos]] = Appended(@, reading)],
           NEW n \in 1 .. Len(POLL_DIDS), POLL_DIDS[n] \in DOMAIN sensor_history
    PROVE  sensor_history'[POLL_DIDS[n]] \in Seq(Shown(n))
<1>1. CASE n = pos
  <2>1. reading \in Shown(pos) /\ sensor_history[POLL_DIDS[pos]] \in Seq(Shown(pos))
    BY <1>1 DEF Shown, Late
  <2>. QED BY <1>1, <2>1, AppendedIn
<1>2. CASE n # pos
  <2>1. POLL_DIDS[n] # POLL_DIDS[pos]
    BY <1>2, PollAssumption DEF Poller
  <2>. QED BY <2>1 DEF Late
<1>. QED BY <1>1, <1>2

(* See Late. *)
LEMMA LateStep == Inv /\ Late /\ [Next]_vars => Late'
<1> SUFFICES ASSUME Inv, Late, [Next]_vars PROVE Late'
  OBVIOUS
<1> DEFINE this == POLL_DIDS[pos]
           Kept == \A n \in 1 .. Len(POLL_DIDS) : POLL_DIDS[n] \in DOMAIN sensor_history'
                      => sensor_history'[POLL_DIDS[n]] \in Seq(Shown(n))
<1>0. Poller /\ pos \in Nat
  BY Positioned DEF Inv
<1>a. ASSUME Kept, step' \notin {"poll", "record"} PROVE Late'
  BY <1>a DEF Late, Shown, UpTo, Reading, Dids
<1>b. ASSUME UNCHANGED <<step, pos, inbox, value, sensor_history>> PROVE Late'
  BY <1>b DEF Late, Sent, Shown, UpTo, Response, Reading, Dids
<1>c. ASSUME Kept, AfterDid, inbox' \in Seq(Sent(pos)) PROVE Late'
  <2>1. inbox' \in Seq(Sent(pos)') /\ step' # "record"
    BY <1>0, <1>c, SentGrows DEF AfterDid
  <2>. QED BY <1>c, <2>1 DEF Late, Shown, UpTo, Reading, Dids
<1>1. CASE UNCHANGED vars
  BY <1>b, <1>1 DEF vars, poller
<1>2. CASE ConnectFails
  BY <1>b, <1>2 DEF ConnectFails
<1>3. CASE Connect
  <2>1. inbox' = <<>> /\ step' = "poll" /\ sensor_history' = sensor_history
    BY <1>3 DEF Connect, NewInbox
  <2>2. inbox' \in Seq(Sent(pos)')
    BY <2>1, EmptySeq
  <2>. QED BY <2>1, <2>2 DEF Late, Shown, UpTo, Reading, Dids
<1>4. CASE PollDidFails
  <2>1. AfterDid /\ sensor_history' = sensor_history /\ step = "poll"
    BY <1>4 DEF PollDidFails, AfterFailure
  <2>2. inbox' \in Seq(Sent(pos))
    BY <1>0, <1>4, <2>1, ReceivedSent DEF PollDidFails
  <2>. QED BY <1>c, <2>1, <2>2 DEF Late
<1>5. CASE PollDid
  <2>1. PICK answer \in Responses :
           /\ answer.positive /\ answer.of \in Dids /\ Received(this, answer)
           /\ \/ /\ this \in DOMAIN sensor_history
                 /\ sensor_history' = [sensor_history EXCEPT ![this] = Appended(@, ReadingOf(answer))]
                 /\ AfterDid
              \/ /\ this \notin DOMAIN sensor_history
                 /\ sensor_history' = WithNewDeque(this)
                 /\ step' = "record"
                 /\ value' = [of |-> answer.of, asked |-> answer.asked]
                 /\ UNCHANGED pos
    BY <1>5 DEF PollDid
  <2>2. step = "poll" /\ answer \in Sent(pos) /\ inbox' \in Seq(Sent(pos))
    BY <1>0, <1>5, <2>1, ReceivedSent DEF PollDid
  <2>3. CASE this \in DOMAIN sensor_history
    <3>1. /\ sensor_history' = [sensor_history EXCEPT ![this] = Appended(@, ReadingOf(answer))]
          /\ AfterDid /\ DOMAIN sensor_history' = DOMAIN sensor_history
      BY <2>1, <2>3
    <3>2. ts \in 1 .. MaxPolls
      BY <1>0, <2>2, Positioned
    <3>3. ReadingOf(answer) \in Reading /\ ReadingOf(answer).of \in UpTo(pos)
      BY <2>2, <3>2 DEF Sent, Response, ReadingOf, Reading
    <3>4. Kept
      BY <1>0, <2>3, <3>1, <3>3, AppendedLate
    <3>. QED BY <1>c, <2>2, <3>1, <3>4
  <2>4. CASE this \notin DOMAIN sensor_history
    <3>1. /\ sensor_history' = WithNewDeque(this) /\ step' = "record" /\ pos' = pos
          /\ value'.of = answer.of
      BY <2>1, <2>4
    <3>2. Kept
      <4> SUFFICES ASSUME NEW n \in 1 .. Len(POLL_DIDS), POLL_DIDS[n] \in DOMAIN sensor_history'
                   PROVE  sensor_history'[POLL_DIDS[n]] \in Seq(Shown(n))
        OBVIOUS
      <4>1. CASE POLL_DIDS[n] = this
        <5>1. sensor_history'[POLL_DIDS[n]] = <<>>
          BY <3>1, <4>1 DEF WithNewDeque
        <5>. QED BY <5>1, EmptySeq
      <4>2. CASE POLL_DIDS[n] # this
        BY <3>1, <4>2 DEF WithNewDeque, Late
      <4>. QED BY <4>1, <4>2
    <3>3. inbox' \in Seq(Sent(pos)') /\ value'.of \in UpTo(pos)
      <4>1. inbox' \in Seq(Sent(pos)')
        BY <1>0, <2>2, <3>1, SentGrows
      <4>. QED BY <2>2, <3>1, <4>1 DEF Sent
    <3>. QED BY <3>1, <3>2, <3>3 DEF Late, Shown, UpTo, Reading, Dids
  <2>. QED BY <2>3, <2>4
<1>6. CASE RecordFirst
  <2>1. /\ step = "record" /\ AfterDid /\ inbox' = inbox /\ this \in DOMAIN sensor_history
        /\ sensor_history' = [sensor_history EXCEPT ![this] = Appended(@, ReadingOf(value))]
        /\ value \in [of : Dids, asked : {ts}] /\ value.of \in UpTo(pos) /\ ts \in 1 .. MaxPolls
    BY <1>0, <1>6, Positioned DEF RecordFirst, Poller, Late
  <2>2. ReadingOf(value) \in Reading /\ ReadingOf(value).of \in UpTo(pos)
    BY <2>1 DEF ReadingOf, Reading
  <2>3. Kept
    BY <1>0, <2>1, <2>2, AppendedLate
  <2>4. inbox' \in Seq(Sent(pos))
    BY <2>1 DEF Late
  <2>. QED BY <1>c, <2>1, <2>3, <2>4
<1>7. CASE PollFaults
  <2>1. step' = "sleeping" /\ sensor_history' = sensor_history
    BY <1>7 DEF PollFaults
  <2>. QED BY <1>a, <2>1 DEF Late
<1>8. ASSUME NEW r \in Requests, Serve(r) PROVE Late'
  BY <1>b, <1>8 DEF Serve, StartHistory, NextOfHistory, StartCurrent, NextOfCurrent, TakeLatest,
                    Progress, poller
<1>. QED BY <1>1, <1>2, <1>3, <1>4, <1>5, <1>6, <1>7, <1>8 DEF Next, Poll

(* An answer that comes late is taken for one of the same poll that was    *)
(* asked for later, never for an earlier one: the first sensor shows its   *)
(* own values only.                                                        *)
THEOREM LateOnly == Spec => []LateAnswersOnly
<1>1. Init => Late
  BY DEF Init, Late
<1>2. Late => LateAnswersOnly
  <2> SUFFICES ASSUME Late, NEW n \in 1 .. Len(POLL_DIDS), POLL_DIDS[n] \in DOMAIN sensor_history,
                      NEW i \in DOMAIN sensor_history[POLL_DIDS[n]]
               PROVE  sensor_history[POLL_DIDS[n]][i].of \in UpTo(n)
    BY DEF LateAnswersOnly, UpTo
  <2>1. sensor_history[POLL_DIDS[n]] \in Seq(Shown(n))
    BY DEF Late
  <2>. QED BY <2>1 DEF Shown
<1>. QED BY <1>1, <1>2, LateStep, PollerInvariant, PTL DEF Spec

-----------------------------------------------------------------------------
(* sensors_current() takes no reading from an empty deque.                 *)
THEOREM LatestExists == Spec => []NoIndexError
<1>1. Inv => NoIndexError
  BY DEF Inv, Served, Asked, NoIndexError
<1>. QED BY <1>1, PollerInvariant, PTL

(* Every step of the poller brings it nearer to the end of its poll: the   *)
(* counting on which PollerGoesOn rests, for any list of data identifiers. *)
THEOREM PollsEnd == Spec => PollAdvances
<1>1. Inv /\ [Next]_vars => [Poll => \/ ts' = ts + 1 /\ step = "sleeping"
                                     \/ ts' = ts /\ Place < Place']_vars
  <2> SUFFICES ASSUME Inv, Poll
               PROVE  \/ ts' = ts + 1 /\ step = "sleeping"
                      \/ ts' = ts /\ Place < Place'
    OBVIOUS
  <2>1. pos \in 1 .. Len(POLL_DIDS) /\ Len(POLL_DIDS) \in Nat
    BY PollAssumption DEF Inv, Poller
  <2>2. CASE ConnectFails \/ Connect
    BY <2>2 DEF ConnectFails, Connect
  <2>3. CASE PollDidFails \/ RecordFirst
    BY <2>1, <2>3 DEF PollDidFails, RecordFirst, AfterFailure, AfterDid, Place
  <2>4. CASE PollDid
    BY <2>1, <2>4 DEF PollDid, AfterDid, Place
  <2>5. CASE PollFaults
    BY <2>1, <2>5 DEF PollFaults, Place
  <2>. QED BY <2>2, <2>3, <2>4, <2>5 DEF Poll
<1>. QED BY <1>1, PollerInvariant, PTL DEF Spec, PollAdvances
=============================================================================
