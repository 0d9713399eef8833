------------------------ MODULE DoIpConnectionProofs ------------------------
(* Proofs about one DoIP connection, for any set of addresses and any pool *)
(* size.  TypeOK and LiveIsTimed are inductive together with what is known *)
(* of a closed connection, of a routing activation between its two steps   *)
(* and of an open alive check; the action properties follow from them step *)
(* by step.                                                                *)
EXTENDS DoIpConnection, SequenceTheorems, TLAPS

(* A handler that has shut down has given up its TCP connection, and only  *)
(* an open connection of a started handler collects a payload.             *)
QuietAfterClose ==
    /\ state = "SHUTDOWN" => socket # "open"
    /\ receiving # "nothing" => socket = "open" /\ callback

(* Between its two steps routingActivationCompleted() is ACTIVATING still, *)
(* or shut down by an exhausted pool.                                      *)
CompletingState ==
    completing => state = "ACTIVATING" \/ (state = "SHUTDOWN" /\ ~PoolHasRoom)

(* Only a connection that has been started and has become active has an    *)
(* alive check.                                                            *)
PendingState == aliveCheckPending => callback /\ state \notin {"INACTIVE", "ACTIVATING"}

(* Before start() nothing has been sent; resume() may have come. *)
StartedState == ~callback => jobs = <<>> /\ state \in {"INACTIVE", "ACTIVE"}

Inv ==
    /\ TypeOK /\ LiveIsTimed /\ QuietAfterClose
    /\ CompletingState /\ PendingState /\ StartedState

USE DEF owner, wire, routed, ConnectionCloses

Sockets == {"open", "closed", "aborted"}

(* The callbacks of a close() are callbacks. *)
LEMMA CloseCallsType ==
    ASSUME NEW pending \in BOOLEAN
    PROVE  CloseCalls(pending) \in Seq(Call)
<1>1. CASE pending
  <2>1. CloseCalls(pending) = <<"connectionClosed", "notAlive">>
    BY <1>1 DEF CloseCalls
  <2>2. "connectionClosed" \in Call /\ "notAlive" \in Call
    BY DEF Call, Verdict
  <2>. QED BY <2>1, <2>2
<1>2. CASE ~pending
  <2>1. CloseCalls(pending) = <<"connectionClosed">>
    BY <1>2 DEF CloseCalls
  <2>2. "connectionClosed" \in Call
    BY DEF Call
  <2>. QED BY <2>1, <2>2
<1>. QED BY <1>1, <1>2

(* A job handed over keeps the queue within the pool. *)
LEMMA HandOverType ==
    ASSUME TypeOK, NEW kind \in JobKind, PoolHasRoom, HandOver(kind)
    PROVE  /\ state' \in State
           /\ jobs' \in Seq(JobKind) /\ Len(jobs') <= PoolSize
           /\ socket' = socket
<1>1. state' \in State
  BY DEF HandOver, State, TypeOK
<1>2. jobs' = jobs \/ jobs' = Append(jobs, kind)
  BY DEF HandOver
<1>3. jobs' \in Seq(JobKind) /\ Len(jobs') <= PoolSize
  BY <1>2, PoolAssumption DEF TypeOK, PoolHasRoom
<1>. QED BY <1>1, <1>3 DEF HandOver

(* What sendNack() and sendRoutingActivationResponse() leave behind. *)
LEMMA SendOrCloseType ==
    ASSUME TypeOK, NEW kind \in JobKind, SendOrClose(kind)
    PROVE  /\ state' \in State
           /\ jobs' \in Seq(JobKind) /\ Len(jobs') <= PoolSize
           /\ socket' \in Sockets
           /\ receiving' = "nothing"
           /\ calls' \in Seq(Call)
<1>1. CASE PoolHasRoom
  <2>1. HandOver(kind) /\ calls' = <<>> /\ receiving' = "nothing"
    BY <1>1 DEF SendOrClose
  <2>. QED BY <1>1, <2>1, HandOverType DEF TypeOK, Sockets
<1>2. CASE ~PoolHasRoom
  <2>1. Close("closed", CloseCalls(aliveCheckPending)) /\ UNCHANGED jobs
    BY <1>2 DEF SendOrClose
  <2>2. CloseCalls(aliveCheckPending) \in Seq(Call)
    BY CloseCallsType DEF TypeOK
  <2>. QED BY <2>1, <2>2 DEF Close, TypeOK, State, Sockets
<1>. QED BY <1>1, <1>2
(* The callback sequences the entry points record. *)
LEMMA SaidType ==
    /\ <<>> \in Seq(Call)
    /\ <<"alive">> \in Seq(Call)
    /\ <<"notAlive">> \in Seq(Call)
    /\ <<"routingActive">> \in Seq(Call)
    /\ <<"handleRoutingActivationRequest">> \in Seq(Call)
    /\ <<"connectionClosed">> \in Seq(Call)
    /\ <<"notAlive", "connectionClosed">> \in Seq(Call)
<1>1. Verdict \subseteq Call /\ {"connectionClosed", "routingActive",
        "handleRoutingActivationRequest"} \subseteq Call
  BY DEF Call
<1>2. "alive" \in Call /\ "notAlive" \in Call
  BY <1>1 DEF Verdict
<1>. QED BY <1>1, <1>2

LEMMA InvInit == Init => Inv
<1> SUFFICES ASSUME Init PROVE Inv
  OBVIOUS
<1>1. jobs \in Seq(JobKind) /\ Len(jobs) <= PoolSize
  BY PoolAssumption DEF Init
<1>2. TypeOK
  BY <1>1, SaidType DEF Init, TypeOK, State, Address
<1>3. LiveIsTimed /\ QuietAfterClose /\ CompletingState /\ PendingState /\ StartedState
  BY DEF Init, LiveIsTimed, QuietAfterClose, CompletingState, PendingState, StartedState
<1>. QED BY <1>2, <1>3 DEF Inv

LEMMA OwnerStepInv == Inv /\ ~disposed /\ ~completing /\ OwnerStep => Inv'
<1> SUFFICES ASSUME Inv, ~disposed, ~completing, OwnerStep PROVE Inv'
  OBVIOUS
<1> USE SaidType, PoolAssumption, CloseCallsType
    DEF Inv, TypeOK, LiveIsTimed, QuietAfterClose, CompletingState, PendingState, StartedState, State,
        Address, JobKind, Close
<1>1. ASSUME NEW address \in Addresses, Resume(address) PROVE Inv'
  BY <1>1 DEF Resume
<1>2. CASE Start
  BY <1>2 DEF Start
<1>3. CASE OwnerCloses
  BY <1>3 DEF OwnerCloses
<1>4. CASE StartAliveCheck
  <2>1. CASE state = "ACTIVE" /\ PoolHasRoom
    BY <1>4, <2>1, HandOverType DEF StartAliveCheck, HandOver
  <2>2. CASE state = "ACTIVE" /\ ~PoolHasRoom
    BY <1>4, <2>2 DEF StartAliveCheck
  <2>3. CASE state # "ACTIVE"
    <3>1. /\ callback /\ calls' \in Seq(Call)
          /\ UNCHANGED <<state, aliveCheckPending, timer, jobs, socket, receiving, callback,
                         sourceAddress, isOrWasRouting, suspended, asked, completing, disposed>>
      BY <1>4, <2>3 DEF StartAliveCheck
    <3>. QED BY <3>1
  <2>. QED BY <2>1, <2>2, <2>3
<1>5. CASE RoutingActivationSucceeds
  <2>1. CASE PoolHasRoom
    BY <1>5, <2>1, HandOverType DEF DecisionDue, RoutingActivationSucceeds, HandOver
  <2>2. CASE ~PoolHasRoom
    BY <1>5, <2>2 DEF DecisionDue, RoutingActivationSucceeds, PoolHasRoom
  <2>. QED BY <2>1, <2>2
<1>6. CASE RoutingActivationFails
  <2>1. CASE PoolHasRoom
    BY <1>6, <2>1, HandOverType DEF DecisionDue, RoutingActivationFails, HandOver
  <2>2. CASE ~PoolHasRoom
    BY <1>6, <2>2 DEF DecisionDue, RoutingActivationFails
  <2>. QED BY <2>1, <2>2
<1>7. CASE RoutingActivationTooLate
  BY <1>7 DEF RoutingActivationTooLate
<1>8. CASE SuspendSending
  BY <1>8 DEF SuspendSending
<1>9. CASE ResumeSending
  <2>1. suspended' \in BOOLEAN /\ calls' \in Seq(Call)
    BY <1>9 DEF ResumeSending
  <2>. QED BY <1>9, <2>1 DEF ResumeSending
<1>10. CASE Shutdown
  BY <1>10 DEF Shutdown
<1>. QED
  BY <1>1, <1>2, <1>3, <1>4, <1>5, <1>6, <1>7, <1>8, <1>9, <1>10
     DEF OwnerStep, RoutingActivationCompleted
(* Every NACK and every immediate answer to a routing request keeps Inv:   *)
(* it leaves the timer alone or re-arms it, unless it closes.              *)
LEMMA SendOrCloseInv ==
    ASSUME Inv, ~completing, callback, socket = "open", NEW kind \in JobKind, SendOrClose(kind),
           PoolHasRoom => timer' \in {timer, "running"},
           UNCHANGED <<routed, aliveCheckPending, suspended, owner>>
    PROVE  Inv'
<1>1. TypeOK
  BY DEF Inv
<1>2. /\ state' \in State
      /\ jobs' \in Seq(JobKind) /\ Len(jobs') <= PoolSize
      /\ socket' \in Sockets
      /\ receiving' = "nothing"
      /\ calls' \in Seq(Call)
  BY <1>1, SendOrCloseType
<1>3. \/ state' \in {state, "CLOSING"} /\ socket' = socket
      \/ state' = "SHUTDOWN" /\ socket' = "closed" /\ timer' = "off"
  BY DEF SendOrClose, HandOver, Close
<1>4. \/ state' = "SHUTDOWN" /\ timer' = "off"
      \/ timer' \in {timer, "running"}
  BY DEF SendOrClose, Close
<1>5. TypeOK'
  BY <1>1, <1>2, <1>4 DEF TypeOK, Sockets
<1>6. LiveIsTimed'
  BY <1>1, <1>3, <1>4 DEF Inv, LiveIsTimed
<1>7. QuietAfterClose'
  BY <1>1, <1>2, <1>3 DEF Inv, QuietAfterClose
<1>8. CompletingState' /\ PendingState' /\ StartedState'
  BY <1>3 DEF Inv, CompletingState, PendingState, StartedState
<1>. QED BY <1>5, <1>6, <1>7, <1>8 DEF Inv

LEMMA ConnectionStepInv == Inv /\ ~disposed /\ ~completing /\ ConnectionStep => Inv'
<1> SUFFICES ASSUME Inv, ~disposed, ~completing, ConnectionStep PROVE Inv'
  OBVIOUS
<1>a. "keep" \in JobKind /\ "close" \in JobKind
  BY DEF JobKind
<1>1. CASE BadVersionHeader
  BY <1>1, <1>a, SendOrCloseInv DEF BadVersionHeader, Listening
<1>2. CASE BadLengthHeader
  BY <1>2, <1>a, SendOrCloseInv DEF BadLengthHeader, Listening, TimerAfterHeader
<1>3. CASE UnknownHeader
  BY <1>3, <1>a, SendOrCloseInv DEF UnknownHeader, Listening, TimerAfterHeader
<1>4. ASSUME NEW address \in Address, NEW action \in FilterAction,
             RoutingRequestAnswered(address, action)
      PROVE  Inv'
  <2>1. AnswerKind(address, action) \in JobKind
    BY <1>a DEF AnswerKind
  <2>2. callback /\ socket = "open"
    BY <1>4 DEF RoutingRequestAnswered, Inv, QuietAfterClose
  <2>. QED BY <1>4, <2>1, <2>2, SendOrCloseInv DEF RoutingRequestAnswered
<1> USE SaidType, CloseCallsType
    DEF Inv, TypeOK, LiveIsTimed, QuietAfterClose, CompletingState, PendingState, StartedState, State,
        Address, JobKind, Close
<1>5. ASSUME NEW kind \in {"activation", "aliveResponse"}, PayloadHeader(kind) PROVE Inv'
  BY <1>5 DEF PayloadHeader, Listening, TimerAfterHeader
<1>6. CASE ConsumedHeader
  BY <1>6 DEF ConsumedHeader, Listening, TimerAfterHeader
<1>7. ASSUME NEW address \in Address, RoutingRequestAccepted(address) PROVE Inv'
  BY <1>7 DEF FirstRequest, RoutingRequestAccepted
<1>8. CASE AliveCheckConfirmed
  BY <1>8 DEF AliveCheckConfirmed
<1>9. ASSUME NEW address \in Address, AliveCheckMismatch(address) PROVE Inv'
  BY <1>9 DEF AliveCheckMismatch
<1>10. CASE ConnectionLost
  BY <1>10 DEF ConnectionLost
<1>11. CASE SendJobReleased
  <2>1. jobs' \in Seq(JobKind) /\ Len(jobs') <= PoolSize
    BY <1>11, PoolAssumption DEF ReleaseCloses, SendJobReleased
  <2>a. UNCHANGED <<callback, sourceAddress, isOrWasRouting, aliveCheckPending, suspended,
                    asked, completing, disposed>> /\ callback
    BY <1>11 DEF SendJobReleased
  <2>2. CASE ReleaseCloses
    <3>1. Close("closed", CloseCalls(aliveCheckPending))
      BY <1>11, <2>2 DEF SendJobReleased
    <3>. QED BY <2>1, <2>a, <3>1
  <2>3. CASE ~ReleaseCloses
    <3>1. calls' = <<>> /\ UNCHANGED <<state, socket, timer, receiving>>
      BY <1>11, <2>3 DEF SendJobReleased
    <3>. QED BY <2>1, <2>a, <3>1
  <2>. QED BY <2>2, <2>3
<1>. QED
  BY <1>1, <1>2, <1>3, <1>4, <1>5, <1>6, <1>7, <1>8, <1>9, <1>10, <1>11
     DEF ConnectionStep, HeaderReceived

(* What the timer service does. *)
TimerStep == TimerElapses \/ (~completing /\ TimerExpired)

LEMMA TimerStepInv == Inv /\ ~disposed /\ TimerStep => Inv'
<1> SUFFICES ASSUME Inv, ~disposed, TimerStep PROVE Inv'
  OBVIOUS
<1> USE SaidType, CloseCallsType
    DEF Inv, TypeOK, LiveIsTimed, QuietAfterClose, CompletingState, PendingState, StartedState, State,
        Address, JobKind, Close
<1>1. CASE TimerElapses
  BY <1>1 DEF TimerElapses, PoolHasRoom
<1>2. CASE ~completing /\ TimerExpired
  BY <1>2 DEF ExpiryCloses, TimerExpired
<1>. QED BY <1>1, <1>2 DEF TimerStep

LEMMA ProceedsInv == Inv /\ ~disposed /\ RoutingActivationProceeds => Inv'
<1> SUFFICES ASSUME Inv, ~disposed, RoutingActivationProceeds PROVE Inv'
  OBVIOUS
<1>1. TypeOK'
  BY SaidType DEF Inv, TypeOK, RoutingActivationProceeds, State
<1>2. (LiveIsTimed /\ QuietAfterClose /\ CompletingState /\ PendingState /\ StartedState)'
  BY DEF Inv, RoutingActivationProceeds, LiveIsTimed, QuietAfterClose, CompletingState,
         PendingState, StartedState
<1>. QED BY <1>1, <1>2 DEF Inv

(* The inductive invariant, hence the type invariant and the two safety    *)
(* invariants of the runs.                                                 *)
LEMMA InvStep == Inv /\ [Next]_vars => Inv'
<1> SUFFICES ASSUME Inv, [Next]_vars PROVE Inv'
  OBVIOUS
<1>1. CASE Next
  BY <1>1, OwnerStepInv, ConnectionStepInv, TimerStepInv, ProceedsInv DEF Next, TimerStep
<1>2. CASE UNCHANGED vars
  BY <1>2 DEF vars, Inv, TypeOK, LiveIsTimed, QuietAfterClose, CompletingState, PendingState,
                  StartedState, PoolHasRoom
<1>. QED BY <1>1, <1>2

THEOREM Invariant == Spec => []Inv
<1>. QED BY InvInit, InvStep, PTL DEF Spec

(* Type correctness of the handler: in particular the number of jobs taken *)
(* never exceeds the pool.                                                 *)
THEOREM TypeCorrect == Spec => []TypeOK
<1>1. Inv => TypeOK
  BY DEF Inv
<1>. QED BY <1>1, Invariant, PTL

(* No started connection ever waits for its tester without a timeout.      *)
THEOREM AlwaysTimed == Spec => []LiveIsTimed
<1>1. Inv => LiveIsTimed
  BY DEF Inv
<1>. QED BY <1>1, Invariant, PTL

-----------------------------------------------------------------------------
(* Action properties.                                                      *)

(* The one way back. *)
ClosedActivation == completing /\ state = "SHUTDOWN" /\ ~PoolHasRoom

LEMMA ForwardStep == Inv /\ [Next]_vars => Rank(state) <= Rank(state') \/ ClosedActivation
<1> SUFFICES ASSUME Inv, [Next]_vars, ~ClosedActivation PROVE Rank(state) <= Rank(state')
  OBVIOUS
<1>1. state \in State
  BY DEF Inv, TypeOK
<1>2. \A s \in State : Rank(s) \in 0..4 /\ Rank(s) <= Rank("SHUTDOWN")
  BY DEF Rank, State
<1>3. CASE UNCHANGED state
  BY <1>1, <1>2, <1>3
<1>4. CASE state' = "SHUTDOWN"
  BY <1>1, <1>2, <1>4
<1>5. CASE state # "SHUTDOWN" /\ state' = "CLOSING"
  BY <1>1, <1>5 DEF Rank, State
<1>6. CASE state \in {"INACTIVE", "ACTIVATING"} /\ state' = "ACTIVE"
  BY <1>6 DEF Rank
<1>7. CASE state = "INACTIVE" /\ state' = "ACTIVATING"
  BY <1>7 DEF Rank
<1>8. \/ UNCHANGED state
      \/ state' = "SHUTDOWN"
      \/ state # "SHUTDOWN" /\ state' = "CLOSING"
      \/ state \in {"INACTIVE", "ACTIVATING"} /\ state' = "ACTIVE"
      \/ state = "INACTIVE" /\ state' = "ACTIVATING"
  <2>1. ASSUME NEW kind, SendOrClose(kind), state # "SHUTDOWN"
        PROVE  state' \in {state, "CLOSING", "SHUTDOWN"}
    BY <2>1 DEF SendOrClose, HandOver, Close
  <2>2. Listening \/ receiving # "nothing" => state # "SHUTDOWN"
    BY DEF Inv, QuietAfterClose, Listening
  <2>3. CASE OwnerStep
    BY <2>3 DEF OwnerStep, Resume, Start, OwnerCloses, StartAliveCheck, SuspendSending,
       ResumeSending, Shutdown, RoutingActivationCompleted, RoutingActivationSucceeds,
       RoutingActivationFails, RoutingActivationTooLate, DecisionDue, HandOver, Close
  <2>4. CASE HeaderReceived
    BY <2>4, <2>1, <2>2 DEF HeaderReceived, BadVersionHeader, BadLengthHeader,
       PayloadHeader, ConsumedHeader, UnknownHeader
  <2>5. CASE \E address \in Address, action \in FilterAction :
                 RoutingRequestAnswered(address, action)
    <3>1. PICK address \in Address, action \in FilterAction :
              RoutingRequestAnswered(address, action)
      BY <2>5
    <3>2. receiving = "activation" /\ SendOrClose(AnswerKind(address, action))
      BY <3>1 DEF RoutingRequestAnswered
    <3>. QED BY <3>2, <2>1, <2>2
  <2>6. CASE ConnectionStep /\ ~HeaderReceived
             /\ ~\E address \in Address, action \in FilterAction :
                    RoutingRequestAnswered(address, action)
    BY <2>6 DEF FirstRequest, ReleaseCloses, ConnectionStep, RoutingRequestAccepted, AliveCheckConfirmed,
       AliveCheckMismatch, ConnectionLost, SendJobReleased, Close
  <2>7. CASE TimerStep
    BY <2>7 DEF TimerStep, TimerElapses, TimerExpired, ExpiryCloses, Close
  <2>8. CASE RoutingActivationProceeds
    BY <2>8 DEF RoutingActivationProceeds, Inv, CompletingState, ClosedActivation
  <2>9. CASE UNCHANGED vars
    BY <2>9 DEF vars
  <2>. QED BY <2>3, <2>4, <2>5, <2>6, <2>7, <2>8, <2>9 DEF Next, TimerStep
<1>. QED BY <1>3, <1>4, <1>5, <1>6, <1>7, <1>8

(* A connection goes back in its life only by finishing a routing          *)
(* activation that an exhausted pool has shut down: see LifecycleForward.  *)
THEOREM Forward == Spec => LifecycleForward
<1>1. Inv /\ [Next]_vars
        => [\/ Rank(state) <= Rank(state')
            \/ completing /\ state = "SHUTDOWN" /\ ~PoolHasRoom]_vars
  BY ForwardStep DEF ClosedActivation
<1>. QED BY <1>1, Invariant, PTL DEF Spec, LifecycleForward

(* The bound source address stays: only a routing request accepted in      *)
(* INACTIVE and a resume() before start() write it.                        *)
THEOREM AddressStays == Spec => AddressBound
<1>1. Inv /\ [Next]_vars
        => [callback /\ state # "INACTIVE" => sourceAddress' = sourceAddress]_vars
  BY DEF Next, OwnerStep, Resume, Start, OwnerCloses, StartAliveCheck, SuspendSending,
     ResumeSending, Shutdown, RoutingActivationCompleted, RoutingActivationSucceeds,
     RoutingActivationFails, RoutingActivationTooLate, ConnectionStep, HeaderReceived,
     BadVersionHeader, BadLengthHeader, PayloadHeader, ConsumedHeader, UnknownHeader,
     RoutingRequestAccepted, RoutingRequestAnswered, AliveCheckConfirmed,
     AliveCheckMismatch, ConnectionLost, SendJobReleased, TimerElapses,
     TimerExpired, RoutingActivationProceeds, FirstRequest
<1>. QED BY <1>1, Invariant, PTL DEF Spec, AddressBound
(* The callback sequences that give a verdict. *)
LEMMA VerdictSaid ==
    ASSUME calls' \in {<<"alive">>, <<"notAlive">>, <<"notAlive", "connectionClosed">>,
                       <<"connectionClosed", "notAlive">>}
    PROVE  VerdictGiven'
<1>1. CASE calls' = <<"connectionClosed", "notAlive">>
  <2>1. 2 \in DOMAIN calls' /\ calls'[2] = "notAlive"
    BY <1>1
  <2>. QED BY <2>1 DEF VerdictGiven, Verdict
<1>2. CASE calls' # <<"connectionClosed", "notAlive">>
  <2>1. 1 \in DOMAIN calls' /\ calls'[1] \in {"alive", "notAlive"}
    BY <1>2
  <2>. QED BY <2>1 DEF VerdictGiven, Verdict
<1>. QED BY <1>1, <1>2

(* close() of a connection with an open check gives the verdict. *)
LEMMA CloseAnswers ==
    ASSUME aliveCheckPending, NEW mode, Close(mode, CloseCalls(aliveCheckPending))
    PROVE  VerdictGiven'
  BY VerdictSaid DEF Close, CloseCalls

LEMMA SendOrCloseAnswers ==
    ASSUME Waiting, NEW kind, SendOrClose(kind), UNCHANGED aliveCheckPending
    PROVE  Waiting' \/ VerdictGiven'
<1>1. CASE PoolHasRoom
  BY <1>1 DEF SendOrClose, HandOver, Waiting
<1>2. CASE ~PoolHasRoom
  BY <1>2, CloseAnswers DEF SendOrClose, Waiting
<1>. QED BY <1>1, <1>2

LEMMA StartAnswered ==
    ASSUME Inv, StartAliveCheck PROVE Waiting' \/ VerdictGiven'
<1>1. CASE state = "ACTIVE" /\ PoolHasRoom
  BY <1>1 DEF StartAliveCheck, HandOver, Waiting
<1>2. CASE state = "ACTIVE" /\ ~PoolHasRoom
  <2>1. calls' = <<"connectionClosed", "notAlive">>
    BY <1>2 DEF StartAliveCheck, Close, CloseCalls
  <2>. QED BY <2>1, VerdictSaid
<1>3. CASE state # "ACTIVE"
  <2>1. calls' = <<"notAlive">>
    BY <1>3 DEF StartAliveCheck
  <2>. QED BY <2>1, VerdictSaid
<1>. QED BY <1>1, <1>2, <1>3

LEMMA EndAnswered ==
    ASSUME Inv, [Next]_vars, Waiting PROVE Waiting' \/ VerdictGiven'
<1>1. CASE UNCHANGED <<state, aliveCheckPending>>
  BY <1>1 DEF Waiting
<1>2. ASSUME NEW mode, Close(mode, CloseCalls(aliveCheckPending)) PROVE VerdictGiven'
  BY <1>2, CloseAnswers DEF Waiting
<1>3. ASSUME NEW kind, SendOrClose(kind), UNCHANGED aliveCheckPending
      PROVE  Waiting' \/ VerdictGiven'
  BY <1>3, SendOrCloseAnswers
<1>4. CASE OwnerStep
  <2>1. ASSUME NEW address, Resume(address) PROVE Waiting'
    BY <2>1 DEF Resume, Waiting
  <2>2. CASE OwnerCloses
    BY <2>2, <1>2 DEF OwnerCloses
  <2>3. CASE RoutingActivationSucceeds
    BY <2>3, <1>2 DEF DecisionDue, RoutingActivationSucceeds, HandOver, Waiting
  <2>4. CASE RoutingActivationFails
    BY <2>4, <1>2 DEF DecisionDue, RoutingActivationFails, HandOver, Waiting
  <2>5. CASE Start \/ RoutingActivationTooLate \/ SuspendSending \/ ResumeSending \/ Shutdown
    BY <2>5, <1>1 DEF Start, RoutingActivationTooLate, SuspendSending, ResumeSending, Shutdown
  <2>. QED BY <1>4, <2>1, <2>2, <2>3, <2>4, <2>5, StartAnswered
           DEF OwnerStep, RoutingActivationCompleted
<1>5. CASE ConnectionStep
  <2>1. CASE BadVersionHeader \/ BadLengthHeader \/ UnknownHeader
    BY <2>1, <1>3 DEF BadVersionHeader, BadLengthHeader, UnknownHeader
  <2>2. ASSUME NEW address, NEW action, RoutingRequestAnswered(address, action)
        PROVE  Waiting' \/ VerdictGiven'
    BY <2>2, <1>3 DEF RoutingRequestAnswered
  <2>3. ASSUME NEW kind, PayloadHeader(kind) PROVE Waiting'
    BY <2>3 DEF PayloadHeader, Waiting
  <2>4. CASE ConsumedHeader
    BY <2>4, <1>1 DEF ConsumedHeader
  <2>5. ASSUME NEW address, RoutingRequestAccepted(address) PROVE Waiting'
    BY <2>5 DEF FirstRequest, RoutingRequestAccepted, Waiting
  <2>6. CASE AliveCheckConfirmed
    <3>1. calls' = <<"alive">>
      BY <2>6 DEF AliveCheckConfirmed, Waiting
    <3>. QED BY <3>1, VerdictSaid
  <2>7. ASSUME NEW address, AliveCheckMismatch(address) PROVE VerdictGiven'
    <3>1. calls' = <<"notAlive", "connectionClosed">>
      BY <2>7 DEF AliveCheckMismatch, Close, Waiting
    <3>. QED BY <3>1, VerdictSaid
  <2>8. CASE ConnectionLost
    BY <2>8, <1>2 DEF ConnectionLost
  <2>9. CASE SendJobReleased
    BY <2>9, <1>1, <1>2 DEF ReleaseCloses, SendJobReleased
  <2>. QED BY <1>5, <2>1, <2>2, <2>3, <2>4, <2>5, <2>6, <2>7, <2>8, <2>9
           DEF ConnectionStep, HeaderReceived
<1>6. CASE TimerStep
  <2>1. CASE TimerElapses
    BY <2>1, <1>1 DEF TimerElapses
  <2>2. CASE TimerExpired
    BY <2>2, <1>1, <1>2 DEF ExpiryCloses, TimerExpired
  <2>. QED BY <1>6, <2>1, <2>2 DEF TimerStep
<1>7. CASE RoutingActivationProceeds
  BY <1>7 DEF RoutingActivationProceeds, Waiting
<1>8. CASE UNCHANGED vars
  BY <1>8, <1>1 DEF vars
<1>. QED BY <1>4, <1>5, <1>6, <1>7, <1>8 DEF Next, TimerStep

(* Every alive check gets its verdict: see EveryCheckAnswered. *)
THEOREM ChecksAnswered == Spec => EveryCheckAnswered
<1>1. Inv /\ [Next]_vars
        => [/\ StartAliveCheck => Waiting' \/ VerdictGiven'
            /\ Waiting /\ ~Waiting' => VerdictGiven']_vars
  BY StartAnswered, EndAnswered
<1>. QED BY <1>1, Invariant, PTL DEF Spec, EveryCheckAnswered

LEMMA NothingSaid ==
    ASSUME calls' \in {<<>>, <<"connectionClosed">>, <<"routingActive">>,
                       <<"handleRoutingActivationRequest">>}
    PROVE  ~VerdictGiven'
<1>1. \A i \in DOMAIN calls' :
         calls'[i] \in {"connectionClosed", "routingActive", "handleRoutingActivationRequest"}
  OBVIOUS
<1>. QED BY <1>1 DEF VerdictGiven, Verdict

LEMMA CloseDue ==
    ASSUME state # "SHUTDOWN", NEW mode, Close(mode, CloseCalls(aliveCheckPending)), VerdictGiven'
    PROVE  Waiting
<1>1. CASE aliveCheckPending
  BY <1>1 DEF Waiting
<1>2. CASE ~aliveCheckPending
  <2>1. calls' = <<"connectionClosed">>
    BY <1>2 DEF Close, CloseCalls
  <2>. QED BY <2>1, NothingSaid
<1>. QED BY <1>1, <1>2

LEMMA SendOrCloseDue ==
    ASSUME state # "SHUTDOWN", NEW kind, SendOrClose(kind), VerdictGiven'
    PROVE  Waiting
<1>1. calls' # <<>>
  BY NothingSaid
<1>. QED BY <1>1, CloseDue DEF SendOrClose

LEMMA VerdictDue ==
    ASSUME Inv, [Next]_vars, calls' # calls \/ ~(UNCHANGED vars), VerdictGiven'
    PROVE  Waiting \/ StartAliveCheck
<1>1. calls' # <<>> /\ calls' # <<"routingActive">> /\ calls' # <<"handleRoutingActivationRequest">>
  BY NothingSaid
<1>2. /\ socket = "open" => state # "SHUTDOWN"
      /\ receiving # "nothing" => socket = "open"
  BY DEF Inv, QuietAfterClose
<1>3. ASSUME NEW mode, Close(mode, CloseCalls(aliveCheckPending)), state # "SHUTDOWN" PROVE Waiting
  BY <1>3, CloseDue
<1>4. ASSUME NEW kind, SendOrClose(kind), state # "SHUTDOWN" PROVE Waiting
  BY <1>4, SendOrCloseDue
<1>5. CASE OwnerStep
  <2>1. CASE OwnerCloses
    BY <2>1, <1>3 DEF OwnerCloses
  <2>2. CASE RoutingActivationSucceeds
    BY <2>2, <1>1, <1>3 DEF RoutingActivationSucceeds, DecisionDue
  <2>3. CASE RoutingActivationFails
    BY <2>3, <1>1, <1>3 DEF RoutingActivationFails, DecisionDue
  <2>4. ASSUME NEW address, Resume(address) PROVE FALSE
    BY <2>4, <1>1 DEF Resume
  <2>5. CASE Start \/ RoutingActivationTooLate \/ SuspendSending \/ ResumeSending \/ Shutdown
    BY <2>5, <1>1 DEF Start, RoutingActivationTooLate, SuspendSending, ResumeSending, Shutdown
  <2>. QED BY <1>5, <2>1, <2>2, <2>3, <2>4, <2>5 DEF OwnerStep, RoutingActivationCompleted
<1>6. CASE ConnectionStep
  <2>1. CASE BadVersionHeader \/ BadLengthHeader \/ UnknownHeader
    BY <2>1, <1>2, <1>4 DEF BadVersionHeader, BadLengthHeader, UnknownHeader, Listening
  <2>2. ASSUME NEW kind, PayloadHeader(kind) PROVE FALSE
    BY <2>2, <1>1 DEF PayloadHeader
  <2>3. CASE ConsumedHeader
    BY <2>3, <1>1 DEF ConsumedHeader
  <2>4. ASSUME NEW address, RoutingRequestAccepted(address) PROVE FALSE
    BY <2>4, <1>1 DEF RoutingRequestAccepted
  <2>5. ASSUME NEW address, NEW action, RoutingRequestAnswered(address, action) PROVE Waiting
    BY <2>5, <1>2, <1>4 DEF RoutingRequestAnswered
  <2>6. CASE AliveCheckConfirmed
    BY <2>6, <1>1, <1>2 DEF AliveCheckConfirmed, Waiting
  <2>7. ASSUME NEW address, AliveCheckMismatch(address) PROVE Waiting
    BY <2>7, <1>2, NothingSaid DEF AliveCheckMismatch, Close, Waiting
  <2>8. CASE ConnectionLost
    BY <2>8, <1>2, <1>3 DEF ConnectionLost
  <2>9. CASE SendJobReleased
    BY <2>9, <1>1, <1>3 DEF SendJobReleased, ReleaseCloses
  <2>. QED BY <1>6, <2>1, <2>2, <2>3, <2>4, <2>5, <2>6, <2>7, <2>8, <2>9
           DEF ConnectionStep, HeaderReceived
<1>7. CASE TimerStep
  <2>1. CASE TimerElapses
    BY <2>1, <1>1 DEF TimerElapses
  <2>2. CASE TimerExpired
    BY <2>2, <1>1, <1>3 DEF TimerExpired, ExpiryCloses
  <2>. QED BY <1>7, <2>1, <2>2 DEF TimerStep
<1>8. CASE RoutingActivationProceeds
  BY <1>8, <1>1 DEF RoutingActivationProceeds
<1>9. CASE UNCHANGED vars
  BY <1>9 DEF vars
<1>. QED BY <1>5, <1>6, <1>7, <1>8, <1>9 DEF Next, TimerStep

(* No verdict is given twice or unasked: see VerdictsAreDue. *)
THEOREM ChecksAnsweredOnce == Spec => VerdictsAreDue
<1>1. Inv /\ [Next]_vars => [VerdictGiven' => Waiting \/ StartAliveCheck]_vars
  BY VerdictDue
<1>. QED BY <1>1, Invariant, PTL DEF Spec, VerdictsAreDue

(* What a handler in SHUTDOWN still does, step by step. *)
LEMMA ClosedSays ==
    ASSUME Inv, Next, state = "SHUTDOWN", calls' # <<>>
    PROVE  StartAliveCheck \/ RoutingActivationProceeds
<1>1. socket # "open" /\ receiving = "nothing"
  BY DEF Inv, QuietAfterClose
<1>2. CASE OwnerStep
  <2>1. ~RoutingActivationSucceeds /\ ~RoutingActivationFails
    BY DEF RoutingActivationSucceeds, RoutingActivationFails, DecisionDue
  <2>2. ~Start
    BY DEF Start, Inv, StartedState
  <2>. QED BY <1>2, <2>1, <2>2 DEF OwnerStep, Resume, OwnerCloses, RoutingActivationCompleted,
                                   RoutingActivationTooLate, SuspendSending, ResumeSending,
                                   Shutdown
<1>3. CASE ConnectionStep
  <2>1. ~HeaderReceived
    BY <1>1 DEF HeaderReceived, Listening, BadVersionHeader, BadLengthHeader, PayloadHeader,
                ConsumedHeader, UnknownHeader
  <2>. QED BY <1>1, <1>3, <2>1
           DEF ConnectionStep, RoutingRequestAccepted, RoutingRequestAnswered,
               AliveCheckConfirmed, AliveCheckMismatch, ConnectionLost, SendJobReleased,
               ReleaseCloses
<1>4. CASE TimerStep
  BY <1>4 DEF TimerStep, TimerElapses, TimerExpired, ExpiryCloses
<1>. QED BY <1>2, <1>3, <1>4 DEF Next, TimerStep

(* A handler that is shut down reports nothing a second time: see          *)
(* ClosedForGood.                                                          *)
THEOREM ClosedSaysNoMore == Spec => ClosedForGood
<1>1. Inv /\ [Next]_vars
        => [state = "SHUTDOWN" /\ calls' # <<>>
                => StartAliveCheck \/ RoutingActivationProceeds]_vars
  BY ClosedSays
<1>. QED BY <1>1, Invariant, PTL DEF Spec, ClosedForGood

-----------------------------------------------------------------------------
(* Progress.  The fairness of the specification names the guards of its    *)
(* actions, so each proof below is one of temporal logic from facts about  *)
(* single steps; what has to be counted down is out of its reach.          *)

(* A started connection that still waits for its routing request. *)
Fresh == callback /\ state = "INACTIVE" /\ ~disposed

(* The safety half of InitialTimeoutWorks: as long as no routing request   *)
(* is accepted nothing stops the initial timeout or starts it again, and   *)
(* a connection that stops waiting is ACTIVATING, CLOSING or SHUTDOWN.     *)
LEMMA InitialTimeoutStays ==
    ASSUME Inv, Fresh, [Next]_vars, state' = "INACTIVE", ~disposed'
    PROVE  callback' /\ (timer' = timer \/ timer' = "due")
<1> USE DEF Fresh
<1>0. ~RoutingActivationProceeds
  BY DEF RoutingActivationProceeds
<1>1. CASE OwnerStep
  <2>1. CASE StartAliveCheck
    BY <2>1 DEF StartAliveCheck, routed
  <2>2. CASE RoutingActivationCompleted
    BY <2>2 DEF RoutingActivationCompleted, RoutingActivationSucceeds, RoutingActivationFails,
                RoutingActivationTooLate, DecisionDue, routed
  <2>. QED BY <1>1, <2>1, <2>2 DEF OwnerStep, Resume, Start, OwnerCloses, Close, SuspendSending,
                                   ResumeSending, Shutdown, owner, routed
<1>2. CASE ConnectionStep
  <2> DEFINE Kept == callback' /\ timer' = timer
  <2>1. ASSUME NEW kind, SendOrClose(kind), PoolHasRoom => timer' = timer, UNCHANGED routed
        PROVE  Kept
    BY <2>1 DEF SendOrClose, Close, routed
  <2>2. CASE HeaderReceived
    <3>1. TimerAfterHeader = timer
      BY DEF TimerAfterHeader, isRouting
    <3>2. CASE BadVersionHeader \/ BadLengthHeader \/ UnknownHeader
      BY <2>1, <3>1, <3>2 DEF BadVersionHeader, BadLengthHeader, UnknownHeader
    <3>. QED BY <2>2, <3>1, <3>2 DEF HeaderReceived, PayloadHeader, ConsumedHeader, routed
  <2>3. ASSUME NEW address, RoutingRequestAccepted(address) PROVE FALSE
    BY <2>3 DEF RoutingRequestAccepted
  <2>4. ASSUME NEW address, NEW action, RoutingRequestAnswered(address, action) PROVE Kept
    BY <2>1, <2>4 DEF RoutingRequestAnswered
  <2>5. CASE AliveCheckConfirmed
    BY <2>5 DEF AliveCheckConfirmed, routed
  <2>6. ASSUME NEW address, AliveCheckMismatch(address) PROVE FALSE
    BY <2>6 DEF AliveCheckMismatch, Close
  <2>7. CASE ConnectionLost \/ SendJobReleased
    BY <2>7 DEF ConnectionLost, SendJobReleased, Close, routed
  <2>. QED BY <1>2, <2>2, <2>3, <2>4, <2>5, <2>6, <2>7 DEF ConnectionStep
<1>3. CASE TimerStep
  BY <1>3 DEF TimerStep, TimerElapses, TimerExpired, ExpiryCloses, Close, routed
<1>4. CASE UNCHANGED vars
  BY <1>4 DEF vars
<1>. QED BY <1>0, <1>1, <1>2, <1>3, <1>4 DEF Next, TimerStep

(* See InitialTimeoutStays. *)
LEMMA FreshMoves ==
    ASSUME Inv, Fresh, [Next]_vars
    PROVE  state' \in {"INACTIVE", "ACTIVATING", "CLOSING", "SHUTDOWN"}
<1> USE DEF Fresh
<1>0. ~RoutingActivationProceeds
  BY DEF RoutingActivationProceeds, Inv, CompletingState
<1>1. ASSUME NEW kind, SendOrClose(kind) PROVE state' \in {"INACTIVE", "CLOSING", "SHUTDOWN"}
  BY <1>1 DEF SendOrClose, HandOver, Close
<1>2. CASE OwnerStep
  BY <1>2 DEF OwnerStep, Resume, Start, OwnerCloses, StartAliveCheck, SuspendSending,
       ResumeSending, Shutdown, RoutingActivationCompleted, RoutingActivationSucceeds,
       RoutingActivationFails, RoutingActivationTooLate, DecisionDue, Close
<1>3. CASE ConnectionStep
  <2>1. CASE HeaderReceived
    BY <1>1, <2>1 DEF HeaderReceived, BadVersionHeader, BadLengthHeader, PayloadHeader,
                      ConsumedHeader, UnknownHeader
  <2>2. ASSUME NEW address, NEW action, RoutingRequestAnswered(address, action)
        PROVE  state' \in {"INACTIVE", "CLOSING", "SHUTDOWN"}
    BY <1>1, <2>2 DEF RoutingRequestAnswered
  <2>. QED BY <1>3, <2>1, <2>2
           DEF ConnectionStep, RoutingRequestAccepted, AliveCheckConfirmed, AliveCheckMismatch,
               ConnectionLost, SendJobReleased, Close
<1>4. CASE TimerStep
  BY <1>4 DEF TimerStep, TimerElapses, TimerExpired, Close
<1>5. CASE UNCHANGED vars
  BY <1>5 DEF vars
<1>. QED BY <1>0, <1>2, <1>3, <1>4, <1>5 DEF Next, TimerStep

(* The initial inactivity timeout is executed, whatever the tester sends   *)
(* and however the headers, decisions and releases interleave with it, so  *)
(* that a tester without an accepted routing request keeps its connection  *)
(* only in CLOSING: see InitialTimeoutWorks and timerExpired().            *)
THEOREM InitialTimeout == FairSpec => InitialTimeoutWorks
<1> DEFINE Running == Fresh /\ timer = "running"
           Due == Fresh /\ timer = "due"
           Closing == state = "CLOSING"
           Gone == state = "SHUTDOWN"
           Over == state \in {"ACTIVATING", "SHUTDOWN"} \/ disposed
<1>1. Inv /\ callback /\ state = "INACTIVE" => Running \/ Due \/ Over
  BY DEF Inv, TypeOK, LiveIsTimed, Fresh
<1>2. Inv /\ Running /\ [Next]_vars => Running' \/ Due' \/ Closing' \/ Over'
  BY InitialTimeoutStays, FreshMoves DEF Fresh
<1>3. Inv /\ Due /\ [Next]_vars => Due' \/ Closing' \/ Over'
  BY InitialTimeoutStays, FreshMoves DEF Fresh
<1>4. Inv /\ Running /\ [Next]_vars /\ <<TimerElapses>>_vars => Due' \/ Closing' \/ Over'
  BY InitialTimeoutStays, FreshMoves DEF Fresh, TimerElapses
<1>5. Due /\ <<TimerExpired>>_vars => Over'
  BY DEF Fresh, TimerExpired, ExpiryCloses, Close
<1>6. (Running => CanElapse) /\ (Inv /\ Due => CanExpire)
  BY DEF Fresh, CanElapse, CanExpire, Inv, CompletingState
<1>7. Gone => Over
  OBVIOUS
<1>8. disposed => Over
  OBVIOUS
<1> HIDE DEF Running, Due
<1>. QED BY <1>1, <1>2, <1>3, <1>4, <1>5, <1>6, <1>7, <1>8, Invariant, PTL
         DEF FairSpec, Spec, Fairness, InitialTimeoutWorks, ClosingEnds

-----------------------------------------------------------------------------
(* A routing connection with an open alive check. *)
Open == Waiting /\ state = "ACTIVE" /\ ~disposed

(* The safety half of AliveCheckEnds: nothing but a header and another     *)
(* check of the owner postpones the end of an open check.                  *)
LEMMA OpenCheckStays ==
    ASSUME Inv, Open, [Next]_vars, ~<<HeaderReceived>>_vars, ~<<StartAliveCheck>>_vars, Open'
    PROVE  timer' = timer \/ timer' = "due"
<1> USE DEF Open, Waiting, Inv, PendingState
<1>0. ~RoutingActivationProceeds
  BY DEF RoutingActivationProceeds, CompletingState
<1>1. CASE UNCHANGED vars
  BY <1>1 DEF vars
<1>2. CASE Next /\ ~HeaderReceived /\ ~StartAliveCheck
  <2>1. CASE RoutingActivationCompleted
    BY <2>1 DEF RoutingActivationCompleted, RoutingActivationSucceeds, RoutingActivationFails,
                RoutingActivationTooLate, DecisionDue
  <2>2. CASE OwnerStep /\ ~RoutingActivationCompleted
    BY <1>2, <2>2 DEF OwnerStep, Resume, Start, OwnerCloses, Close, SuspendSending, ResumeSending,
                      Shutdown
  <2>3. CASE ConnectionStep
    <3>1. ASSUME NEW address, NEW action, RoutingRequestAnswered(address, action)
          PROVE  timer' = timer
      BY <3>1 DEF RoutingRequestAnswered, SendOrClose, Close
    <3>2. ASSUME NEW address, RoutingRequestAccepted(address) \/ AliveCheckMismatch(address)
          PROVE  FALSE
      BY <3>2 DEF RoutingRequestAccepted, AliveCheckMismatch, Close
    <3>3. CASE AliveCheckConfirmed \/ ConnectionLost \/ SendJobReleased
      BY <3>3 DEF AliveCheckConfirmed, ConnectionLost, SendJobReleased, Close
    <3>. QED BY <1>2, <2>3, <3>1, <3>2, <3>3 DEF ConnectionStep
  <2>4. CASE TimerStep
    BY <2>4 DEF TimerStep, TimerElapses, TimerExpired, ExpiryCloses, Close
  <2>. QED BY <1>0, <1>2, <2>1, <2>2, <2>3, <2>4 DEF Next, TimerStep
<1>. QED BY <1>1, <1>2

(* An open alive check ends by the timer it shares with the general        *)
(* inactivity, unless headers or new checks keep re-arming that timer or   *)
(* the connection is stuck in CLOSING: see AliveCheckEnds,                 *)
(* startAliveCheck() and timerExpired().                                   *)
THEOREM AliveCheck == FairSpec => AliveCheckEnds
<1> DEFINE Running == Open /\ timer = "running"
           Due == Open /\ timer = "due"
           Closing == state = "CLOSING"
           Gone == state = "SHUTDOWN"
           Over == ~Waiting \/ disposed
<1>1. Inv /\ Waiting => Running \/ Due \/ Closing \/ Over
  BY DEF Inv, TypeOK, State, LiveIsTimed, PendingState, Open, Waiting
<1>2. /\ Inv /\ Running /\ [Next]_vars
      /\ ~<<HeaderReceived>>_vars /\ ~<<StartAliveCheck>>_vars
      => Running' \/ Due' \/ ~Open'
  BY OpenCheckStays DEF Open
<1>3. /\ Inv /\ Due /\ [Next]_vars
      /\ ~<<HeaderReceived>>_vars /\ ~<<StartAliveCheck>>_vars
      => Due' \/ ~Open'
  BY OpenCheckStays DEF Open
<1>4. /\ Inv /\ Running /\ [Next]_vars
      /\ ~<<HeaderReceived>>_vars /\ ~<<StartAliveCheck>>_vars
      /\ <<TimerElapses>>_vars
      => Due' \/ ~Open'
  BY OpenCheckStays DEF Open, TimerElapses
<1>5. Due /\ <<TimerExpired>>_vars => ~Open'
  BY DEF Open, TimerExpired, ExpiryCloses, Close
<1>6. (Running => CanElapse) /\ (Inv /\ Due => CanExpire)
  BY DEF Open, Waiting, CanElapse, CanExpire, Inv, CompletingState, PendingState
<1>7. Inv /\ ~Open => Closing \/ Over
  BY DEF Inv, TypeOK, State, PendingState, Open, Waiting
<1>8. Gone => Over
  BY DEF Waiting
<1>. HIDE DEF Running, Due
<1>. QED BY <1>1, <1>2, <1>3, <1>4, <1>5, <1>6, <1>7, <1>8, Invariant, PTL
         DEF FairSpec, Spec, Fairness, AliveCheckEnds, ClosingEnds

-----------------------------------------------------------------------------
(* A closing job at place i of the send queue. *)
ClosesAt(i) == i \in DOMAIN jobs /\ jobs[i] = "close"

(* A queue that is kept or gets longer keeps its closing job in place. *)
LEMMA QueueKept ==
    ASSUME TypeOK, NEW i \in Nat \ {0}, ClosesAt(i), jobs' = jobs \/ \E kind \in JobKind : jobs' = Append(jobs, kind)
    PROVE  ClosesAt(i)'
<1>1. jobs \in Seq(JobKind)
  BY DEF TypeOK
<1>2. ASSUME NEW kind \in JobKind, jobs' = Append(jobs, kind) PROVE ClosesAt(i)'
  <2>1. jobs' \in Seq(JobKind) /\ Len(jobs') = Len(jobs) + 1 /\ jobs'[i] = jobs[i]
    BY <1>1, <1>2 DEF ClosesAt
  <2>. QED BY <1>1, <2>1 DEF ClosesAt
<1>. QED BY <1>2 DEF ClosesAt

(* Until the connection is closed, a closing job keeps its place or moves  *)
(* one place to the front, and the release of a job moves it.              *)
LEMMA ClosingJobStays ==
    ASSUME Inv, [Next]_vars, NEW i \in Nat \ {0}, ClosesAt(i), state # "SHUTDOWN"
    PROVE  \/ state' = "SHUTDOWN"
           \/ ClosesAt(i - 1)'
           \/ ClosesAt(i)' /\ ~SendJobReleased
<1>0. jobs \in Seq(JobKind) /\ "keep" \in JobKind /\ "close" \in JobKind /\ TypeOK
  BY DEF Inv, TypeOK, JobKind
<1>1. CASE SendJobReleased
  <2>1. CASE i = 1
    <3>1. ReleaseCloses
      BY <1>0, <2>1 DEF ReleaseCloses, ClosesAt
    <3>. QED BY <1>1, <3>1 DEF SendJobReleased, Close
  <2>2. CASE i # 1
    <3>1. jobs' = Tail(jobs) /\ jobs # <<>>
      BY <1>1 DEF SendJobReleased
    <3>2. i - 1 \in DOMAIN jobs' /\ jobs'[i - 1] = jobs[i]
      BY <1>0, <2>2, <3>1 DEF ClosesAt
    <3>. QED BY <3>2 DEF ClosesAt
  <2>. QED BY <2>1, <2>2
<1>2. CASE ~SendJobReleased
  <2> DEFINE Kept == jobs' = jobs \/ \E kind \in JobKind : jobs' = Append(jobs, kind)
  <2>1. ASSUME NEW kind \in JobKind, HandOver(kind) PROVE Kept
    BY <2>1 DEF HandOver
  <2>2. ASSUME NEW kind \in JobKind, SendOrClose(kind) PROVE Kept
    BY <2>1, <2>2 DEF SendOrClose
  <2>3. ASSUME OwnerStep PROVE Kept
    <3>1. ASSUME StartAliveCheck \/ RoutingActivationSucceeds \/ RoutingActivationFails PROVE Kept
      BY <1>0, <2>1, <3>1 DEF StartAliveCheck, RoutingActivationSucceeds, RoutingActivationFails
    <3>. QED BY <2>3, <3>1 DEF OwnerStep, RoutingActivationCompleted, RoutingActivationTooLate,
                               Resume, Start, OwnerCloses, SuspendSending, ResumeSending, Shutdown
  <2>4. ASSUME ConnectionStep PROVE Kept
    <3>1. ASSUME HeaderReceived PROVE Kept
      BY <1>0, <2>2, <3>1 DEF HeaderReceived, BadVersionHeader, BadLengthHeader, PayloadHeader,
                              ConsumedHeader, UnknownHeader
    <3>2. ASSUME NEW address, NEW action, RoutingRequestAnswered(address, action) PROVE Kept
      <4>1. AnswerKind(address, action) \in JobKind
        BY <1>0 DEF AnswerKind
      <4>. QED BY <2>2, <3>2, <4>1 DEF RoutingRequestAnswered
    <3>. QED BY <1>2, <2>4, <3>1, <3>2 DEF ConnectionStep, RoutingRequestAccepted,
                              AliveCheckConfirmed, AliveCheckMismatch, ConnectionLost
  <2>5. ASSUME TimerStep PROVE Kept
    BY <2>5 DEF TimerStep, TimerElapses, TimerExpired
  <2>6. ASSUME UNCHANGED vars PROVE Kept
    BY <2>6 DEF vars
  <2>7. ASSUME RoutingActivationProceeds PROVE Kept
    BY <2>7 DEF RoutingActivationProceeds
  <2>8. Kept
    BY <2>3, <2>4, <2>5, <2>6, <2>7 DEF Next, TimerStep
  <2>. QED BY <1>0, <1>2, <2>8, QueueKept
<1>. QED BY <1>1, <1>2

(* A closing job in the send queue of a tester that reads does not get     *)
(* stuck at any place of it: it moves one place to the front, or the       *)
(* connection is closed; at the first place only the second is left, as    *)
(* there is no place 0.  One step of ClosingJobCloses, for every length of *)
(* the queue and every pool.                                               *)
THEOREM ClosingJobAdvances ==
    ASSUME NEW i \in Nat \ {0}
    PROVE  Spec /\ TesterReads => (ClosesAt(i) ~> ClosesAt(i - 1) \/ state = "SHUTDOWN")
<1> DEFINE Gone == state = "SHUTDOWN"
<1>1. Inv /\ ClosesAt(i) /\ ~Gone /\ [Next]_vars => ClosesAt(i)' \/ ClosesAt(i - 1)' \/ Gone'
  BY ClosingJobStays
<1>2. Inv /\ ClosesAt(i) /\ ~Gone /\ [Next]_vars /\ <<SendJobReleased>>_vars
          => ClosesAt(i - 1)' \/ Gone'
  BY ClosingJobStays
<1>3. ClosesAt(i) => ~(jobs = <<>>)
  BY DEF ClosesAt
<1>. QED BY <1>1, <1>2, <1>3, Invariant, PTL DEF Spec, TesterReads

(* A closing job leaves the send queue only by closing the connection: a   *)
(* queue that runs empty has done what ClosingJobCloses promises, for      *)
(* every pool.                                                             *)
THEOREM DrainedQueueCloses ==
    Spec /\ []<>(jobs = <<>>) => (ClosingJobQueued ~> state = "SHUTDOWN")
<1> DEFINE Gone == state = "SHUTDOWN"
<1>1. Inv /\ ClosingJobQueued /\ ~Gone /\ [Next]_vars => ClosingJobQueued' \/ Gone'
  <2> SUFFICES ASSUME Inv, ClosingJobQueued, ~Gone, [Next]_vars
               PROVE  ClosingJobQueued' \/ Gone'
    OBVIOUS
  <2>1. PICK i \in DOMAIN jobs : jobs[i] = "close"
    BY DEF ClosingJobQueued
  <2>2. i \in Nat \ {0} /\ ClosesAt(i)
    BY <2>1 DEF ClosesAt, Inv, TypeOK
  <2>3. ClosesAt(i)' \/ ClosesAt(i - 1)' \/ Gone'
    BY <2>2, ClosingJobStays
  <2>. QED BY <2>3 DEF ClosesAt, ClosingJobQueued
<1>2. ClosingJobQueued => ~(jobs = <<>>)
  BY DEF ClosingJobQueued
<1>. QED BY <1>1, <1>2, Invariant, PTL DEF Spec
=============================================================================
