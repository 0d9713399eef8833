--------------------------- MODULE DoIpConnection ---------------------------
(***************************************************************************)
(* One DoIP server connection of the ECU: DoIpServerConnectionHandler.cpp. *)
(* The handler lives in one asynchronous context, so each entry point (a   *)
(* call of the owner, a header or payload of the tester, a timer, the      *)
(* release of a send job) is one atomic step, except that a successful     *)
(* routing activation takes two, as the handler may be closed and then     *)
(* made active within it.  The interleaving of those entry points is what  *)
(* the model explores.  Its collaborators -- the TCP connection, the owner *)
(* that implements the callback interface, the timer service -- are        *)
(* modelled from how the handler uses them.                                *)
(*                                                                         *)
(* Abstracted: addresses are members of a small set, a message is its kind *)
(* and whether it is well formed, a send job is whether it closes the      *)
(* connection when released, a timeout may elapse at any time after it is  *)
(* armed.  `calls' records what the handler told its owner in the last     *)
(* step, in order; it influences nothing.                                  *)
(***************************************************************************)
EXTENDS Naturals, Sequences

CONSTANTS
    Addresses,          \* logical addresses a tester may put into a message
    INVALID_ADDRESS,    \* TransportMessage::INVALID_ADDRESS
    PoolSize            \* number of jobs in _sendJobPool

ASSUME AddressAssumption == INVALID_ADDRESS \notin Addresses
ASSUME PoolAssumption == PoolSize \in Nat \ {0}

VARIABLES
    state,              \* _state
    callback,           \* _callback # nullptr: start() has been called
    sourceAddress,      \* _sourceAddress
    aliveCheckPending,  \* _aliveCheckPending
    isOrWasRouting,     \* _isOrWasRouting
    timer,              \* _timerTimeout: off, running, or due but not yet executed
    jobs,               \* jobs taken from _sendJobPool, in the order they are sent
    socket,             \* the TCP connection below
    suspended,          \* sending is suspended on that connection
    receiving,          \* the payload the TCP connection is collecting
    asked,              \* the owner has a routing activation to complete
    completing,         \* routingActivationCompleted() is between its two steps
    disposed,           \* the owner has called shutdown() and drops the handler
    calls               \* what the last step called on the owner

owner  == <<asked, completing, disposed>>
wire   == <<suspended, receiving>>
routed == <<callback, sourceAddress, isOrWasRouting>>
vars   == <<state, callback, sourceAddress, aliveCheckPending, isOrWasRouting, timer,
            jobs, socket, suspended, receiving, asked, completing, disposed, calls>>

State   == {"INACTIVE", "ACTIVATING", "ACTIVE", "CLOSING", "SHUTDOWN"}
JobKind == {"keep", "close"}
Verdict == {"alive", "notAlive"}
Call    == {"handleRoutingActivationRequest", "routingActive", "connectionClosed"} \cup Verdict
Address == Addresses \cup {INVALID_ADDRESS}

(* What checkRoutingActivation() of the owner's filter answers. *)
FilterAction == {"CONTINUE", "RESPOND", "REJECT"}

TypeOK ==
    /\ state \in State
    /\ callback \in BOOLEAN
    /\ sourceAddress \in Address
    /\ aliveCheckPending \in BOOLEAN
    /\ isOrWasRouting \in BOOLEAN
    /\ timer \in {"off", "running", "due"}
    /\ jobs \in Seq(JobKind) /\ Len(jobs) <= PoolSize
    /\ socket \in {"open", "closed", "aborted"}
    /\ suspended \in BOOLEAN
    /\ receiving \in {"nothing", "activation", "aliveResponse"}
    /\ asked \in BOOLEAN
    /\ completing \in BOOLEAN
    /\ disposed \in BOOLEAN
    /\ calls \in Seq(Call)

Init ==
    /\ state = "INACTIVE"
    /\ callback = FALSE
    /\ sourceAddress = INVALID_ADDRESS
    /\ aliveCheckPending = FALSE
    /\ isOrWasRouting = FALSE
    /\ timer = "off"
    /\ jobs = <<>>
    /\ socket = "open"
    /\ suspended = FALSE
    /\ receiving = "nothing"
    /\ asked = FALSE
    /\ completing = FALSE
    /\ disposed = FALSE
    /\ calls = <<>>

-----------------------------------------------------------------------------
(* Steps several entry points share.                                       *)

isRouting == state = "ACTIVE"

(* Mutant: one job more than the pool holds. *)
PoolHasRoomOffByOne == Len(jobs) <= PoolSize

PoolHasRoom == Len(jobs) < PoolSize

(* Mutant: close() forgets the open alive check. *)
CloseCallsNoVerdict(pending) == <<"connectionClosed">>

(* Mutant: close() reports a verdict whether a check is open or not. *)
CloseCallsVerdict(pending) == <<"connectionClosed", "notAlive">>

(* The callbacks close() makes, in its order. *)
CloseCalls(pending) ==
    IF pending THEN <<"connectionClosed", "notAlive">> ELSE <<"connectionClosed">>

(* The TCP connection is closed in the given mode, or was by the peer; it  *)
(* drops the payload it was collecting and delivers nothing any more.      *)
ConnectionCloses(mode) ==
    /\ socket' = mode
    /\ receiving' = "nothing"

(* close() from a state other than SHUTDOWN.  The jobs still queued are    *)
(* released by the TCP connection, then or later: see SendJobReleased.     *)
Close(mode, said) ==
    /\ state' = "SHUTDOWN"
    /\ ConnectionCloses(mode)
    /\ timer' = "off"
    /\ calls' = said

(* A job was taken from the pool and handed to sendMessage(); a refused job *)
(* goes straight back to the pool.                                         *)
HandOver(kind) ==
    /\ state' = IF kind = "close" THEN "CLOSING" ELSE state
    /\ \/ socket = "open" /\ jobs' = Append(jobs, kind)
       \/ jobs' = jobs
    /\ UNCHANGED socket

(* sendNack() and sendRoutingActivationResponse(): send, or close when the *)
(* pool is empty.                                                          *)
SendOrClose(kind) ==
    \/ /\ PoolHasRoom
       /\ HandOver(kind)
       /\ calls' = <<>>
       /\ receiving' = "nothing"
    \/ /\ ~PoolHasRoom
       /\ Close("closed", CloseCalls(aliveCheckPending))
       /\ UNCHANGED jobs

-----------------------------------------------------------------------------
(* Entry points of the owner.                                              *)

(* resume(): take over a connection that was routing before.  The owner    *)
(* does so at most once and then starts the handler.                       *)
Resume(address) ==
    /\ ~callback /\ state = "INACTIVE"
    /\ sourceAddress' = address
    /\ state' = "ACTIVE"
    /\ isOrWasRouting' = TRUE
    /\ calls' = <<>>
    /\ UNCHANGED <<callback, aliveCheckPending, timer, jobs, socket, wire, owner>>

Start ==
    /\ ~callback
    /\ callback' = TRUE
    /\ timer' = "running"
    /\ calls' = IF state = "INACTIVE" THEN <<>> ELSE <<"routingActive">>
    /\ UNCHANGED <<state, sourceAddress, aliveCheckPending, isOrWasRouting, jobs, socket,
                   wire, owner>>

(* close() as the owner calls it. *)
OwnerCloses ==
    /\ callback /\ state # "SHUTDOWN"
    /\ Close("closed", CloseCalls(aliveCheckPending))
    /\ UNCHANGED <<routed, aliveCheckPending, jobs, suspended, owner>>

(* startAliveCheck().  Before start() it finds no callback and does        *)
(* nothing; the owner does not call it between resume() and start().       *)
StartAliveCheck ==
    /\ callback
    /\ \/ /\ state = "ACTIVE"
          /\ aliveCheckPending' = TRUE
          /\ \/ /\ PoolHasRoom
                /\ HandOver("keep")
                /\ timer' = "running"
                /\ calls' = <<>>
                /\ UNCHANGED receiving
             \/ /\ ~PoolHasRoom
                /\ Close("closed", CloseCalls(TRUE))
                /\ UNCHANGED jobs
       \/ /\ state # "ACTIVE"
          /\ calls' = <<"notAlive">>
          /\ UNCHANGED <<state, aliveCheckPending, timer, jobs, socket, receiving>>
    /\ UNCHANGED <<routed, suspended, owner>>

(* Mutant: the owner's decision counts in whatever state it arrives. *)
DecisionDueAlways == callback

(* routingActivationCompleted() does nothing unless it is still awaited. *)
DecisionDue == state = "ACTIVATING"

(* routingActivationCompleted(): the answer to                             *)
(* handleRoutingActivationRequest().  On success it sends the response,    *)
(* or closes the connection for the lack of a send job ...                 *)
RoutingActivationSucceeds ==
    /\ asked /\ asked' = FALSE
    /\ DecisionDue
    /\ completing' = TRUE
    /\ \/ /\ PoolHasRoom
          /\ HandOver("keep")
          /\ calls' = <<>>
          /\ UNCHANGED <<timer, receiving>>
       \/ /\ ~PoolHasRoom
          /\ Close("closed", CloseCalls(aliveCheckPending))
          /\ UNCHANGED jobs
    /\ UNCHANGED <<routed, aliveCheckPending, suspended, disposed>>

(* ... and then goes on to ACTIVE in either case. *)
RoutingActivationProceeds ==
    /\ completing /\ completing' = FALSE
    /\ state' = "ACTIVE"
    /\ isOrWasRouting' = TRUE
    /\ timer' = "running"
    /\ calls' = <<"routingActive">>
    /\ UNCHANGED <<callback, sourceAddress, aliveCheckPending, jobs, socket, wire, asked,
                   disposed>>

RoutingActivationFails ==
    /\ asked /\ asked' = FALSE
    /\ DecisionDue
    /\ \/ /\ PoolHasRoom
          /\ HandOver("close")
          /\ calls' = <<>>
          /\ UNCHANGED <<timer, receiving>>
       \/ /\ ~PoolHasRoom
          /\ Close("closed", CloseCalls(aliveCheckPending))
          /\ UNCHANGED jobs
    /\ UNCHANGED <<routed, aliveCheckPending, suspended, completing, disposed>>

(* The answer comes when the connection has left ACTIVATING. *)
RoutingActivationTooLate ==
    /\ asked /\ asked' = FALSE
    /\ ~DecisionDue
    /\ calls' = <<>>
    /\ UNCHANGED <<state, routed, aliveCheckPending, timer, jobs, socket, wire,
                   completing, disposed>>

SuspendSending ==
    /\ socket = "open" /\ ~suspended
    /\ suspended' = TRUE
    /\ calls' = <<>>
    /\ UNCHANGED <<state, routed, aliveCheckPending, timer, jobs, socket, receiving, owner>>

ResumeSending ==
    /\ suspended
    /\ suspended' = FALSE
    /\ calls' = <<>>
    /\ UNCHANGED <<state, routed, aliveCheckPending, timer, jobs, socket, receiving, owner>>

(* shutdown(): the owner's last call. *)
Shutdown ==
    /\ timer' = "off"
    /\ disposed' = TRUE
    /\ calls' = <<>>
    /\ UNCHANGED <<state, routed, aliveCheckPending, jobs, socket, wire, asked,
                   completing>>

-----------------------------------------------------------------------------
(* Entry points of the TCP connection.                                     *)

(* A header arrives when no payload is being collected. *)
Listening == callback /\ socket = "open" /\ receiving = "nothing"

(* Wrong protocol version, or a wrong payload length: NACK, then close. *)
BadVersionHeader ==
    /\ Listening
    /\ SendOrClose("close")
    /\ PoolHasRoom => UNCHANGED timer
    /\ UNCHANGED <<routed, aliveCheckPending, suspended, owner>>

(* Mutant: the old timeout is cancelled and no new one scheduled. *)
TimerAfterHeaderOff == IF isRouting THEN "off" ELSE timer

(* Mutant: any header re-arms the timer, not only one of a routing tester. *)
TimerAfterHeaderAlways == "running"

(* The timer after headerReceived() has seen a header of the right version. *)
TimerAfterHeader == IF isRouting THEN "running" ELSE timer

BadLengthHeader ==
    /\ Listening
    /\ SendOrClose("close")
    /\ PoolHasRoom => timer' = TimerAfterHeader
    /\ UNCHANGED <<routed, aliveCheckPending, suspended, owner>>

(* Routing activation request or alive check response of the right length: *)
(* its payload is collected, unless the TCP connection refuses.            *)
PayloadHeader(kind) ==
    /\ Listening
    /\ receiving' \in {kind, "nothing"}
    /\ timer' = TimerAfterHeader
    /\ calls' = <<>>
    /\ UNCHANGED <<state, routed, aliveCheckPending, jobs, socket, suspended, owner>>

(* Negative ACK, diagnostic ACK of the tester, or a type one of the        *)
(* message handlers takes: nothing but the timer changes here.             *)
ConsumedHeader ==
    /\ Listening
    /\ timer' = TimerAfterHeader
    /\ calls' = <<>>
    /\ UNCHANGED <<state, routed, aliveCheckPending, jobs, socket, wire, owner>>

(* A type nobody handles: NACK, the connection stays. *)
UnknownHeader ==
    /\ Listening
    /\ SendOrClose("keep")
    /\ PoolHasRoom => timer' = TimerAfterHeader
    /\ UNCHANGED <<routed, aliveCheckPending, suspended, owner>>

HeaderReceived ==
    \/ BadVersionHeader
    \/ BadLengthHeader
    \/ PayloadHeader("activation")
    \/ PayloadHeader("aliveResponse")
    \/ ConsumedHeader
    \/ UnknownHeader

(* Mutant: a second request may still bind another address. *)
FirstRequestLate == state \in {"INACTIVE", "ACTIVATING"}

FirstRequest == state = "INACTIVE"

(* routingActivationRequestReceived(): a first acceptable request is       *)
(* passed on to the owner; everything else is answered at once.            *)
RoutingRequestAccepted(address) ==
    /\ receiving = "activation" /\ receiving' = "nothing"
    /\ FirstRequest
    /\ sourceAddress' = address
    /\ state' = "ACTIVATING"
    /\ asked' = TRUE
    /\ calls' = <<"handleRoutingActivationRequest">>
    /\ UNCHANGED <<callback, aliveCheckPending, isOrWasRouting, timer, jobs, socket,
                   suspended, completing, disposed>>

(* What the immediate answer does to the connection: the filter's own      *)
(* response, ROUTING_SUCCESS for the address already bound, or             *)
(* ROUTING_WRONG_SOURCE_ADDRESS.                                           *)
AnswerKind(address, action) ==
    CASE action = "REJECT"  -> "close"
      [] action = "RESPOND" -> "keep"
      [] OTHER -> IF address = sourceAddress THEN "keep" ELSE "close"

RoutingRequestAnswered(address, action) ==
    /\ receiving = "activation"
    /\ action = "CONTINUE" => ~FirstRequest
    /\ SendOrClose(AnswerKind(address, action))
    /\ PoolHasRoom => UNCHANGED timer
    /\ UNCHANGED <<routed, aliveCheckPending, suspended, owner>>

(* aliveCheckResponseReceived() of the payload. *)
AliveCheckConfirmed ==
    /\ receiving = "aliveResponse" /\ receiving' = "nothing"
    /\ aliveCheckPending' = FALSE
    /\ calls' = IF aliveCheckPending THEN <<"alive">> ELSE <<>>
    /\ UNCHANGED <<state, routed, timer, jobs, socket, suspended, owner>>

AliveCheckMismatch(address) ==
    /\ receiving = "aliveResponse"
    /\ address # sourceAddress
    /\ aliveCheckPending' = FALSE
    /\ Close("closed", IF aliveCheckPending THEN <<"notAlive", "connectionClosed">>
                                            ELSE <<"connectionClosed">>)
    /\ UNCHANGED <<routed, jobs, suspended, owner>>

(* connectionClosed(): the peer or the network ends the TCP connection. *)
ConnectionLost ==
    /\ callback /\ socket = "open"
    /\ Close("closed", CloseCalls(aliveCheckPending))
    /\ UNCHANGED <<routed, aliveCheckPending, jobs, suspended, owner>>

(* Mutant: releaseSendJobAndClose() closes what is closed already. *)
ReleaseClosesTwice == Head(jobs) = "close"

(* Mutant: the release of a closing job closes only a routing connection. *)
ReleaseClosesRouting == Head(jobs) = "close" /\ state = "ACTIVE"

ReleaseCloses == Head(jobs) = "close" /\ state # "SHUTDOWN"

(* releaseSendJob() and releaseSendJobAndClose(): the oldest job has been  *)
(* sent, or is given up because the socket is gone.                        *)
SendJobReleased ==
    /\ jobs # <<>>
    /\ socket = "open" => ~suspended
    /\ jobs' = Tail(jobs)
    /\ \/ /\ ReleaseCloses
          /\ Close("closed", CloseCalls(aliveCheckPending))
       \/ /\ ~ReleaseCloses
          /\ calls' = <<>>
          /\ UNCHANGED <<state, socket, timer, receiving>>
    /\ UNCHANGED <<routed, aliveCheckPending, suspended, owner>>

-----------------------------------------------------------------------------
(* The timer service.  A timeout that has elapsed is executed in the       *)
(* handler's context, behind whatever is already queued there: until then  *)
(* setTimer() and close() can still cancel it.                             *)

TimerElapses ==
    /\ timer = "running"
    /\ timer' = "due"
    /\ calls' = <<>>
    /\ UNCHANGED <<state, routed, aliveCheckPending, jobs, socket, wire, owner>>

(* Mutant: a routing connection survives its timeout. *)
ExpiryClosesInactive == state = "INACTIVE"

ExpiryCloses == state \in {"INACTIVE", "ACTIVE"}

(* timerExpired(): a silent routing tester is cut off hard (ABORT). *)
TimerExpired ==
    /\ timer = "due" /\ callback
    /\ \/ /\ ExpiryCloses
          /\ Close(IF state = "ACTIVE" /\ ~aliveCheckPending THEN "aborted" ELSE "closed",
                   CloseCalls(aliveCheckPending))
       \/ /\ ~ExpiryCloses
          /\ timer' = "off"
          /\ calls' = <<>>
          /\ UNCHANGED <<state, socket, receiving>>
    /\ UNCHANGED <<routed, aliveCheckPending, jobs, suspended, owner>>

-----------------------------------------------------------------------------
RoutingActivationCompleted ==
    \/ RoutingActivationSucceeds
    \/ RoutingActivationFails
    \/ RoutingActivationTooLate

OwnerStep ==
    \/ \E address \in Addresses : Resume(address)
    \/ Start
    \/ OwnerCloses
    \/ StartAliveCheck
    \/ RoutingActivationCompleted
    \/ SuspendSending
    \/ ResumeSending
    \/ Shutdown

ConnectionStep ==
    \/ HeaderReceived
    \/ \E address \in Address : RoutingRequestAccepted(address)
    \/ \E address \in Address, action \in FilterAction : RoutingRequestAnswered(address, action)
    \/ AliveCheckConfirmed
    \/ \E address \in Address : AliveCheckMismatch(address)
    \/ ConnectionLost
    \/ SendJobReleased

(* The handler's context executes one entry point at a time; the clock     *)
(* runs beside it.  After shutdown() the handler is gone and nothing       *)
(* happens any more.                                                       *)
Next ==
    /\ ~disposed
    /\ \/ ~completing /\ (OwnerStep \/ ConnectionStep \/ TimerExpired)
       \/ RoutingActivationProceeds
       \/ TimerElapses

Spec == Init /\ [][Next]_vars

(* The guards of what the timer service does. *)
CanElapse == ~disposed /\ timer = "running"
CanExpire == ~disposed /\ ~completing /\ timer = "due" /\ callback

(* The timer service executes what has elapsed.  Nothing is assumed of the *)
(* owner, of the tester, of the TCP connection or of the network.  This is *)
(* weak fairness of the two actions, with their guards in place of         *)
(* ENABLED: an action is taken again and again unless it is disabled again *)
(* and again.                                                              *)
Fairness ==
    /\ []<>~CanElapse \/ []<><<TimerElapses>>_vars
    /\ []<>~CanExpire \/ []<><<TimerExpired>>_vars

FairSpec == Spec /\ Fairness

-----------------------------------------------------------------------------
(* Properties.                                                             *)

(* A started connection that waits for the tester -- for its routing       *)
(* request or for its next message -- always has a timeout armed, whatever *)
(* mix of cancelled, re-armed and expired timers led there.                *)
LiveIsTimed ==
    callback /\ state \in {"INACTIVE", "ACTIVE"} /\ ~disposed => timer # "off"

(* A handler that is shut down tells its owner nothing more: no job,       *)
(* timeout, decision or message that reaches it late reports a second      *)
(* connectionClosed() or a verdict.  It only refuses an alive check the    *)
(* owner starts then, and finishes the routing activation whose missing    *)
(* send job has just shut it down.                                         *)
ClosedForGood ==
    [][state = "SHUTDOWN" /\ calls' # <<>>
           => StartAliveCheck \/ RoutingActivationProceeds]_vars

(* An alive check of the owner is open. *)
Waiting == aliveCheckPending /\ state # "SHUTDOWN"

VerdictGiven == \E i \in DOMAIN calls : calls[i] \in Verdict

(* No alive check is lost: startAliveCheck() leaves a check open or gives  *)
(* its verdict at once, and whatever ends an open check -- the tester's    *)
(* answer, a timeout, an exhausted pool, a lost connection, the release of *)
(* a closing job -- tells the owner the verdict in the same step.          *)
EveryCheckAnswered ==
    [][/\ StartAliveCheck => Waiting' \/ VerdictGiven'
       /\ Waiting /\ ~Waiting' => VerdictGiven']_vars

(* No verdict is given twice or unasked: what the owner hears of a check   *)
(* is the outcome of one that is open or that starts in this step,         *)
(* although close() never takes back aliveCheckPending and late releases,  *)
(* decisions and timeouts reach a connection that is closed.               *)
VerdictsAreDue ==
    [][VerdictGiven' => Waiting \/ StartAliveCheck]_vars

Rank(s) == CASE s = "INACTIVE" -> 0 [] s = "ACTIVATING" -> 1 [] s = "ACTIVE" -> 2
             [] s = "CLOSING" -> 3 [] s = "SHUTDOWN" -> 4

(* The life of a connection only goes forward: one that is being closed    *)
(* never routes again and one that is shut down stays so, whatever late    *)
(* decision, timeout or send job arrives then -- with the one exception    *)
(* the code has: a routing activation that was itself just shut down by an *)
(* exhausted pool goes on to ACTIVE (see ClosedIsShutdown).                *)
LifecycleForward ==
    [][\/ Rank(state) <= Rank(state')
       \/ completing /\ state = "SHUTDOWN" /\ ~PoolHasRoom]_vars

(* The source address a tester was bound to when its routing request was   *)
(* accepted is never exchanged for another, through later requests,        *)
(* refusals and alive checks (Diag101.md: routing activation "binds the    *)
(* tester's Source Address to the connection").                            *)
AddressBound ==
    [][callback /\ state # "INACTIVE" => sourceAddress' = sourceAddress]_vars

(* A connection that is CLOSING is closed in the end.  Nothing guarantees  *)
(* that: the closing job may have been refused or may never be read, and   *)
(* timerExpired() leaves CLOSING alone.  It is the hypothesis of what      *)
(* follows.                                                                *)
ClosingEnds == state = "CLOSING" ~> state = "SHUTDOWN" \/ disposed

(* A tester that opens a connection and never gets a routing request       *)
(* accepted cannot keep it: nothing it sends postpones the initial         *)
(* inactivity timeout, and all it can reach is CLOSING.                    *)
InitialTimeoutWorks ==
    ClosingEnds =>
        (callback /\ state = "INACTIVE" ~> state \in {"ACTIVATING", "SHUTDOWN"} \/ disposed)

(* An open alive check ends, with its verdict (EveryCheckAnswered), unless *)
(* the tester keeps sending headers or the owner keeps restarting the      *)
(* check -- both re-arm the one timer the check shares with the general    *)
(* inactivity -- or the connection is stuck in CLOSING.                    *)
AliveCheckEnds ==
    \/ []<><<HeaderReceived>>_vars
    \/ []<><<StartAliveCheck>>_vars
    \/ ClosingEnds => (Waiting ~> ~Waiting \/ disposed)

(* The send queue moves: it runs empty or a job is released again and      *)
(* again, as with a tester that reads what it is sent.                     *)
TesterReads == []<>(jobs = <<>>) \/ []<><<SendJobReleased>>_vars

ClosingJobQueued == \E i \in DOMAIN jobs : jobs[i] = "close"

(* A closing job in the send queue of a tester that reads does close the   *)
(* connection, however many other jobs are queued before and behind it.    *)
ClosingJobCloses == TesterReads => (ClosingJobQueued ~> state = "SHUTDOWN")

(* DoIpServerConnectionHandler.cpp:123-125: "The                           *)
(* aliveCheckResponseReceived() callback must be called after the          *)
(* connectionClosed() callback to ensure correct handling of a new         *)
(* connection that uses the same source address".                          *)
VerdictAfterClosed ==
    \A i, j \in DOMAIN calls :
        calls[i] \in Verdict /\ calls[j] = "connectionClosed" => j < i

(* DoIpServerConnectionHandler.cpp:485: without a send job for the routing *)
(* activation response the handler logs "no send job, closing": a handler  *)
(* whose TCP connection is closed is shut down.                            *)
ClosedIsShutdown == socket # "open" => state = "SHUTDOWN"
=============================================================================
