# Formal models of the OpenBSW SOVD demo

This directory holds TLA+ models of the parts of the OpenBSW SOVD demo that have state worth
arguing about, the TLC runs that check them on small instances, and proofs that the TLA+ proof
system checks for every value of the constants. The models are translated from the sources, and
every definition is mapped to the lines it stands for in `PROJECT.json` (`map`).

Paths below are relative to `src/OpenBSW-SOVD-Demo/` unless they start with `src/`.
`overlay` is `openbsw-overlay/`.

## 1. Inventory

The demo is a POSIX build of the OpenBSW reference application (the ECU, C++), a diagnostic
adapter (Python) and a Grafana dashboard. A tester speaks DoIP (diagnostics over TCP) to the ECU;
the adapter turns HTTP requests into UDS requests over DoIP, and polls the ECU once a second to
have a history for the dashboard.

```
Grafana / browser --HTTP--> stub CDA (main.py) --DoIP/UDS--> DoIP connection handler
                            | poller thread                   | routing, alive check, timeouts
                            | history (deques)                v
                            | request threads               UDS services 0x19, 0x14, 0x22
                                                              v
                                        DTC store <-- DTC simulator (every 500 ms)
```

| Component | State | Operations | Hard behaviour | Correct when |
|---|---|---|---|---|
| DoIP server connection handler (`overlay/libs/doip/.../DoIpServerConnectionHandler.cpp`) | connection state, bound address, open alive check, one timer, send job pool | calls of the owner, header and payload of the tester, timer, release of send jobs, loss of the connection | every order of these entry points; one timer for three timeouts; the pool runs empty; late decisions and late releases | every waiting connection has a timeout, each alive check gets a verdict, the life cycle goes forward, the address stays bound |
| DTC store (`overlay/libs/uds/include/uds/dtc/`) | DTC numbers and status bits | add, find, count by mask, clear all, clear one | bits set and cleared by different writers | records survive until cleared, count and list agree |
| DTC simulator (`overlay/app/src/uds/DtcSimulator.cpp`) and simulated identifiers (`ReadIdentifierSimulated.cpp`) | step counter, three sensors | `init`, `step` | toggle and sensor link change the same DTC in one step; unsigned values at their lower bound | linked DTCs agree with their sensors, values walk inside their range |
| UDS services 0x19 / 0x14 (`overlay/libs/uds/src/services/`) | none (the store) | count, list, extended data, clear | masks and clears against history | as for the store |
| UDS system life cycle (`overlay/app/src/systems/UdsSystem.cpp`) | registered jobs, timers, transport layer | `init`, `run`, `shutdown`, tick | ticks while shutting down; a second `init` | jobs and timers paired, no duplicate DTCs |
| Stub CDA, poller and Grafana endpoints (`sovd-cda/main.py`) | sensor and fault histories | one poll per second; reads by request threads | late answers, response pending, unreachable ECU; iteration while the poller writes; full history | readings are those of their sensor and poll, requests are answered, the poller goes on |
| Stub CDA, SOVD endpoints (`sovd-cda/main.py`) | none (one connection per request) | read faults, fault detail, clear, read data, catalog, current faults | requests of several clients and polls at once; response pending, late and lost responses, timeouts; status codes | an answer is what the ECU reported between call and answer; a call acts at most once, also when its answer is lost |
| Requirement link tracing (`src/.syspilot/scripts/python/get_need_links.py`) | the build it reads; the walk: visited set, recursion | `ensure_build`, `get_links`, `trace_impact`, `get_all_linked_ids` | a build that fails half way; cycles, shared elements, depth limit, order of links | the elements within the depth and no others |
| Demo launcher (`demo.sh`) | PID files, containers, network interface, port | bring-up in two modes, stop, status | stale and reused PIDs, a bring-up or stop that ends half way, late signals, containers that docker does not stop, two modes on one port | nothing started is lost, a stop undoes any start |
| ODX / MDD generators, real CDA entry point, catalog, dashboards, tests, workflows | none, or external | - | - | - |

`src/doc/` and `HACKATHON.md` describe the demo; `src/tests/` are system tests against a running
ECU. They are the source of the expectations quoted in the findings. The OpenBSW base and the real
CDA are git submodules whose content is not part of the tree: what the code uses of them (TCP
connection, owner of the DoIP connections, timer service, `isRouting`) is modelled from its use and
marked external in the map.

The hazards of this code, each at its line and with the properties that watch it, are in
`PROJECT.json` (`hazards`); those without a property say what is missing.

## 2. Modules

| Module | Models |
|---|---|
| `DoIpConnection` | one DoIP server connection with its owner, its tester, its timer and its send jobs |
| `DoIpConnectionProofs` | theorems about it |
| `SimulatedSensor` | the bounded random walk of a sensor value |
| `DtcMemory` | DTC store, simulator, services 0x19 and 0x14 (uses `SimulatedSensor`) |
| `DtcMemoryProofs` | theorems about it |
| `SovdCda` | poller, histories and Grafana endpoints of the stub CDA |
| `SovdCdaProofs` | theorems about it |
| `DiagnosticServices` | the UDS requests of the adapter as the ECU executes them (extends `DtcMemory`) |
| `FaultService` | abstract: what the diagnostic API promises a caller (extends `DiagnosticServices`) |
| `SovdEndpoints` | the SOVD endpoints and the polls, with their connections, composed with the fault memory; implements `FaultService` |
| `SovdEndpointsProofs` | theorems about it, the implementation among them |
| `NeedLinks` | the requirement link trace |
| `NeedLinksProofs` | theorems about it |
| `DemoLauncher` | bring-up and stop of the demo's processes |
| `DemoLauncherProofs` | theorems about it |
| `NaturalInduction` | induction over the natural numbers, proved from the well-foundedness of `<`; used by the proofs about loops and paths |
| `MC...` | constants of the TLC instances |

Operators named "Mutant" in a comment are faulty variants of a definition. No specification uses
them; they are there to confirm that each property notices a plausible mistake in the code.

### DoIpConnection

The handler runs in one asynchronous context, so each entry point is one atomic action and the
model explores all their orders. One of them is two actions: when a routing activation succeeds, the
response is sent or, with an empty pool, `close()` sets SHUTDOWN (`RoutingActivationSucceeds`), and then
the handler goes on to ACTIVE (`RoutingActivationProceeds`); nothing but the clock runs in between
(`completing`), but the state in between is one that properties see. Variables are the members of the class (`state`, `callback`,
`sourceAddress`, `aliveCheckPending`, `isOrWasRouting`, the timer, the jobs taken from the pool)
plus the environment the handler acts on: the socket, whether sending is suspended, the payload being
collected, whether the owner owes a routing decision. `calls` holds what the last step told the
owner, in order. A timeout is `off`, `running` or `due`: a due one waits in the context's queue and
can still be cancelled, which is how a late message races the timer.

Actions and code: `Resume`, `Start`, `OwnerCloses`, `StartAliveCheck`, `RoutingActivation*`,
`SuspendSending`, `ResumeSending`, `Shutdown` are the public methods; `HeaderReceived` has one
disjunct per outcome of `headerReceived()`; `RoutingRequest*` and `AliveCheck*` are the payload
callbacks; `ConnectionLost`, `SendJobReleased` and `TimerExpired` are the callbacks from below.
`close()` (with its callbacks) and "send or close when the pool is empty" are shared operators.

Abstracted: message contents (kind, well formed or not, address), durations of timeouts, the response
code of a routing activation, the internal source address, the registration of message handlers.
Assumptions on the environment: the owner resumes a connection at most once and starts it right
after; a message accepted for sending is released later, never inside `sendMessage()`; a send on a
closed socket is refused; the queued jobs of a closed connection are released at any later time; the
payload callback comes with the header's connection still open, and a connection that is closed drops
the payload it was collecting (`ConnectionCloses`).

### SimulatedSensor, DtcMemory

A status byte is the set of its bits. `Step` is one call of `DtcSimulator::step()`: sensors, toggle
every fourth step, engine link, battery link, in this order. Random numbers are arbitrary: a sensor
moves by any delta, the toggle changes any one DTC or none. `Stepped` keeps the arithmetic (sum, then
clamp). `ClearAll` and `ClearByNumber` are service 0x14; a request with an unknown number changes
nothing. `reportNumberOfDtcByStatusMask` and `reportDtcByStatusMask` are the answers of service 0x19.
Simulator and services share one context, hence one action each.

Left out: byte layout and length checks, `setValue()` (no caller), `addDtc()` beyond what `init()` does.
The extended data record is in `SovdEndpoints`, where the adapter reads it.

### SovdCda

The grain is the access to a shared object. The poller: `Connect`, then for each identifier `PollDid`
or `PollDidFails`, `RecordFirst` between the creation of a deque and its first value, then
`PollFaults`. Requests: `StartHistory`/`NextOfHistory` iterate over a deque, `StartCurrent`/
`NextOfCurrent`/`TakeLatest` over the dictionary, with the test for an empty deque and the access to its
last reading as two steps. Python's collections raise `RuntimeError` when they have changed
during an iteration; the model compares the collection with the one the iteration started with (time
stamps differ, so an append always changes it).

External: the ECU may answer not at all, positively, negatively, or with a "response pending" (in form
a negative response) followed by the answer; the DoIP client delivers answers in order, may give up
before one arrives, and may drop what arrives before a request is acknowledged. A value is known by
the request it answers. Time stamps are poll numbers: the wall clock is taken not to go back.

### DiagnosticServices, FaultService, SovdEndpoints

`DiagnosticServices` says what a UDS request (0x19 02, 0x19 06, 0x14, 0x22) does to the fault memory, when
it gets a positive response and what that reports. Both modules below are built from it, so they differ in
nothing but in what lies between a caller and the ECU.

`FaultService` has one variable, `call`, beside the fault memory: a call is idle, called, acted, answered,
refused, unknown or over. A call acts at most once, between call and answer, and the answer is what
the ECU reported in that very step; a refused call never acts; an unknown one may still act.

`SovdEndpoints` is the code. Each request has its own thread and connection: `Receive` (or `Reject`, with 400
or 404, before a connection is opened), `ConnectFails` or `SendUds`, then `ReceiveUds` or `GiveUp`. A poll
takes the same path with its own request and appends a snapshot. The ECU's side is `EcuExecutes`,
`EcuPends`, `EcuRefuses`, `EcuLoses`, and `EcuMoves` is a simulator step. `read_faults`, `read_fault_detail`,
`clear_faults` and `read_data` are what the endpoints make of the first response; `Raised` is the handler of
`_doip_connection()`, which turns every exception, also the 422 and 504 of `_send_uds()`, into 502. So a
caller cannot tell a request that never left from one that is executed afterwards ("response pending" looks
like a refusal, a timeout like a loss): `FaultService` calls both unknown.
`clears` and `confirmed` are history variables: how many clears were executed and how many of them a client knows of.

External: connecting, sending and receiving may fail at any time, the ECU may answer late, negatively, after a
"response pending" or not at all. `WidthAssumption`: simulated values are positive int32 values, which
`Encoded` and `Decoded` carry over byte by byte. The polled identifiers are in `SovdCda`; here a poll only
asks for faults.

### NeedLinks

One invocation: `ensure_build` (with what an earlier build left, and two build commands that may be
missing, succeed, or fail with some files written), then `get_links()` or the trace. The recursion of `trace()`
is a stack of calls; lists of links are taken in every order. `links` and `links_back` are one relation:
`direction` only selects which relation is walked. An element without a file is "not found".

### DemoLauncher

`at` is the part of `demo.sh` that runs next. Each action is a function of the script; `stop_demo()` and
`start_real_cda()` are split where a service, a container or the interface is dealt with. `Abort` ends
the script before any part: Ctrl-C, or a command that fails under `set -e`. Stopping a container may fail
(`docker ps` or `docker stop`, both tolerated): then it runs on, `stop_demo()` removes the interface all
the same and reports "Demo stopped". `unstopped` is a history variable that names these containers until they end or
are replaced. An old container of the real adapter that `docker rm -f` could not remove makes `docker run`
fail over its name, which ends the script. `program` says what runs under
each process number, `signalled` who has been told to terminate and has not done so, `pidFile` what
the two PID files hold. `Exit` and `OtherStarts` let processes die and numbers be used again, so `Alive`
(`kill -0`) can be fooled as it is in the script. `port` is who listens on the SOVD port: the stub gives up
when it is taken, the container waits.

Assumed: one invocation at a time; starting a process and writing its number are one step; the number
of a PID file is not changed by others. Left out: the status display, the menu, building and installing
(they only add points at which the script may end).

## 3. Runs

| Run | Bounds | Shows |
|---|---|---|
| `doip_connection` | two addresses, pool of 3 jobs | safety: `LiveIsTimed`, `EveryCheckAnswered`, `VerdictsAreDue`, `ClosedForGood`, `LifecycleForward`, `AddressBound`; liveness: `InitialTimeoutWorks`, `AliveCheckEnds`, `ClosingJobCloses` |
| `doip_verdict_order` | pool of 2 jobs | violated: `VerdictAfterClosed` |
| `doip_closed_is_shutdown` | pool of 2 jobs | violated: `ClosedIsShutdown` |
| `dtc_safety` | 3 DTCs, sensors with 5 values | `FailureIsRecorded`, `CountMatchesList`, `RecordUntilCleared`, `LinksFollowSensors`, `BoundedWalk` |
| `cda_poller` | 2 identifiers, histories of 2, 3 polls, 2 late answers, 1 request | safety: `HistoryIsChronological`, `ReadingsAreFresh`, `LateAnswersOnly`, `NoIndexError`, `PollAdvances`; liveness: `PollerGoesOn` |
| `cda_own_readings`, `cda_history_request` | as above | violated: `ReadingsAreTheirOwn`, `FaultHistoryIsReturned` |
| `sovd_endpoints` | 2 requests of 5 operations and 1 poll, 2 DTCs, 2 simulator steps | `ReadsFollowClears`; `ImplementsService` (refinement of `FaultService`) |
| `need_links_safety` | all graphs over 4 elements, depth 2, any earlier build | `OnlyWithinDepth`, `DirectLinksListed`, `CompleteUnlessAmbiguous`, `CompleteIfDeepEnough` |
| `need_links_complete` | as above | violated: `AllWithinDepth` |
| `demo_launcher` | 3 process numbers | safety: `NoOrphan`, `InterfaceInUse`; liveness: `StoppedMeansGone` |
| `demo_smoke_test` | as above | violated: `SmokeTestMeetsItsCda` |

Why the bounds are enough for the interesting cases:

- DoIP: two addresses are the one that is bound and another one. A pool of three holds a job before
  and behind a closing job and runs empty in every state, and the proofs below hold for any pool.
- DTC: one DTC for each link and one that is only toggled. The sensor ranges are scaled to five values
  with values below, at, between and above the thresholds, the battery starts at its upper bound and
  the speed can only be zero, so the clamp acts on both sides. In the instance one step can
  cross the band between the thresholds, which the real ranges do not allow: it explores more, not less.
- CDA: two identifiers are needed for an answer to be taken for another one, three polls overflow a
  history of two. Requests change nothing, so one beside the poller sees everything.
- Endpoints: a caller acts once, so one request that clears and one that reads, or two that clear, beside a
  poll are the smallest set in which each order of three actors occurs; which of them asks what is left open. The
  sensor is constantly too hot, so each simulator step brings the cleared fault back, and the second DTC
  shows which DTCs a clear reaches; two steps put one before and one behind a clear. Requests are
  symmetric (no property tells them apart, and no liveness is checked).
- NeedLinks: depth 2 is the program's default and the first at which the order of the walk matters;
  four elements allow a short and a long path to the same element and an element behind it. The builds
  with files of two elements are those for which depth 2 must be enough.
- Launcher: three numbers are the ECU, the stub and a third that an old process, another program or a
  second copy can have; with more, nothing new can be confused. The proofs hold for any number.

Deadlock is checked in the DTC, poller and launcher runs. A DoIP connection does stop (closed and disposed),
so does a finished trace, and the endpoints when every request is answered; these runs say
`CHECK_DEADLOCK FALSE`.

Fairness: `doip_connection` assumes that a running timeout elapses and that a due one is executed, each as
long as the owner has not shut the handler down: that is the timer service and the context's queue. Nothing
is assumed of owner, tester, TCP connection or network, so the liveness properties say what they depend on:

- a connection in CLOSING may stay there for ever: its closing job may have been refused or the tester may never
  read it, and `timerExpired()` ignores CLOSING. `InitialTimeoutWorks` and `AliveCheckEnds` therefore hold
  under the hypothesis `ClosingEnds` (CLOSING leads to SHUTDOWN), which is not a property of the code;
- `AliveCheckEnds` excludes a tester that keeps sending headers and an owner that keeps restarting the check, both
  of which re-arm the one timer in the code;
- `ClosingJobCloses` holds for a tester that reads what it is sent (`TesterReads`: the send queue runs empty
  or is released again and again).

`cda_poller` assumes
that the poller thread runs and each exchange ends, as the client's timeouts ensure. `demo_launcher`
assumes that the ECU and the stub end when they get SIGTERM (neither ignores it), and nothing else.
`DoIpConnection` and `DemoLauncher` write weak fairness with the guard of each action in place of
`ENABLED` (`[]<>~CanElapse \/ []<><<TimerElapses>>_vars`), which says the same and leaves only formulas that
the provers handle.

## 4. Findings

Each is a run that TLC reports violated; `PROJECT.json` (`findings`) quotes the text it contradicts.

- DoIP: a foreign alive check response reports the verdict before `connectionClosed()`, against the
  comment that demands the other order. With an exhausted pool a completed routing activation closes
  the connection and then makes it `ACTIVE` again.
- CDA: a late answer is stored as the next sensor's reading; a request for the fault history fails when
  the poller appends meanwhile.
- Launcher: `--local` beside a running container of the real adapter starts a stub that cannot have its
  port, and the smoke test passes against the container.
- NeedLinks: an element first visited at the last level hides what lies behind it on a shorter path. A depth
  of at least the number of elements in the build avoids it (`CompleteIfDeepEnough`), and so does a graph in which
  no element at the depth limit has a shorter path (`CompleteUnlessAmbiguous`).

More disagreements are plain from one expression, the initial state or the file tree and have no run:

- a DTC can be "not tested" and "failed" since the last clear at once, because nothing takes the "not
  completed" bits back; for the same reason a clear can raise the count for mask 0xFF;
- "failed this operation cycle" is taken back within the cycle (`HACKATHON.md:181`);
- the toggle also picks the DTCs whose documented trigger is a sensor (`HACKATHON.md:168-169`);
- a fresh ECU lists no DTCs, where a system test expects five;
- `occurrence_counter` of a fault detail is the echoed record number, always 255 (`main.py:290`);
- the documented spelling `0xCF10` of an identifier finds no history (`main.py:534-536`);
- `get_need_links.py` takes `.syspilot` for the project root, so the `docs` directory it builds from does not exist;
  and one file of an interrupted build is enough for it to skip the build.

## 5. Proofs

`DoIpConnectionProofs` proves for any set of addresses and any pool size (`AddressAssumption`,
`PoolAssumption`): `TypeCorrect`, `AlwaysTimed` (`LiveIsTimed`), `Forward` (`LifecycleForward`),
`AddressStays` (`AddressBound`), `ChecksAnswered` (`EveryCheckAnswered`), `ChecksAnsweredOnce`
(`VerdictsAreDue`), `ClosedSaysNoMore` (`ClosedForGood`). The inductive invariant is `Inv`: the type invariant
and `LiveIsTimed` with four facts about where the handler can be. `QuietAfterClose`: a payload only
arrives on a started, open connection, which keeps late payload callbacks from closing a connection twice.
`CompletingState`: between its two steps a routing activation is ACTIVATING, or shut down by an empty pool,
which is the one exception of `LifecycleForward`. `PendingState`: only a connection that has become active has an
alive check, so the close of an activation has no verdict to give. `StartedState`: before `start()` nothing has
been sent. The pool bound is needed wherever a job is taken. The proof that steps preserve the invariant has a
step for each action. The action properties follow from the invariant and the step.

Its liveness theorems are `InitialTimeout` (`InitialTimeoutWorks`) and `AliveCheck` (`AliveCheckEnds`), of
`FairSpec`, and `ClosingJobAdvances` and `DrainedQueueCloses`, of `Spec` and a tester that reads. Each rests on a lemma that says what no step can do meanwhile:
`InitialTimeoutStays` (before the routing request is accepted nothing stops or restarts the timer),
`OpenCheckStays` (nothing but a header or a new check postpones the end of an open check) and
`ClosingJobStays` (a closing job only ever moves to the front). Temporal logic does the rest.
`ClosingJobAdvances` is one step of `ClosingJobCloses`: from each place of the queue the job gets to the
place before it, and from the first one to the close. `DrainedQueueCloses` is the other case of
`TesterReads`, a queue that runs empty again and again.

`DtcMemoryProofs` proves for any table of DTCs and any sensor ranges (`RegisteredAssumption`,
`SensorAssumption`, `LinkAssumption`): `TypeCorrect`, `AlwaysRecorded` (`FailureIsRecorded`),
`AlwaysUntilCleared` (`RecordUntilCleared`), `AlwaysBoundedWalk` (`BoundedWalk`), `AlwaysLinked`
(`LinksFollowSensors`), `CountsAgree` (`CountMatchesList`). The inductive invariant is `Inv`: the types, `FailureIsRecorded`, and
`Numbered`, that the store holds the registered DTCs in their order. `FailureIsRecorded` is there because
a link can only be seen to keep a record when the failure it meets is recorded; `Numbered` because
the DTC a link writes must be the one a lookup finds. The argument goes from one status byte
(`ToggledStatus`, `LinkedStatus`) over one pass over the store (`LinkedStoreGood`, `ToggledStoresGood`)
to a whole simulator step (`SimulatedGood`, `StepLinks`). `CountsAgree` needs no invariant but the types: the loop of service
0x19 02 is a recursive function (`Listed`), `ListIsExact` proves by induction over the store that it
lists the matching DTCs, each once and in their order, and `CountIsLength` follows, as that order
is a bijection between the list and the set that is counted.

`DemoLauncherProofs` proves for any set of process numbers (`PidAssumption`): `TypeCorrect`,
`NeverOrphaned` (`NoOrphan`), `AlwaysInterface` (`InterfaceInUse`). The inductive invariant `Inv` adds
`Progress`, how far a bring-up or a stop has come: that a bring-up starts nothing before it has the
interface, and that a stop has dealt with everything before it removes it, where a container is dealt with when it does
not run or docker has failed to stop it. A service whose PID file is gone does
not run (`Unfiled`, from `NoOrphan`); that is what connects the two. `StoppedProcessEnds` proves of `FairSpec`
that each process that was a service ends after a stop: `InterfaceInUse` makes sure that it has been told.

`SovdCdaProofs` proves for any identifiers, any capacity and any number of polls and requests
(`PollAssumption`): `PollerTypeCorrect` (`TypeOK`, with the capacity of each history), `Chronology`,
`Freshness`, `LateOnly` (`LateAnswersOnly`) and `LatestExists`. The inductive invariant is `Inv`. Its core says
how far the poll has come: a history whose identifier is still to be polled (`Open`) holds readings of earlier polls
only, all others may hold one of this poll. That makes each append go forward (`AppendedGood`, with and
without dropping the oldest reading), and it is closed behind the position by `Advanced`, which needs
that no identifier is polled twice. `Freshness` needs that a connection holds answers of its own poll only,
which is why a new one per poll matters. So does `LateOnly`,
with `Late`: what is under way on the connection belongs to identifiers up to the one being polled. `LatestExists` rests on `Latest`: a deque found not to be
empty stays so, also when it is full and drops a reading with each new one. `PollsEnd` (`PollAdvances`)
proves the counting that `PollerGoesOn` rests on: every step of the poller either starts a poll or brings it
nearer to its end, which is at most two steps per identifier away.

`SovdEndpointsProofs` proves for any sets of callers and operations, any DTC table and any positive sensor
ranges: `EcuIsDtcMemory` (each step of the composition is a step or a stutter of `DtcMemory`, so all its
theorems hold here), `EndpointsTypeCorrect`, `ReadsAreCurrent`, and `EndpointsKeepPromise`: the
endpoints implement `FaultService`. The invariant `SovdInv` is the protocol of one exchange: which
responses may be in a connection given where the request is in the ECU (nothing, at most a "response
pending", or the positive response last and equal to what the ECU executed), and that the numbers of clears in
answers, snapshots and counters are ordered. The implementation has one lemma for each action; the
mapping needs the protocol because what a caller would be told is in the last response under way.

`NeedLinksProofs` proves for any finite set of elements, any depth and any build (`NeedsAssumption`):
`TypeCorrect`, `NothingBeyondDepth` (`OnlyWithinDepth`), `DirectLinksAlwaysListed`
(`DirectLinksListed`), `OnlyAmbiguityLoses` (`CompleteUnlessAmbiguous`). The invariant says that each call on
the stack is reached by a path of its depth, and that every direct link of the root is listed or waits on
the stack at depth one. `OnlyAmbiguityLoses` adds `UnexpandedAtLimit`: a visited element whose links
are neither visited nor on the stack is at the end of a path of `MaxDepth` links. When the walk ends, an
induction over a path within the depth (`UnambiguousPathsVisited`) shows that it can only leave the visited elements at
such an element, which it then reaches earlier than the limit. `DeepWalkComplete` (`CompleteIfDeepEnough`) needs more (`DeepInv`): a call is no deeper than
there are visited elements with a file, as each of its ancestors is one; with `MaxDepth` at least
the number of elements with a file every visited element has therefore been expanded, its links are visited or on
the stack, and an induction over paths (`PathsVisited`) shows that none leads out of what was visited.

Induction: the induction theorems of the library take an operator as a parameter. `NaturalInduction` states
induction for sets of numbers instead, which the provers can use; it follows from `<` being well-founded.

Only model-checked: `ClosingJobCloses`, `PollerGoesOn` and `StoppedMeansGone`. Each needs an induction over a
temporal formula (over the places of the queue, the steps of a poll, the set of processes), which cannot be
written as a set of numbers. What is proved is the step of each: `ClosingJobAdvances`, `PollsEnd`,
`StoppedProcessEnds`. That the guards in the fairness formulas are those of the actions is seen in the
definitions; no theorem speaks of `ENABLED`.

## 6. Not modelled

- The life cycle of the UDS system (`UdsSystem.cpp`): straight-line wiring whose order and repetition the life cycle
  manager decides, which is a submodule. What `init()` leaves in the DTC store is `Init` of `DtcMemory`, and
  what its tick calls is `Step`. A second `init()` would break `Numbered` in the proofs of `DtcMemory` (it adds
  the DTCs again); the hazard list has it.
- Two DoIP connections with one owner: the owner's arbitration between testers with the same address is in the base
  and not in the tree. `SovdEndpoints` therefore lets any connection fail at any time, and
  `DoIpConnection` keeps what the owner relies on (`EveryCheckAnswered`, `VerdictsAreDue`).
- What the DoIP handler should do when a closing job is refused, when a CLOSING connection is asked for an alive
  check, or when a routing request is repeated before the owner has decided on the first one: the
  actions are modelled, but code and comments state no expectation that a property could take up.
- The MDD and ODX generators and the generated protobuf code: straight-line data transformation without state that
  outlives it. The catalog, the dashboards and the workflows are configuration. The real CDA and the OpenBSW
  base are not in the tree. The system tests were read as expectations on the ECU.
- What `get_need_links.py` answers from a partial build, after every build command has failed or an earlier build was
  interrupted: the actions allow it and the walk is checked on every such build, but the program promises nothing.
- A stop may signal a program of somebody else that was given a recorded number: the actions allow it, as the
  script does (it asks no more than `kill -0`), and no property forbids what the script does not try to prevent.
