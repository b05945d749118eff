# A verification development of pype

pype is a message broker over HTTP: *clients* post requests to named *services*,
services pull them and post responses to the client's queue, and clients poll for
their responses. All state is in the memory of one asyncio process. This directory
holds TLA+ modules that model the server, the client library and a deployment of both, the TLC
configurations that check them on small instances, and proofs for the TLA+ proof
system. Paths below are relative to the repository (`src/` in the maps of
`PROJECT.json`).

## 1. The system

| Component | State | Operations | Correct when |
|---|---|---|---|
| Client registry (`registries.py`) | `client_id -> ClientEntry(queue, last_seen)` | lazy `get_or_create`, `bump_last_seen`, `remove`, `snapshot_keys` | a call and the registry agree on the entry while the call waits |
| Service registry (`registries.py`) | `service_name -> queue`, never removed | `get_or_create` | one queue per service |
| Queueing (`queueing.py`) | bounded `asyncio.Queue`s | `queue_put`, `queue_get` with a timeout, `normalize_timeout` | a bounded FIFO queue, whatever `wait_for` cancels |
| Endpoints (`routers/services.py`, `routers/clients.py`) | the local variables of handlers in progress | POST/GET of services and clients, `block=1` | requests and responses are neither lost nor doubled; every call returns |
| Authentication (`routers/auth.py`, `security.py`, `deps.py`) | none but the secret | tokens with role and name, the address of the instance; logoff removes the client's entry | nobody gets another's messages; logoff is final for the entry it removes |
| Reaper (`reaper.py`) | key snapshot, cursor | one `_tick` per period | evicts whoever is silent, and nobody else |
| Application, settings (`main.py`, `config.py`) | settings, the instance's address | start-up with empty registries | the settings fit each other; addresses tell instances apart |
| Client connection (`pype_client.py`, `_http.py`) | response cache, request counter, deadlines | `send_request`, `call`, `get_response`, `get_any/all_responses`, `get_response_quorum`, `close` | no response dropped, doubled or waited for in vain; deadlines hold |
| Service connection (`service_client.py`) | the session, with its token and the server's address | `get_request`, `_send_response`, `close` | a request is answered once, and may be answered again after an error |

Handlers and the reaper run on one event loop and interleave only at `await`. Each
endpoint that takes a body has two: `request.body()`, then the wait for room in a
queue; a `block=1` POST has a third, the wait for a response. What is read before an
await may be stale after it. A `ClientEntry` is an object: a handler keeps the one it
looked up, although the registry may drop it or make another for the same client.
The reaper works through a snapshot of the keys in batches, one batch a period, while
the registry changes. `asyncio.wait_for` may cancel a waiter that another task has
woken already. A client's HTTP exchange may break when the server has done its part,
and a handler of the server is not cancelled when its caller goes away.

Several instances may run behind a proxy. They share nothing but the signing key:
authentication returns the address of the instance (`X-Pype-Server-IP`), the session
echoes it, and the proxy routes by it. An instance that crashes loses its queues,
tokens stay valid, and nothing is registered anew until a call needs it.

The list of what is hard to test, line by line with the properties that cover it, is
under `hazards` in `PROJECT.json`.

## 2. The modules

| Module | Models | Runs |
|---|---|---|
| `PypeServer` | registries, all endpoints, logoff, reaper, time, on one event loop | `server_core`, `server_clients`, `server_liveness`, `block_window`, `orphan_response` |
| `PypeServerProofs` | theorems about `PypeServer` | |
| `ReaperSweep` | the reaper's snapshot, cursor and batch arithmetic over a changing registry | `reaper_sweep`, `sweep_target` |
| `ReaperSweepProofs` | theorems about `ReaperSweep` | |
| `BoundedQueue` | what `queue_put`/`queue_get` promise: a bounded FIFO queue | (refinement target of `queue`) |
| `BoundedQueueProofs` | theorems about `BoundedQueue` | |
| `AsyncQueue` | the same functions with asyncio's futures, wake-ups and cancellations | `queue` |
| `AsyncQueueProofs` | theorems about `AsyncQueue` | |
| `ClientLibrary` | a `ClientConnection` over exchanges that may break | `client`, `quorum_duplicates` |
| `ClientLibraryProofs` | theorems about `ClientLibrary` | |
| `PypeSystem` | connections of clients and services, their sessions and exchanges, instances behind a proxy, crashes and restarts | `system`, `system_liveness` |
| `Rendezvous` | what all that promises of a request | (refinement target of `system`) |
| `PypeSystemProofs`, `PypeSystemRefinement`, `PypeSystemDelivery` | theorems about `PypeSystem` | |

`PypeSystem` composes what the other modules have in detail: the endpoints and the
reaper of `PypeServer`, one step a call, and the connection of `ClientLibrary`, one
call at a time.

`MC...` modules instantiate them for TLC, with the symmetry sets where they are used. Operators commented "Faulty variant" are
plausible bugs of the definition that follows them: the `mutants` of `PROJECT.json`
name, for each property, one that it catches. They are used nowhere else.

### PypeServer

An action is the stretch of a handler from one await to the next:

    idle --start--> body --request.body()--> put --queue_put--> get --queue_get--> idle

`call[h]` holds the local variables of handler `h` and its place; a GET starts at
`get`, and a timeout of 0 takes the nowait paths in the same step. `PostRequest`,
`RequestBody`, `EnqueueRequest`/`RequestTimeout`, `BlockGet`/`BlockTimeout` are
`post_request_to_service`; `PollResponse`, `PollGet`/`PollTimeout` are
`get_response_for_client`; `PullRequest`, `PullGet`/`PullTimeout` are
`get_request_for_service`; `PostAnswer`, `AnswerBody`,
`EnqueueAnswer`/`AnswerTimeout` are `post_response_to_client`; `Logoff` is
`client_logoff` and `ReaperTick` one `_tick`. `entry` is the client registry, `age`
the time since `last_seen` (counted up to just beyond the threshold, after which it
makes no difference), `queue` and `squeue` the queues. `stage`, `gone`, `evicted`, and the
counts `handed` (how many pulls took a request) and `delivered` (how many calls of each
client took its response) are history.

Choices worth knowing:

* A service queue that was not created yet is the same as an empty one, because
  service queues are never removed.
* The entry is created and bumped *before* the timeout is validated, as in the code:
  a call answered with 400 leaves both behind.
* In a `put` or `get` wait any handler whose queue is ready may run; the FIFO order of
  asyncio's waiters is in `AsyncQueue`. `wait_for` may time out as soon as the time is
  over even if the queue is just getting ready. `Tick` keeps a handler from staying
  more than `Lag` ticks beyond its timer.
* `_remaining_ms` truncates to milliseconds, below the resolution of `Tick`.
* A `PypeResponse` carries a `request_id` only; that the elements of client queues
  also name the client is history, which `OnePlace` uses.
* The reaper runs at any time and takes the keys of a snapshot in any order; the exact
  order and batch arithmetic are in `ReaperSweep`.
* 403s change no state and are left out. Handlers are not cancelled when the caller
  disconnects, but an upload that breaks off ends them (`BodyAborted`).
* A client uses each `request_id` once, and a service answers a request until a POST
  is accepted (a 503 may be retried).

### ReaperSweep

`keys` is the registry's dict in insertion order, `cursor` and `idx` are
`_cursor` and `_cursor_idx`. A step of time is one period; any calls and logoffs
happen in between. `EffectiveBatch` is `_effective_batch_size`, with the registry's
size at this tick and the snapshot's at the start of the sweep.

### AsyncQueue and BoundedQueue

A caller is `idle`, about to look at the queue (`try`), asleep on a future
(`waiting`), `woken`, or `late`: woken, and cancelled before it ran. The module
follows CPython's `asyncio.Queue` (external code): a wake-up only schedules the
caller, which looks again; one that is cancelled passes its wake-up on. The `try`
place is there for `wait_for` as of Python 3.11 and before, which starts a task; later
versions go on at once, which is one of the interleavings. `BoundedQueue` knows
nothing of sleepers and wake-ups; `Abstract` maps `items` to `contents` and the items
in callers' hands to `offered`.

### ClientLibrary

`op` is the method in progress, `http` its exchange, `cache` the keys of `_cache`.
Methods are cut at their HTTP calls and where they look at the clock: `CallService` is
`call` up to the creation of its deadline, `PostBlocking` its `block=1` POST,
`CallReturns` what it makes of the answer, `FallBack` and `FallBackGet` its
`get_response`; `PollOne` is `_poll_one`, `Loop` is `_loop_until` with `_pop_matching`. At
`begun` a method is about to look at its deadline, and the thread may be held up there
for `Stall` ticks, which the proofs leave open. A clock tick is `1/Unit` ms, so that
`Millis` shows what `int()` does to the deadlines. A local timeout that comes out at zero or
less ends the method (`invalid`), as requests raises a `ValueError`: `call` passes on what
remains of its deadline, which a pause may have made negative.

The local timeout of requests holds for the connect and for each read. `cut` is what
is left of it; it starts again when the server has the request (`Connected`) and with each
further part that is sent or read (`Progress`, at most `MaxParts` times in an
exchange). `spent` is history: the time before the last start. `Break` ends an exchange
at any time, and has to at the local timeout: a reply in flight is lost, a POST may
still be accepted (`ServeLate`), and a wait goes on in the server and may take a response
(`ServeStray`).

The environment is what one connection sees of the server and the services. A request
that was accepted (`work`) is answered into `box`, in any order, and again if its service
missed the 202, `MaxAnswers` times at most. The client caches a second response like any
other, and may return it if it is asked for that request_id again.

A negative `timeout` and an empty list of request_ids raise at once and are left out.

### PypeSystem and Rendezvous

A *line* has at most one exchange `exch[l]`: the endpoint (`op`), what its path names,
the token and address that it carries, the message, and the status, `None` until the
reply. There is a line for each connection, and `Ghost` lines on which an exchange goes
on in the server after it broke for its caller. A connection asks (`Authenticate`,
`SendRequest`, `PollOne`, `GetRequest`, `SendResponse`, `Close`), an instance that the
proxy routes to serves (`Serve`, with one action for each endpoint and `Deny` for the
calls that the role and name checks refuse), the connection gets the reply (`Receive`),
and goes on whatever the status was. `up`, `squeue` and `box` are the instances and
their registries; `accepted`, `ran`, `got`, `crashes` and `faults` are history.

Failures, at most `MaxMishaps` of them: `Break`, with a call that was never handled, a
reply that is lost, or a call that goes on; `Crash` and then `Restart`; `Evict` of a
client that has no call in progress; a service that forgets a request (`Drop`); a
connection that is closed; a call for another's queue (`Stray`). A connection may try a
response again after any of them, without limit.

Choices worth knowing:

* The server handles a call in one step, at any time while its exchange lasts, so that
  a poll may answer 204, and a POST 503, at once. The time a handler waits is the
  time before its step; what can happen between the awaits is in `PypeServer`. A
  `block=1` call that is accepted becomes a `wait`, and so takes two.
* A queue is found by name. That a response may enter the queue of an evicted entry is
  the finding of `orphan_response`, and stays with `PypeServer`.
* `TimeoutOutOfRange` and the 401s of tokens that are missing or not signed with the key
  do not occur. Names are chosen in advance instead of drawn as UUIDs.
* The proxy is external: it routes a header to the instance it names and a call
  without one to any. An instance comes back with the address it had, and no two have
  the same (`AddressAssumption`); `InternalIp` is `detect_internal_ip`.
* A crash ends the exchanges of the process, as its sockets are closed. That a host
  disappears without a trace is not modelled: a call with `timeout=None` then waits
  for ever.
* `Present`, `ConnectionCause` and `CrashCause` say where a request is or who is to
  blame that it is not: its client, a service that attends to it, or their instance.

`Rendezvous` has a request handed to one connection of its service, once, and after that
answered to its client. `PypeSystem` maps `ran` to itself and `got` to `answered`. What
it does not promise, that a request is answered at most once, does not hold: after a
lost 202 a service may respond again (`DuplicateNeedsCut` says when).

## 3. Runs

| Run | Shows | Bounds |
|---|---|---|
| `server_core` | types, queue limits; a waiting call keeps its entry and stays clear of the reaper; accepted responses stay in reach; polls and enqueues return with a fresh window, a `block=1` wait with what the enqueue left of it | 1 client, 2 requests, 3 concurrent calls, timeouts 0 and 1 and one out of range, threshold = the smallest allowed, timers late by 1, logoff |
| `server_clients` | a message is in one place only, is handed to one pull and its response to one call, which is its own client's | 2 clients with 1 request each, nobody logs off, 2 concurrent calls, timeouts 0, the default, and one out of range |
| `server_liveness` | calls return, also when they wait for each other's full queues, or the client logs off under them | 1 client, 4 requests, from full queues on, 2 concurrent calls, timeouts 0 and 1, with and without `block=1`, logoff |
| `reaper_sweep` | sweeps end in time unless the registry shrinks; progress; eviction in time | 5 clients, minimum batch 1, target 2 ticks |
| `queue` | FIFO, nothing lost or doubled, refused items stay out, no lost wake-up, sleepers served; `AsyncQueue` implements `BoundedQueue` | 2 getters, 3 putters, 4 items, 2 places |
| `client` | section "client library" below | 2 requests, the first answered up to twice, timeouts 0 ms, 1 ms and none, 2 ticks a ms, pauses of up to 1 ms, 1 part in an exchange, 1 stray wait |
| `system` | sessions keep to their instance; a request is handed out once and answered to its client only; an accepted request is lost, or answered twice, only for a cause on its own path, and the mishap of one client costs the other nothing | 2 clients with 1 request each, 2 services, 1 worker, 2 instances, queues of 1 place, 1 mishap, 1 ghost line |
| `system_liveness` | accepted requests are answered; a response that a service holds reaches its client over a restart; nothing is lost or doubled without a cause; the requests of a client do not overtake each other | 1 client with 2 requests, 1 worker, 1 instance, client queue of 1 place, service queue of 2, 2 mishaps |
| `block_window`, `orphan_response`, `sweep_target`, `quorum_duplicates` | disagreements, section 6 | |

Why these bounds. The hazards of the server need two calls of one client (one waiting, one
moving the entry), the reaper, and a third call that holds a place in a queue: three
handlers. Entries: one registered and one held by each handler, plus one to allocate
(`EntryAssumption`). Queues of one place are full as soon as they are in use. The
threshold is the least that `ThresholdAssumption` admits, so an off-by-one in the bumps or
in the reaper's comparison shows. Callers that wait for each other's full queues take four
messages: a response that is ready and one whose POST waits behind it, a request that is
queued and one whose POST waits behind that. From `Init` this is too large without
symmetry, so `server_liveness` starts where it can soon happen, in `FullQueues`: one
response is ready, one request is being served and one is queued. `Init` leads there: the
client sends two requests, a service takes both, in turn, and answers the first, and the
client sends a third. In `reaper_sweep` five clients make the scaled batch (3) exceed the
minimum (1), and let it fall below as the registry shrinks. In `queue`, three putters on
two places give a sleeper, a roused caller and one that jumps in. In `client`, two
requests give one response that is asked for and one that is not; two ticks per
millisecond are the least that show a truncation, and a pause of 1 ms is the least that
makes `remaining_ms` negative. In `system`, two instances and two services are the least
that a session can go astray among, two clients the least that can get each other's
responses and fill a queue of one place, and one mishap of any kind shows what it costs
alone. `system_liveness` has what takes two requests of one client: their order in a queue
of two places, a response that waits while another is asked for, and two mishaps, so that
a crash can follow the one that it meets with. Its exchanges end with their callers
(`Ghost = {}`); that an earlier POST which lives on is overtaken, the exception in
`NoOvertaking`, needs a ghost line. More mishaps, ghost lines and connections are for the
proofs, which bound nothing.

Symmetry is used in `server_*` safety runs (handlers, entries and the two request_ids,
and in `server_clients` the clients: nothing tells them apart), in the safety runs of
the reaper (clients) and in `system` (clients, and instances with their addresses),
never with liveness.
Deadlock is checked except in `client` and `system_liveness`, where closed connections
rest.

### Client library

`ReceivedKept`: what arrives is returned or in the cache afterwards, not both, and what
was in the cache stays there until it is returned, through timeouts, errors and second
responses. `WaitsForMissing`: nothing that is in the cache is polled for. `ReturnsAsked`:
enough of what was asked for, nothing of any other request, and none of it left behind.
`PatientUntilDeadline`: no giving up with a millisecond left. `ElapsedWhenOver`: no report
that the deadline has elapsed before it has by a millisecond, which hangs on `int()`
truncating towards zero, nor before the caller's timeout is over; so a timeout of 0 is one
poll unless the thread is held up for a millisecond. `DeadlineKept`: a method exceeds
its timeout by the network buffer, two roundings and two pauses at most, counting
for an exchange the time since its timer was started last, as requests does. There is no
bound on the exchange as a whole: a reply may come in ever more parts. `PatientGets`,
`TimedMethodsEnd`: liveness.

## 4. Fairness

* `PypeServer`: `WF(Resume(h))`: the event loop resumes a handler that stays ready. A
  ready handler may be overtaken and put back to waiting, so weak fairness is what the
  loop's FIFO ready queue justifies; its timer then ends the wait. `WF(Tick)`: time
  passes. Nothing is assumed of the reaper: that abandoned clients go, also those whose
  call was answered with 400 or whose response came after a logoff, is `EvictedInTime` in
  `ReaperSweep`, a bound in place of an "eventually". An upload ends within `BodyMax`, an
  assumption about callers and the HTTP server; nothing in the repository bounds it.
* `AsyncQueue`: what is scheduled runs (`RunGet`, `RunPut`); nothing is assumed of timers,
  so `SleepersServed` is due to the wake-ups alone.
* `ClientLibrary`: the client's thread goes on (`WF(Look)`, `WF(Receive)`), time passes
  and the local timeout fires; nothing about the server. `PatientGets` states what it
  needs of the network, the server and the services (`ServerRuns`) as a premise.
  `TimedMethodsEnd` needs that an exchange has finitely many parts, which `MaxParts` says.
* `PypeSystem`: the event loop runs handlers, whose waits have timeouts (`WF(Serve)`);
  replies arrive or the call fails (`WF(Receive)`, `WF(Unreachable)`); a crashed instance
  is started again (`WF(Restart)`), as its supervisor does. The rest is the use that the
  README of pype describes: `WF(PollOne)`, a client polls on with `timeout=None`;
  `SF(GetRequest)` and, for each request, `SF(SendResponse)`, a service pulls in a loop
  and answers what it holds. These two are strong, because each of them is disabled while
  the connection's one exchange is used for another call, which a service that does either
  again and again cannot put off for ever. A 503 may come at any time the queue is full,
  but the client's polls empty it. Nothing is assumed of failures.

## 5. Proofs

`PypeServerProofs` proves, for all values of the constants that satisfy the
assumptions of `PypeServer`, first:

* `TypeCorrect`: `Spec => []TypeOK`, with the limits of the queues;
* `LiveCalls`: `Spec => []LiveCallKeepsEntry`;
* `BusyClientsStayFresh`: `Spec => []BusyClientIsFresh`;
* `PollsAndEnqueuesReturnFresh`: `Spec => CallsReturnFresh`;
* `BlockCallsLeaveWindow`: `Spec => BlockLeavesWindow`.

The argument. That a waiting call keeps its entry is not inductive: the reaper may
evict any client whose `age` exceeds `Threshold`. `BusyClientIsFresh` adds that the
client's `age` plus what is left of the call's wait stays within a budget
(`BodyMax` during the upload, `BodyMax + MaxTimeout` while it waits for room,
`MaxTimeout` while it waits for a message): both are set together
when a wait starts, a tick moves one from the other, a bump of `age` by another call
of the client only helps, and `left >= -Lag` by the type invariant. With
`ThresholdAssumption` the age of such a client never exceeds the threshold, so `Stale`
is false of it and `ReaperTick` leaves its entry alone. A second `get_or_create`
returns the entry that is there; a logoff is excluded by the history variable `gone`.
The action properties follow from the invariant. The bump at the end of a call goes to
the entry that is registered, which is then the call's; a `block=1` call that has waited
for a response makes none, but the budget of that wait, at `left >= -Lag`, leaves an age of
`MaxTimeout + Lag` at most (`BlockLeavesWindow`: what remains of the promise that
`block_window` refutes).

The proof is laid out as one lemma for each group of actions and one for each
invariant; the assumptions on the constants are checked by TLC in every run.

and, in its second half:

* `AcceptedResponsesStay`: `Spec => []AcceptedKept`;
* `MessagesHaveOnePlace`: `Spec => []OnePlace`;
* `RequestsHandedOutOnce`: `Spec => []HandedOutOnce`;
* `EntriesSuffice`: a free handler always finds an entry object, so that the finite set
  `Entry` rules out no behaviour (`EntryAssumption` asks for as many as the calls and the
  registry can hold, and one).

The argument. Entry objects are used again once nobody refers to them, with whatever
their queues still held, and a POST may put its response into an entry that the
registry has dropped. `Placed`, the inductive invariant, says what keeps these apart:
no two clients use the same entry, be it by the registry or by a call (`Owned`); a call of
a client that neither logged off nor was evicted holds the entry that is registered
(`Current`), so that `AcceptAnswer` puts where the next poll gets; a message is carried by
one handler at a time, whose place `stage` names (`Carried`); the service queues, and the
queues of entries in use, hold each message once, under its own stage and client
(`Requests`, `Responses`). A queue is treated as the set of its items without repetition
(`ItemsPut`, `ItemsGet`), so that each action reduces to one of a few lemmas: nothing
moves, a message is put, one is got, an empty queue is added. `HandedOutOnce` bounds
counts that say nothing of where a message is; `Counted` ties them to it: the stage of a
message tells how often it was taken, by a pull and by calls of each client. A pull, and a poll
or `block=1` wait, counts what it takes off its queue, and `Placed` says that this was there
under that queue's stage and client.

`PypeSystemProofs` and `PypeSystemRefinement` prove, for any number of connections,
services, instances, requests, mishaps and ghost lines, from `SystemAssumption` and
`AddressAssumption`:

* `SystemTypeCorrect`: `Spec => []TypeOK`;
* `SessionsAreGenuine`: `Spec => []Identity`, each connection's calls carry its own token;
* `SessionsStick`: `Spec => []Affinity`;
* `SystemImplementsRendezvous`: `Spec => ImplementsRendezvous`.

The argument, in four layers, each inductive with those before it.

1. `TypeInv` is `TypeOK` with `Identity`. Types alone are not inductive: what a handler
   enqueues is a message only if its exchange has the shape of its endpoint, and the
   queue it names is a client's only if its token is. `Identity` ties both to the session.
2. `Affine` strengthens `Affinity` by the exchanges under way: one that carries a request
   or a response goes to the instance where its client is pinned, and what a pull
   returns is of the service in its token. As a session's address never changes
   (`PinKept`), `Carry` moves every such fact over a step.
3. `RequestOnce`: a request is in one queue or on one line, once, until it is handed out
   (`OnePlace`), and never after that; an id that was not used yet is nowhere. That two
   queues of different instances do not share a request is `Affine` with
   `AddressAssumption`.
4. `ResponsesFollow`: a response, wherever it is, is to a request that was handed out, and a
   poll's is in the hands of a token that names its client.

A step then maps to `Run` when a pull arrives, to `Respond` when a poll or wait does, and
to a stutter otherwise.

`PypeSystemDelivery` proves, on top of these, what failures may cost:

* `NothingLostWithoutCause`: `Spec => []LossHasCause`;
* `NoDuplicateWithoutCut`: `Spec => []DuplicateNeedsCut`;
* `NothingOvertakes`: `Spec => []NoOvertaking`.

None of them is inductive. `LossHasCause` counts a request as present wherever it is,
also with a service that already knows its response to be queued and has yet to forget
it; that copy leads nowhere. `Accounted` leaves it out: an accepted request is `Safe`, in
a place from where it goes on, or `Excused`. `Traced` finds the culprit for each way it
can get lost: a connection with a call to make is open unless the call is its logoff, what
a ghost line carries was cut off from a connection with the same token and address, and
the instance that accepted a request has crashed no less often since. The proof
follows a request over each step of its queue, its service, its client's queue and its
client's poll (`QueuedRequestStays`, `HeldStays`, `QueuedResponseStays`, `DeliveryStays`);
that a cause stays a cause is `ExcuseStays`.

`DuplicateNeedsCut` speaks of any connection of the service. The invariant names one:
`RunByOne` says that one connection, at the client's instance, holds a request that was
handed out or takes its response to the queue, and `Severed` that a call of that
one was cut off. As long as it was not, `Single` holds: the response is yet to be given, or
waits in the client's queue, or is on its way to the client, or has arrived, once and in
one of these only. `GhostsSevered` excludes that a call nobody waits for puts the
response into the queue a second time.

`NoOvertaking` looks at what is ahead of a request in its queue and at what was handed out.
`InOrder` adds what is on its way to a service, and `LatestSent` that a client which was
never cut off sends one request at a time, its latest: all that is later than a request
which arrives has an id that was not used yet, and is nowhere (`RequestOnce`). A queue
gets longer at its end only (`AheadPut`), and a request that leaves for a service is at the
head of the queue that, by `Affine`, is the only one where an earlier one could wait.

TLC checked `Traced`, `Accounted`, `RunByOne`, `GhostsSevered` and `SingleUnlessSevered`
with a client of two requests, two services and two instances, and with two connections of
one service and three mishaps, and `LatestSent` and `InOrder` on `system_liveness` with a
ghost line, before they were proved. Without its exception for clients that were cut off
`InOrder` is violated there.

`BoundedQueueProofs` proves of the contract, for any `MaxSize` in `Nat`, that items leave in the
order of acceptance and that a refused item stays out. `AsyncQueueProofs` proves, for any
number of putters, getters and items, from `QueueAssumption`:

* `TypeCorrect`: `Spec => []TypeOK`;
* `WakeupsAreKept`: `Spec => []NoLostWakeup`;
* `QueueRefinesContract`: `Spec => ImplementsBoundedQueue`;
* `QueueIsFifo`, `RefusalIsFinal`, `ItemsTakenOnce`: the contract's theorems, carried over by
  the refinement.

`NoLostWakeup` is inductive together with `TypeOK`: every step that adds an item or takes a
roused getter away without taking an item rouses another, or no getter sleeps. The
refinement needs, besides, that no two putters offer the same item (`OffersDiffer`): a put
that succeeds removes exactly its own offer.

`ClientLibraryProofs` proves, for any timeouts, ids, pauses, parts, second responses and
clock granularity, from `ClientAssumption`:

* `TypeCorrect`, `PollsForMissing`, `TimeoutsAreKept`: `[]` of `TypeOK`, `WaitsForMissing`,
  `DeadlineKept`;
* `NothingDropped`, `ReturnsWhatWasAsked`, `GivesUpInTime`, `ElapsedMeansOver`: the action
  properties `ReceivedKept`, `ReturnsAsked`, `PatientUntilDeadline`, `ElapsedWhenOver`.

All follow from `IInv`: the method and the exchange fit each other (`Fits`), in shape
(`Shaped`) and in time (`Timed`): the deadline in use, the caller's budget and the local
timer run together, and differ by the truncations and pauses so far. `Known` says that what is
in the cache, asked for or on its way has an id that was minted, `Reported` that nothing
the last method returned is in the cache.

`ReaperSweepProofs` proves, for any clients, batch size and threshold, from `ReaperAssumption`:
`TypeCorrect`, `SweepsProgress`, `SweepsMeetTarget` and `SilentClientsGo` (`[]` of `TypeOK`,
`SweepProgress`, `SweepWithinTargetUnlessShrunk`, `EvictedInTime`). The target follows from
`OnTarget`, `idx >= Ceil(Len(cursor), TicksPerSweep) * ticks` while the registry has not
shrunk. `EvictedInTime` follows from `Timely`: a client's age plus the batches that are still
to come in this sweep, and one whole sweep more if the cursor has passed it, stay within
the threshold and two sweeps; each tick moves one from the second to the first.

Every invariant and every action property that a passing run checks is thus proved. Left
to TLC: liveness and anything with `ENABLED`, which the prover does not cover.

## 6. Where documentation and code disagree

1. **`block_window`** A `block=1` call bumps `last_seen` before and after the enqueue
   (`services.py:56,74`), then waits for a response and returns without a bump; the
   comment at `services.py:53-55` promises the next call "a full inactivity window".
   `BlockLeavesWindow` is what holds: all of it but `max_timeout_ms` and the timer delay.
2. **`orphan_response`** A service's POST looks the entry up before two awaits and
   does not bump it. If it is evicted meanwhile and the client polls again, the
   response enters the old entry's queue, answered with 202, and nobody reads it;
   `server-implementation-plan.md:215` calls the race harmless because the handler
   "re-creates a fresh queue".
3. **`sweep_target`** A sweep is "guaranteed" to end within the target
   (`reaper.py:20-21`), but the batch follows the registry's present size and the
   snapshot keeps its own: evictions during a sweep stretch it.
   `SweepWithinTargetUnlessShrunk` is what holds, and `EvictedInTime` what is left of
   the guarantee otherwise.
4. **`quorum_duplicates`** `get_response_quorum(2, r, r)` passes the check of
   `pype_client.py:302`, which counts arguments, and polls on although every response
   it names has arrived, because `is_done` counts distinct ids.

## 7. Not modelled

* `load.py` (reads only), the schemas, payload conversion, logging, FastAPI's parsing,
  reading settings from the environment.
* The catch-all around `_tick` in `run`: `_tick` has nothing that raises.
* Signatures: a token is what the server issued. 401s do not occur.
* The proxy, beyond that it is sticky; instances with equal or changing addresses.
* A network or host that goes silent without closing its connections, under a call
  without a timeout.
* Thresholds below the longest call: `ThresholdAssumption` excludes them, and
  `config.py` does not enforce it.

## 8. Plan

Done: the modules of section 2 and the proofs of section 5. Next: that an instance of
`PypeSystem` takes the steps of `PypeServer`, for the endpoints that both have, as far
as their different views of time allow.
