# A TLA+ model of vermell

vermell is a C++ HTTP/1.1 server framework: an application registers routes with
middlewares and static mounts on a `Router` and calls `listen()`; one or more
epoll loops accept connections and read requests, and either serve them on the
loop's own thread (inline mode, `threads = 0`) or hand them to a pool of worker
threads (pool mode). This directory holds TLA+ modules for the server - its
threads, its connections, and what it makes of the texts that go through it -,
configurations that model-check them with TLC, and theorems about them whose
proofs TLAPS checks. Paths below are relative to `src/`.

## 1. Inventory

| Component | Code | State it keeps | Operations | Modules |
|---|---|---|---|---|
| Thread pool | `sources/threading/thread_pool.cpp`, its header | `queue_`, `stop_`, the threads, two condition variables | `addTask` (waits for room), `tryAddTask` (refuses), the worker loop, `kill` | `ThreadPool`, implementing `TaskExecutor` |
| Connection life cycle | `sources/request/io.cpp`, `io.h` | `pending_`, `active_connections_`, `handled_`, `completed_`, the epoll set | `Dispatch`, `AcceptPending`, `HandleReadable`, `DispatchTask`, `ServeRequest`, `serve_inline`, `DrainCompletions`, `RearmConnection`, `SweepStale`, `Reject`, `shutdown` | `RequestIO` |
| Completion notification | `io.cpp` 397-418, 451-461 | `completed_`, `pending_notify_`, the eventfd | `complete_connection`, `DrainCompletions` | `CompletionQueue`, implementing `CompletionChannel` |
| Route cooldown | `io.cpp` 517-541, 632-642, `routes.hpp` | `time_key`, `time_point` under `route_mutex` | `TimeGuard`, arming after the middlewares | `RouteGuard` |
| Event loops, configuration at run time | `request/router_epoll.h` | the listeners, epoll descriptors and `RequestIO`s of the loops, the pool, `listen_status_` | `getMainProcess`, `run_loop`, `setListenStatus`, `applyConfig` | `RouterEpoll` |
| Router API and configuration | `vermell.h`, `config.hpp` | `Config`, the three route tables | `get/post/...`, `static_`, `configure`, the setters, `listen`, `listenOne` | `Routing`, `RouterEpoll`, `Exchange` |
| Routing and dispatch | `io.cpp` 490-629, `routes.hpp`, `sources/request/routes.cpp` | exact routes, pattern routes, static mounts | `ExecuteRoute`, `match_pattern`, `middlewares_t::execute` | `Routing`, `Response`, `Exchange` |
| HTTP framing and parsing | `http/message.hpp` | none (pure) | `inspect`, `parse`, `scan_head`, `scan_chunked`, `parse_query`, `url_decode`, `parse_multipart` | `HttpMessage`, `Forms` |
| Response building | `http/response.hpp`, `request/parameters.hpp` | a `Response` | `set`, `head`, header blocks, bodies, the guard's answer | `Response` (partly) |
| Sockets | `sources/sockets.cpp` | descriptors | `sendResponse`, `on`, `Close` | `Exchange`, `RouterEpoll` (partly) |
| Static files | `util/static_files.h`, `util/secure_render.h` | none; the client keeps ETags | `serve`, `serve_path`, `etag_matches` | `StaticFiles`, `Exchange` |
| Templates | `util/ver_reader.h`, `data_render.h`, `secure_render.h` | none (pure, over files) | `compose`, `render`, `read_bounded`, `escape_html` | `Templates` |
| JSON | `util/json.hpp` | none (pure) | `parse`, `dump` | `Json` |
| Request parameters, environment, processes, terminal | see `PROJECT.json` | per-request tables; a table under a lock | lookups, system calls | not modelled |

How they interact. `RouterEpoll::getMainProcess` creates one `RequestIO` per
accept thread, all on the same port and the same pool. `run_loop` calls
`epoll_wait`, `Dispatch` and `SweepStale` in turn. `HandleReadable` frames a
request with `Message::inspect`; in pool mode it gives a task to
`ThreadPool::tryAddTask`; the worker parses the request, executes the route,
writes the response to the descriptor and calls `complete_connection`, which
pushes the connection onto `completed_` and wakes the loop through an eventfd;
the loop closes the connection or re-arms it. All of a connection's bookkeeping
(`pending_`, `active_connections_`) belongs to the loop's thread; only
`completed_`, `pending_notify_`, `handled_` and the cooldowns of the routes are
shared with the workers. `EPOLLONESHOT` is what keeps a descriptor silent while
a worker has it. `ExecuteRoute` asks the route tables, a middleware chain or a
static mount for the answer, decides whether the connection is kept, and
`sendResponse` writes head and body in whatever portions the kernel takes.

What is hard here:

* **interleavings** - notifications after the unlock in the pool; the
  reset/swap of the completion channel against workers that count and write; the
  events of one `epoll_wait` batch, worked off while earlier ones close
  descriptors and accept new connections on the same numbers;
* **ownership** - a descriptor passes from the loop to the queue, a worker,
  `completed_`, a local vector and back, and eight different paths close it; each
  must close, forget and count it exactly once;
* **ordering** - the leftover of a pipelined request must be answered after it;
* **limits** - a full queue, `max_connections`, a `size_t` counter at zero, chunk
  sizes at the end of `size_t`, header and size limits at their boundaries;
* **stopping** - `kill()` and `shutdown()` with work at every stage, set-up that
  fails between two descriptors;
* **progress** - half-closed sockets, level-triggered epoll in inline mode,
  stale connections;
* **two views of one text** - `inspect` decides on a prefix what `parse` decides
  on the whole, the client and the server must agree where a response ends, the
  key of a route must not be that of another, a copy in a client's cache must
  be the file its tag is confirmed for.

`PROJECT.json` lists each hazard at its line with the properties that would
notice it going wrong, or why none does.

## 2. Modules

### Threads and connections

**`TaskExecutor`** - what a pool promises: a bounded first-in first-out queue,
tasks accepted only before it is closed, at most `MaxInFlight` of them running,
every accepted task run.

**`ThreadPool`** - one action per critical section of `thread_pool.cpp`, with
running a task, `notify_one` after the unlock and each `notify_all` of `kill()` as
actions of their own. `worker`, `caller`, `killer` say where each thread is;
`"waiting"` and `"blocked"` are threads inside `condition_variable::wait`, which
return on a notification or spuriously. `submitted`, `accepted`, `started`,
`done` are history variables. `Executor == INSTANCE TaskExecutor` states the
refinement: the executor is open until `stop_`, its tasks are the pool's.

**`CompletionQueue`** - `complete_connection` in three steps (push, `fetch_add`,
`write`) and `DrainCompletions` in four (read the eventfd, store 0, swap, handle),
since that order is exactly what its correctness rests on. `CompletionChannel` is what the loop may
rely on, with no counter and no eventfd: a sequence that makes itself heard whenever it is
not empty; `Channel == INSTANCE CompletionChannel` states the refinement.

**`RequestIO`** - one epoll loop with its clients, kernel and workers. The loop's
thread is a program counter `at`; each action is one handler, or one iteration
of a handler's inner loop. The mapping to the code:

| Code | Actions |
|---|---|
| `epoll_wait` and `Dispatch` 77-116 | `EpollWait`, `EpollTimeout`, `WaitFails` (it fails: the loop is left), `DispatchEvent`, `DispatchEnd`, `Hangup` |
| `AcceptPending` | `Accept`, `AcceptRefuse`, `AcceptFails` (the descriptor cannot be added to epoll), `AcceptEnd` |
| `HandleReadable`, recv loop | `Receive`, `ReceiveError`, `ReceiveTooLarge` |
| `HandleReadable`, framing loop | `FrameReject`, `FrameWait`, `FrameDispatch`, `FrameShed`, `FrameServe` |
| `ServeRequest`, `complete_connection` | `WorkerPop`, `WorkerReply`, `WorkerComplete` |
| `DrainCompletions`, `RearmConnection` | `DispatchEvent` (swap), `DrainClose`, `DrainRearm` |
| `SweepStale` and the condition of `run_loop` | `Sweep` |
| `setListenStatus`, `shutdown` | `StopListening`, `ShutdownKill`, `ShutdownClose` |

`pending` is `pending_` (the buffer, the remembered length, `dispatching`, and
whether `last_activity` was ever set), `active` is `active_connections_` with its
unsigned arithmetic. Descriptors are small numbers and the kernel gives out the
lowest free one, so numbers are reused as soon as they are closed. An event
carries the connection it was reported for as a history value; the code sees
only the number, and so does the model. Response writes go to whatever connection the
number then names.

**`RouteGuard`** - the cooldown of one route: the test under `route_mutex`, the
middlewares without it, the arming under it.

**`RouterEpoll`** - the life of a server: the program's calls (`SetField` for the
setters, `SetPort`, `Configure`, `SetListenStatus`, `Listen`), the set-up of the
loops one by one with what may fail in each (`SetUpLoop(outcome)`: the socket,
`O_NONBLOCK`, the epoll descriptor, `EPOLL_CTL_ADD`), `SetUpFailed` (the catch
block), the threads (`StartLoop`, `StartFails`), the end of each loop
(`LoopEnds`, `WaitFails`) and the common `TearDown`. `open` is the set of open
descriptors, `served` the configuration the loops hold, `bound` the ports their listeners
are bound to: a port that is changed while loops run waits for the next `listen()`. What a loop does with
its events is `RequestIO`'s; here it only matters that one was handled.

### What is answered

**`Routing`** - the tables (`WithRoute`, `WithMount` as `http_response` and
`staticX` fill them) and the choice of `ExecuteRoute` (`Resolve`): exact key,
pattern routes in their order if there are any, else the mount with the longest
prefix. A path is a sequence of lexemes, so that keys that run together (`/x`
with `GET` and `/xG` with `ET`) are told apart by their separator only.

**`StaticFiles`** - `Serve` from a path below a mount to a response: decoding,
confinement, directories and their index, the SPA fallback, read errors, ETags
and `If-None-Match`. The disk maps file names to a version or a kind of obstacle.

**`Response`** - headers set, sanitized, replaced without regard to case, and
defaulted; header blocks; the `Query` object; the chain of middlewares that
answer, go on or throw.

**`Exchange`** - one connection with its client: the program registers and
listens, the client sends requests and reads responses by `Content-Length`, its
own method and the status, keeps files with their tags and revalidates them;
`ExecuteRoute` answers and decides the connection's fate; `WriteSome(n)` is one
`sendmsg`, `GiveUp` the write timeout, `Reject` an error of the loop itself;
`Deploy` replaces files between requests. It composes the three modules above.

### Texts

Each pure part is a module of operators, translated from the code, and a module
that is its reference: a writer or reader of the same texts, built as a state
machine that keeps account of what the text means as it is being written. The
property of a pair says that the code makes of the text what the account says.
Every prefix of a text is a state, so that a request cut anywhere by the network
is among them.

| Code | Operators | Reference |
|---|---|---|
| `Message::inspect`, `parse`, `scan_head`, `scan_chunked` | `HttpMessage` | `HttpText`: a client that sends a request lexeme by lexeme and breaks at most one rule |
| `parse_query`, `url_decode`, `parse_multipart` | `Forms` | `FormText`: a reader one character at a time; a client that writes part by part |
| `Json::parse`, `dump` | `Json` | `JsonText`: RFC 8259 as an automaton with a stack |
| `VerReader` (compose), `dataRender` (render) | `Templates` | `TemplateText`: an author who writes piece by piece, tags included |

`Json` and `Templates` are recursive as the code is (RECURSIVE operators), which puts them
outside the prover's reach; `HttpMessage` and `Forms` have recursive functions on texts
instead, about which section 5 proves.

### Others

**`QueueLemmas`, `ThreadPoolProofs`, `CompletionQueueProofs`, `RequestIOProofs`,
`RouterEpollProofs`, `ExchangeProofs` (with `RouteGuard`), `TextProofs`, `HttpProofs`** - lemmas
and the theorems of section 5.
**`MC*`** - values and clients' scripts for TLC; `MCTexts` runs the four
references side by side, `MCRequests` an exchange or a cooldown, each behaviour
about one of them.

An operator whose name is `X_Y` is a plausible mistake in `X`: no specification
uses it; it is put in `X`'s place to confirm that a property would fail (the
`mutants` of `PROJECT.json`).

### Abstractions

* In `RequestIO` a request is one to three parts of a kind: `keep` (keep-alive),
  `close`, or `bad` (malformed). Which bytes make a request complete is
  `HttpMessage`'s business.
* In the text modules a lexeme stands for a run of characters the code treats
  alike: a request line, a header with its value, a literal, a tag's delimiter.
  The tests of single characters (tokens, targets, hexadecimal digits beyond
  those offered) are part of the lexeme. `size_t` is reduced to `0 .. Npos`, the
  sums that may wrap are kept.
* Time. A request's deadline may be over at any sweep, and whenever the framing
  loop finds a request incomplete. Both timeouts are taken as enabled: with both 0 `SweepStale` returns
  at once and `ConnectionEnds` cannot hold. A slot whose `last_activity` was never
  set is expired at the first sweep, as in the code.
* `recv` drains the socket; it reports the end of the stream only if a call
  returns 0, which a preceding short read may prevent - `Receive(eof)` has both.
* In `RequestIO` 64-bit `size_t` is reduced to `SizeMod`, larger than the number
  of descriptors, so that a decrement below zero wraps around as in the program.
* The pool inside `RequestIO` is the abstract executor, justified by
  `ImplementsExecutor` and `PoolIsExecutor`; the completion channel is the sequence
  of `CompletionChannel`, justified by `ImplementsChannel` and `QueueIsChannel`.
* `max_events` is larger than any batch. Failures of `accept4` and `eventfd` for
  want of resources are not modelled; those of `epoll_wait` and of `epoll_ctl` for a new
  connection are. `kill()` is called once; a repeated call
  finds no threads and has no effect.
* A response is written as lexemes: its head, the blank line, the bytes of its
  body. The verdict of the cooldown is open in `Exchange` (`RouteGuard` decides it).
* `ExchangeAssumption`: handlers answer, leave `Content-Length` to the framework and
  put no body into a 204 or 304. A handler that never answers leaves its client
  waiting for an empty response without a status line, which is the application's bug.
  Handlers throw nothing but `std::exception`s.
* Files are not replaced while one is being served. The tag of a file is its size and
  modification second, as in the code, and different contents may share both.
* In `Routing` the segment `a:b` stands for any that has a `:` or `*` in it and names nothing;
  in `Exchange` the header `Proxy-Connection` stands for any in which the searches of
  `ExecuteRoute` find `Connection: ` and a fate.
* In the text modules, inputs left out: request lines longer than `MAX_HEADER_LINE`
  (a request line is one lexeme; `scan_head` takes such a one when no header line follows,
  `message.hpp:482`) and mixed line ends in HTTP/1.0; file names with a `;` and contents with
  the delimiter of their own form, at both of which `parse_multipart` cuts (787, 833).
* `RouterEpoll`: one field `timeout` stands for the four timeouts; the program
  configures from one thread, and not while the loops are being set up.
* Templates: the files of one folder by name, each regular or one of the kinds of
  obstacle; canonical paths are the kind of a file.

## 3. Runs

Every configuration is checked without error unless it says *violated*; state
counts are distinct states.

| Run | Configuration | States | What it shows |
|---|---|---|---|
| `thread_pool` | 2 workers, 2 callers, 3 tasks, capacity 1 | 16 000 | queue bounded and FIFO, no lost wakeup, `kill()` drains and wakes everybody, calls return, the executor is implemented |
| `completions` | 3 workers, 4 completions | 31 000 | no wakeup is lost; the channel `RequestIO` takes in its place is implemented: each completion is handed over once, in order, and handled |
| `pool_connections` | pool mode, 2 clients with 3 and 2 requests, 2 workers, queue of 1, FIN and RST at any time | 538 000 | counter = open sockets, one owner per connection, events and closes never reach a connection behind a task's back, clean shutdown |
| `inline_connections` | inline mode, cap 1, pipelining, FIN and RST | 164 000 | the cap is hard, responses in order; every connection ends |
| `pool_live` | pool mode, two pipelined requests and a short connection, queue of 1 | 33 000 | the leftover is answered second, nothing received is lost, requests are answered, the loop stops |
| `listen_one` | `listenOne`, pool mode, 2 clients, FIN and RST | 96 000 | once a connection was handled, or `epoll_wait` fails, the loop stops and shuts down with other work under way |
| `requests` | programs of up to 3 registrations of 9; 5 programs serving 2 requests of 15 kinds, 1 deploy, every way of writing; besides, 4 requests on 2 threads under a cooldown | 600 000 | the right handler answers; the client finds its responses, each with its headers once, and learns the fate of its connection; a 304 confirms what has the size and second of the current file; an armed cooldown is kept |
| `server` | up to 3 loops or `listenOne`, 2 changes of the configuration, 2 calls of `listen`, failures everywhere | 107 000 | descriptors are closed exactly once, the configuration holds, STOP is followed |
| `texts` | requests up to 26 lexemes, documents up to 7, queries up to 6, multipart bodies up to 27, templates of 3 pieces | 1 040 000 | each text is read as its reference says |
| `pipelining_order` | three pipelined requests | *violated* | finding 1 |
| `cap_underflow` | two pipelined requests and FIN | *violated* | finding 2 |
| `static_fallback` | a pattern route and a mount | *violated* | finding 3 |

Properties of the run `texts`, one or two for each pair of modules:
`AcceptedIffWellFormed`, `NoFalseAlarm` and `CutIsStable` (a request is accepted
exactly when it is whole and breaks no rule; no prefix of a good one is
rejected; later bytes never move its end), `JsonIsStrict` and `JsonRoundTrip`,
`QueryIsDecoded` and `MultipartIsSplit`, `ComposedAsWritten` and `ValuesAreInert`
(includes stand where their tags stood, cycles and limits included; values never
add markup).

Why the bounds are enough to be interesting. Two workers give every race between
workers; two clients with three descriptors' worth of events give a batch in
which one event invalidates another; a queue of one place is full as soon as one
task waits, so shedding happens while another connection is in flight; a cap
smaller than the number of clients is reached, left and reached again; a request
in two parts separates `expected` from the buffer; a request of kind `bad` or
`close` ends a connection that has more data behind it; four requests and seven
units of time let a cooldown of two units run out and be armed again.
Three registrations are the most that one decision depends on: the one that
answers, one it replaces or hides, and one of another kind; two requests with a
deploy between them make a copy and revalidate it. `RouterEpoll`'s ports have
two below and two from `MinPort` on; two calls of `listen` let the second find
what the first left. Within `MaxRequest` each of these occurs, though not all in
one text: a head with two fields, a chunked body of two chunks, a chunk with an
extension, a trailer, and the start of a next request behind a chunked body; `MaxDepth` of 1, `MaxHeaders` of 2 and `MaxHeaderLine` of 3 are each
reached and passed by one; `MaxBody` holds two finished parts; three pieces of a page
with modules that include themselves and each other reach the three passes and
the size limit. What is proved (section 5) does not depend on bounds at all.

Symmetry (`Workers` in the safety runs of `RequestIO`, `Requests` of the cooldown)
is used only in runs without liveness properties. Deadlock is
checked in every run but those that end where a bound does: the texts, the
requests, the cooldown's clock and the server's calls.

**Fairness.** `ThreadPool`: each thread that can run does (weak fairness per worker,
per step of a call already under way, and for `kill()` once it has begun); nobody is obliged to call
`addTask` or `kill`; spurious wakeups are not fair. A caller blocked on a full queue
relies on a finite number of tasks: with an endless supply of competing callers the code lets newcomers
overtake it, since a notified waiter competes for the mutex with them.
`CompletionQueue`: weak fairness of each worker and of the loop. `RequestIO`: weak
fairness of the loop's thread and of each worker; clients owe nothing, and
that `epoll_wait` fails is never owed (`WaitFails` is no part of `Loop`). Strong fairness of `SweepOf(fd)` says that time passes: the sweep runs at least once per
epoll timeout, and a slot nobody renews is found expired in one of them; a slot
renewed by data does not stay so for ever, as the clients' scripts are finite.
`RouterEpoll`: `getMainProcess` goes on with its set-up and tear-down, and each
loop looks at its condition again, since `epoll_wait` returns within
`epoll_timeout`; the program owes nothing and no failure is fair.

## 4. Findings

1. **Pipelined responses may be reordered** (run `pipelining_order`).
   `RearmConnection` arms the descriptor before it handles the leftover
   (`io.cpp:430-436`). While a worker serves request 2, which came out of the
   leftover, epoll may report the arrival of request 3, and another worker may answer
   it first. `tests/test_cases.cpp:1654` states the order for two requests, where
   it does hold (run `pool_live`).
2. **A connection may be released twice** (run `cap_underflow`). From the same
   early arming: requests 1 and 2 are pipelined, the second ends the connection, and the client half-closes. The end of stream is reported
   while request 2 is in flight; in the batch that also reports its completion the
   connection is closed, then the stale event makes `recv` fail on the closed
   descriptor and `Reject` counts it down again. `active_connections_` is then too
   small, and one connection more than `max_connections` (`config.hpp:61`, "Hard
   cap on simultaneously open client connections.") is accepted; at zero the
   counter wraps and none is. Properties that need silence in flight
   (`CounterIsOpenSockets` and its like) are therefore checked for clients that
   do not pipeline in pool mode, and for all clients in inline mode.
3. **One pattern route switches the static mounts off** (run `static_fallback`).
   The branch of `ExecuteRoute` that asks the mounts (`io.cpp:582`) is the `else`
   of the one for pattern routes (544): with a single `/:x` registered, a GET that
   matches no route is answered 404 although a mount covers it.
   `vermell.h:36-37` and `util/static_files.h:10-11` call the mounts "the fallback layer".

Smaller observations, which the models contain but no run is about:

* The test and the arming of a cooldown are two critical sections with the handler
  in between (`io.cpp:521`, 536), so several workers may pass the test before the
  first arms, while `examples/route-cooling/main.cpp:4-5` says that further requests
  are refused after the first. What holds is `AnnouncedCooldownIsKept`, for one key
  per route; with two keys a request that began before may shorten a long cooldown.
* A last header line of exactly `MAX_HEADER_LINE` bytes is rejected when its CR
  is the last byte received and accepted when the head arrives whole
  (`message.hpp:285`, 500); the text properties leave that length out (`edge`).
* `message.hpp:189-190` says that bytes beyond a request are ignored; `RequestIO`
  keeps them as the next one.
* After a write timeout `ExecuteRoute` still returns `keep_alive`, and the next
  response follows in the middle of the cut one (`GiveUp`; `ClientInSync` speaks
  of connections without a cut).
* `Connection: close` of a handler is found by a case-sensitive search in the
  finished head (`io.cpp:619-620`), in other headers too: `Proxy-Connection: close` ends the
  connection, and a header with `keep-alive` there is changed in place of `Connection`, which then says
  keep-alive on a connection that is closed.
* The tag of a file is its size and modification second (`util/static_files.h:188`), though lines 173
  and 186 call it strong: a file that is replaced by one of its size within the same second, or with its modification
  time kept, has the tag of the old one, and a 304 confirms the old copy. The run `requests` has such a version
  ("twin"), and `ConfirmedBySizeAndTime` says that this is the only way a wrong 304 comes about.
* A client that pipelines and hangs up is closed while its leftover is being served
  (`io.cpp:99-108`), so that the response may go to a later connection on the number; it comes from the same early
  arming as finding 2, and no run has such a client beyond that one.
* A `std::thread` that cannot be created lets the exception out of `listen()` with
  running threads unjoined (`StartFails`); the listener of a loop that ended on an
  error stays open and unserved until the others end.
* In templates, `];` or `]]` in plain text - a script on the page - makes the page an
  error; markers left over after as many passes as there are variables stay in the
  page; a value that contains markers is expanded by later passes, escaped all the
  same. `render()` of a missing file is the text of an error page.

## 5. Proofs

`tlapm` proves, for every number of threads, callers, tasks, completions, loops and
calls and every capacity and bound, from the named assumption of each module
(`PoolAssumption`, `RouteGuardAssumption`, `RequestIOAssumption` and `StreamAssumption`,
`RouterEpollAssumption`, `StaticAssumption`, `ExchangeAssumption`, `HandlersAssumption` and `HttpAssumption`;
`CompletionQueue` and `Response` need none):

* `ThreadPoolProofs` - `TypeCorrect`, `QueueIsBounded`, `TasksAreFifo`,
  `TasksHaveOneWorker`, `KillDrains`, `KillWakesEverybody`, `WakeupsAreNotLost`,
  and `PoolIsExecutor`: every step of the pool is a step of the abstract executor
  or a stutter.
* `CompletionQueueProofs` - `TypeCorrect`, `WakeupNotLost`, `DeliveredOnce`, and `QueueIsChannel`: every
  step of the counter, the eventfd and the swap is a step of the channel or a stutter.
* `RequestIOProofs` - `TypeCorrect` for every setting, and under the hypothesis `InTurn` - inline mode,
  or clients that do not pipeline -, for any clients and scripts, workers, queue and cap:
  `CounterExact` (the counter is the number of open sockets), `CapIsHard`, `OneOwner` (each open
  connection is in exactly one hand), `EventsReachTheirs` (no event of a batch reaches a
  connection that took over the number), `OwnResponsesInOrder`, `ReceivedIsKept` (of what was read from an open
  connection nothing is lost and nothing taken twice), `NoTaskLosesItsFd` (an action
  property: no step closes a descriptor a task will write to) and `ShutdownIsClean`.
* `RouterEpollProofs` - `DescriptorsAreClosed` (whatever fails, `listen()` returns with
  every descriptor closed once) and `ConfigurationIsKept` (the port configured is the last valid one, the listeners
  are bound to the one that was valid when `listen()` was called, every value served is within its bounds).
* `ExchangeProofs`, for any registrations, handlers, files, requests, portions of writing and
  bounds: `ChainType` (whatever middlewares do, a response names no header
  twice and carries the headers that frame it), `ExchangeTypes`, `HeadersOnce` and `RightOneAnswers` without any hypothesis;
  `InSync` under `HeadsParse`; `FateIsAnnounced` under `HeadsParse` and `PlainHandlers`;
  `CopiesAreConfirmed` under `HeadsParse` and `TaglessHandlers`. And about `RouteGuard`, `TypeCorrect` and
  `OneKeyIsKept`: if a route's middlewares pass one number of seconds to `web.guard()` (or do not
  call it), an armed cooldown is kept, for any number of threads and requests. So each invariant of the run
  `requests` is a theorem.
* `TextProofs` - `QueryDecoded`: a query string of any length and any characters is decoded as a reader of one
  character at a time understands it; `CutIsKept` (an action property): for any request of any length, well-formed or
  not, and any limits, bytes that arrive later never move the end `inspect` has found; `MultipartSplit`: of a
  multipart body of any length, with any number of parts, any content of line ends, dashes, header-like lines and other bytes,
  and the file names of `FormText!Filenames`, the parts whose delimiter has arrived are found, each as it was written.
* `HttpProofs` - `NoPrefixRejected`: for any request that breaks no rule, of any length, and any limits, `inspect` rejects
  no prefix of it, wherever the network cuts it; `AcceptedExactly`: for any request, well-formed or not, of any length, and any limits,
  a server that has received part of it accepts it exactly when its client has sent all of it and broken none of the rules,
  and hands the route the body that was sent. Lines of exactly `MAX_HEADER_LINE` bytes are left out of both.

How they go. In the pool, `FifoExactlyOnce` (`accepted = started \o queue`) is
inductive once the types are known. `OneWorkerPerTask` and `DrainedOnKill` need
an invariant that says where a task comes from: a worker's task is one of
`started`, different from any other worker's and not yet done; an exited worker
means a stopped pool with an empty queue. The wakeup properties count: the
sleeping workers can be ignored as long as the tasks in the queue are matched by
threads already under way, that is by workers that are ready, plus callers that
still owe their `notify_one`. A push adds a task and a caller who owes; the
notification turns a debt into a ready worker, or there is nobody asleep; a pop
takes one task and one ready worker. `QueueLemmas!CountMove` says
what moving one thread from a state to another does to such a count. The dual
argument serves the callers blocked on a full queue.

In the completion channel the inductive invariant relates four places at once:
if completions are in the vector and the loop is about to sleep, either the
eventfd is set, or a worker is about to count (and will find 0) or to write; the
reset before the swap is what re-establishes it. Exchanging the two
(`Drain_SwapFirst`) breaks it. With it the refinement is a matter of each step: the swap takes what
the channel holds, and the loop only wakes when there is something.

For the cooldown the invariant adds that whoever armed it is answered, that the
stored `time_point` is at least as late as every arming and at most the clock; a
request that begins has found `now - time_point` past the key, hence past every arming.

For `RequestIO`, `TypeInv` adds to the types that the buffer being framed is never empty, which is what makes
taking a request from it defined. Everything else follows from one invariant, `OwnerInv`, for both
modes at once. `TokenInv`: the tasks in the queue, those the workers serve, and the completions in either
vector are about different descriptors. `HandInv`: an open descriptor has a slot in `pending_` or
is on that way, never both, and a closed one neither. Together they give every open connection one
hand, and to this is tied the rest: the counter is the cardinality of the open set (`CountInv`), which
is smaller than `SizeMod`, so that no decrement wraps; the events still to be handled are about descriptors
with a slot, each the only event of its descriptor, and about the connection now behind the number (`BatchInv`).
The last is where the order of the batch matters: closing one
descriptor and accepting another on the same number must not turn a waiting event into one
about the newcomer. In inline mode that holds because only the handler of a descriptor closes it;
in pool mode also completions do, whose descriptors have been silent because `EPOLLONESHOT` disarmed
them, so `BatchInv` relates `armed` to the batch.

`TalkInv` adds what the order of responses needs: the buffer of a slot is the stretch of the client's
stream that ends with the last part received and begins with the first request not yet answered
(`Held`, `Aligned`) - from which `NothingReceivedIsLost` is read off by counting the tasks of a descriptor, at
most one (`TakenCount`) -; the request of a task is the next to be answered, or, once its response is
written, the last that was, and nothing behind it has been received. That the parts of a request
follow one another all the way (`PartsInRow`) is an induction along the stream; `QueueLemmas` gets induction from the
library's theorem on least elements (`SetInduction`), the predicate being membership in a set.
`StreamAssumption` says what a stream is - requests numbered from 1, each in its parts -, and TLC evaluates it on every
run's scripts. `EndInv` says that workers and completions are worked off before connections are closed.

`InTurn` is not a convenience: a pipelined request in pool mode is handled from the leftover after the descriptor
has been armed, so a descriptor is at once on its way round the pool and reported by epoll, and both
halves of `OwnerInv` break - findings 1 and 2 are the two consequences. TLC checked `OwnerInv` as an
invariant of the configurations `MCRequestIOInline` (pipelining, inline), `MCRequestIOPool` and
`MCRequestIOUnique` before it was proved.

For `Exchange`, `TypeInv` already says much: a head that is on the wire or about to be written names no
header twice and has a `Content-Length` that is the length of its body. It rests on the
lemmas about `Response` that lead to `ChainType`, where each way to change headers keeps `OneEach`, and on
`HandlersAssumption` for a `Content-Length` of a handler's own. The header lines of a block and the
middlewares of a chain are iterations; what they keep is shown by `Iteration`, again by `SetInduction`.

`SyncInv` is about the stream as it will be when what `out` holds is written (`Total`): every response
in it starts where the client looks (`InStep`), there is no other status line, and the last response
may be the one under way. A write moves lexemes from `out` to `wire` and leaves `Total` alone,
whatever its portion (`TotalStays`, from `RestIs` - the split of the count over both buffers);
`ExecuteRoute` appends one whole response (`InStepGrows`), so that the starts so far stay and the next
is behind it. That the client, who has `wire` only, is in step follows since both streams agree up
to the response it is waiting for (`StartsAgree`, an induction along the responses). `FateInv` adds
that of all heads in `Total` only the last says close, and it does when the connection is, or
will be, closed (`Over`). `CopyInv` says that each copy is a version of a file with its tag, under a path
that a mount answers - which stays so, as the table does not change after `listen()` -, and that the
response being written makes such a copy. Then a 304 for a copy's tag means
that the file has that version's size and time, and a
GET without a condition is served the same file (`Confirmed`).
`TableInv` relates the table to the history of registrations: every key has the last
literal route registered for it, and every pattern is one of a route; a key is of one path
and method only, as neither holds the control character between them (`KeyIsOne`).

The three hypotheses are about the application and its clients, and the run's instance satisfies them.
`HeadsParse`: no request whose parsing fails is a HEAD - such a one is answered 400 with a body, which
its client does not expect, before the connection is closed. `PlainHandlers`: a handler that sets
`Connection` writes `close` or `keep-alive` in the code's spelling - anything else is sent as it is, and
`ExecuteRoute`, which searches the head for one spelling, does not see it -, and sets no other header
in which it finds keep-alive. `TaglessHandlers`: a handler sends no
`ETag` and no 304 of its own, of which nothing can be said here. `ClientInSync`, `FateAsAnnounced` and
`ConfirmedBySizeAndTime` are false without the first, the second and the third; the last two theorems have the first
as well because their invariants build on `SyncInv`. TLC checked the four invariants on the
configuration `MCRequests` before they were proved.

For `RouterEpoll`, `DescriptorInv` says that what is open is exactly what the loops set up
so far have, that each has a listener and an epoll descriptor named after the call and its
place, so that the next ones are fresh, and that the socket `tcpControl` remembers is gone
when no loop is left: without the last, `on()` of the next call would close a number that is
no longer its own. `ConfigurationInv` adds to the bounds of what is served those of what is
configured, and relates the places that hold a port: the configuration's, the
engine's, the one last asked for and, while a `listen()` runs, the one its listeners are bound to, which
is the one that was valid when it was called (`told`).

For the texts, a recursive function is first shown to satisfy its own equation: `QueueLemmas!Recursive`
does that for any function whose value on a text depends on shorter texts only, from the library's
theorem on well-founded recursion; what holds of all texts follows by `InductionOnSize`, again
with a set for the predicate. `QueryDecoded` needs an invariant about texts that are not there yet:
the reader's account of the query so far, joined to what the code makes of *whatever* may follow, is
what the code makes of the whole (`Reads`), with a case for each place the reader can be in - a key, a value, behind a
`%`, behind a `%` and one digit. `CutIsKept` needs no account at all, it holds of any two texts one of which is
the other and a lexeme more. The four places `inspect` looks at are taken in turn: the terminator of the head stays the
first one when the text grows (`FindStays`, `HeadStays`), and with it the head and all that is decided on it; a line
of the chunked body that was found is found again, so that by induction on the size a scan which was `complete` stays what it was
(`TrailersStay`, `ScanStays`); and `size_t` saturates in the same way (`CutStays`).

`MultipartSplit` again speaks of what may follow. Its invariant, `BodyInv`, divides the body into what was sent up to the last
delimiter and the piece that is open. The first is cut into the same pieces whatever follows (`Cut`), the parts among these are
the client's account so far, and none of them begins with the dashes of a final delimiter (`Sent`); the second is a preamble, the
header lines or the content of the part in `current`, or what stands behind the final delimiter (`Writes`). So nothing
has to be said of a recursion over the body: a delimiter closes the open piece (`CutGrows`), and one lemma,
`PieceIsRead`, says that `ParsePart` makes of it what the client meant. That one rests on what a disposition says:
a parameter is the first piece between semicolons that begins with its key (`DispositionIsRead`), which is why
`filename` in front of `name` is no trap, and the blank line found is the first one
(`BlankLineCuts`), so that one in the content is content.

`NoPrefixRejected` needs the whole account the client keeps. Its invariant, `HttpGood`, says of a request that has
broken no rule what the server would make of what it has received (`Good`): while the head is on its way, that
`scan_head` of the lines that have ended arrives at the account of lengths, codings and fields the client has (`ClosedOk`),
that none of them is empty and so no terminator found, and what the open line may hold; behind the head, that the
first terminator is the one the client sent, that the verdict on the head is settled, and where in the body or
its chunks the text ends (`AtSize`, `AtExtension`, `AtData`, `AtChunkEnd`, `AtTrailer`). The chunks that are whole are a
prefix that the scan passes over whatever follows (`Joins`), which is how a chunk of any number of bytes, and any number of chunks,
take one step of the induction. `GoodSays` reads the verdicts of `inspect` and `parse` off it: nothing is rejected, what is whole
is accepted, and what is accepted is whole and has the body that was sent. There is one lemma per action of the client.
The proof needs two things the code has and a first version of the model left out: a header line of at least one byte
(`MaxHeaderLine > 0`), and buffers shorter than `npos` (the guard of `Send`): a terminator at `npos` would not be found.

`AcceptedExactly` is `GoodSays` for requests that break no rule. For the others the account says nothing after the step that
breaks the rule, as what is then read may be anything; so the invariant (`HttpSound`) says instead that the request is lost
whatever follows: no text that begins with what has been sent is one `parse` takes (`Doomed`). That is kept by
every later step for nothing (`DoomedStays`), and the step that breaks the rule is where `Good` is at its most useful:
it still describes the text before that step. One lemma per action shows that each rule is one the server looks at whatever comes
after (`Broken...`, joined in `BreakDooms`): a request line or a field that has begun stays the beginning of a line of the head
(`HeadCovers`: no terminator lies inside the lines of a head), a second `Host` or a bare LF stays in it, the terminator of a head without `Host` stays the
first one (`SameHead`), and a chunk line or chunk that is wrong is never a complete body (`NeverWhole`) behind
chunks that are whole. `Doomed` is about all texts, so TLC cannot check `HttpSound`; it checks what follows from it, in the run `texts`.

Only model-checked: liveness under fairness and everything that needs `ENABLED`
(beyond the prover); of the run `texts` the properties about `Json` and `Templates`, for the reason above; and `RequestIO` with
pipelining clients in pool mode beyond its types, where `pool_live`
checks two pipelined requests and the findings show what fails beyond.

## 6. Not modelled, and what is left

* **Request parameters** (`request.cpp`, `parameters.cpp`, `parameter_proccess.cpp`):
  tables filled per request by the parsers of `Forms`, then looked up; no state is shared.
* **Environment**: a table under one lock, filled from a file. Each call but `get` is one
  critical section, and `get` falls back on `getenv` after it. What a reload does to values
  set between its parse and its merge is left open by its documentation.
* **Processes and terminal**: wrappers of system calls and console output.
* Of modelled components: cookies, dates and the texts of status lines; the table of mime
  types; socket options; doubles written by `dump()`; the eventfd of each `RequestIO`, which
  is created (`io.cpp:69`) and never closed; several loops sharing one pool, which
  share nothing else; `applyConfig` from a handler or against a dispatching loop, a data race
  whose outcomes the build does not bound.

Next: `Templates` and `Json` without RECURSIVE operators; `RequestIO`
for clients with two pipelined requests in pool mode, where the order of responses holds.
