# openpwnagotchi-companion: the verification project

TLA+ models of the companion plugin (`src/plugin/companion.py`, run inside
pwnagotchi on a Raspberry Pi) and of the phone app that talks to it
(`src/frontend/src/lib`): model-checked with TLC on small instances, and with
the safety of every modelled component proved with TLAPS for every value of the constants.

Contents: [the system](#the-system), [modules](#modules), [runs](#runs),
[fairness](#fairness), [refinement](#refinement), [proofs](#proofs),
[findings](#findings), [abstractions](#abstractions-worth-knowing),
[not modelled](#not-modelled), [what is left](#what-is-left).

## The system

A phone is tethered to the unit over Bluetooth PAN. The plugin binds one
HTTPS server (the app's files) and one WSS server (the protocol) per local
address that `bind_addresses` selects. The app keeps one WebSocket.

| component | state | operations | promises that make it correct |
|---|---|---|---|
| WebSocket handler (`make_connection_handler`, `ConnectionState`, `ClientSet`) | per connection: authenticated, admitted, deadline; the client set under a lock | accept, poll, receive, send replies, initial burst, close | nothing about the unit before authentication, no effect either; unauthenticated peers are closed; the set holds exactly the admitted live clients |
| Router | none of its own; reads the caches | gate, validation, dispatch, mode, passive mode, reboot, shutdown | acknowledgment first, effects only when authenticated |
| broadcast and hooks | `_last_face`, scheduled sends | `on_ui_update`, `on_handshake`, ticker | no face missed by a client that joins meanwhile unless two of them cross, dead clients leave |
| HTTPS listener (`Server` in `_serve_http`, `Handler`, `_DeadlineReader`) | `_pending`, `_live_order`, `_evicted`, counters, one lock; the request's deadline and the socket's timeout | accept, handshake, read the headers, write, evict, expire, report, drain | both caps hold, no socket escapes both registries, own closes are silent but for a request line they cut short, reports are an interval apart, every connection ends, `stop()` ends every handshake |
| Listeners | `_bound`, the asyncio loop, a lock, a teardown flag | `reconcile`, `_open`, `_close`, `stop` | sockets are on record, teardown wins over a waiting pass, the passes converge, `stop()` returns |
| options and bind selection | none | `option`, `clamp_interval`, `bind_addresses_option`, `parse_bind_addresses`, `select_bind_addresses` | nothing the owner did not choose is bound, no interval leaves its range (the passes are neither too close nor too late) |
| lifecycle: background thread, ticker | `_stop`, `next_rebind` on the wall clock, references to the rest | `on_loaded`, `_background`, `on_unload` | slow work off the loop, passes in time, unload ends everything, a failed reading takes nothing down |
| GPS resolver, session cache | three cached positions and one stamp, no lock | `set_browser_position`, `refresh_gpsd`, `refresh`, `current` | priority of sources, nothing past its TTL, always a uniform answer |
| handshake store and sidecars | the capture directory | `on_handshake`, `write_sidecar`, `entries` | a sidecar is never written over another one; an announced capture reaches the phone's list |
| app: client (`ws.ts`) | connection state, five timers, queue, promises | connect, close, request, command, `sendGps`, every socket event | no dead end, recovery, commands never replayed, what is unsettled can be answered unless a `connect()` left it behind, every promise settles |
| app: position sharing (`geo.ts`) | control, watch token, last position, push timer | tap, visibility, callbacks, timer | one watch, no old place, pushes resume |
| app: controls (`controls.ts`) and session (`session.ts`) | armed and pending control, sentences, confirm token; the current client | arm, cancel, confirm, rejections, stats and connection notifications; rebuild, release | what is shown belongs to the unit on screen; a pending control ends |
| app: stores (`stores.ts`) | one store per message kind, the coalesced refresh and its owner | attach, detach, refresh, reset | refreshes owned by one client |
| app: settings, views; readers; tools | see [not modelled](#not-modelled) | | |

How they interact. pwnagotchi calls the hooks on threads of its own (SPEC F8),
the background thread and the ticker are two more, all handlers and all sends
run on one asyncio loop in a fourth, and every HTTPS connection has its own.
What they share is guarded by a lock each (client set, registries, session
snapshot, reconciliation) except `GpsResolver`. `broadcast()` crosses from any
thread to the loop with `run_coroutine_threadsafe`. In the app there is one
thread and the hard part is order: timers, socket events, promise handlers,
callbacks the platform has queued, and the user, in any interleaving.

What is hard to test here, each with its line, is the list `hazards` of
`PROJECT.json`.

## Modules

Modules are independent where the components meet only through a message, and
composed where a property spans them.

| module | of | state and actions |
|---|---|---|
| `Connections` | handler, client set, router's gate, broadcast | an action is the code between two awaits of the handler (`PollExpires`, `RecvClosed`, `SendNext`, `AfterReplies`, `BuildBurst`, `Finish`), one step of a broadcasting thread (snapshot, then one schedule per target), or one send that the loop completes. The hook and the ticker thread interleave everywhere. A payload is its type; a `face_status` keeps the text it was built from, the (face, status) pair that `on_ui_update` compares and that may come back to what it was. `screen` is the last one delivered, as the app's store keeps the last; `rcvd` is whether the peer was told anything of the unit, and that it is logged in |
| `HttpConnections` | the HTTPS listener | an action is one section of `_pending_lock`, one blocking call or its end, by the accept thread, a connection's thread or the thread that unloads. The order of a dict is a relation. A request is the lines of its headers, read against `deadline` with the timeout `allowance` that `_tick` sets, and the writes of its response. A request line that has not arrived whole (`begun`) may be cut short by a close: what there is of it is parsed, refused (`ParseFails`), or answered. `cause` is why a thread trips, `logged` for which causes a line was written |
| `Listeners` | reconciliation | the pass and the teardown are workers with a program counter, a step per wait; the loop and the host's addresses and ports run in between. An exception `_open` does not catch ends the pass (`BindWsRaises`); its traceback holds the HTTPS socket until it has been handled (`DropTraceback`) |
| `Binding` | options and selectors | pure operators: clamping, parsing, matching. An address is a number, a prefix the size of its block |
| `Lifecycle` | EXTENDS `Binding`: load to unload | the main thread (`on_loaded`), the background thread with a step per blocking call, the ticker, and `on_unload` at any moment, on a wall clock that may be set back. What a pass does to one address is `Listeners`; here it is a lock, a flag, an enumeration and the set left bound |
| `Captures` | hook, sidecar, directory, refresh | the hook's thread, the loop, the stock `gps.py` and the app's client take turns; the test, the open and the close of the sidecar are apart, and so are the two sends of a `get_handshakes` |
| `ClientContract` | what the app may rely on in a client | the connection state and the promises, and nothing else; `WsClient` implements it |
| `WsClient` | `ws.ts` | the client is a record; a function of the source is an operator from record to record, so a handler is the composition of the calls it makes. One action per callback, against a unit that admits, refuses, restarts, falls silent |
| `Controls` | `controls.ts`, `session.ts`, the stats and connection stores | built on `Contract == INSTANCE ClientContract`: the client is whatever its contract allows, replaced by the session at any moment. A notification of a store is an operator on the `ui` record, composed in the order the subscribers run |
| `Geo` | `geo.ts` | one action per handler and platform event. A position is the trip on which it was taken; a trip ends when the page is hidden |
| `GpsResolver` | resolver and session cache | no lock: each access to `_gpsd`, `_browser` and `_browser_at` is a step of the calling thread |
| `Positions` | EXTENDS `Geo` and `GpsResolver` | the link between them: `sendGps` to the `gps_data` dispatch, and `gps_update` and `stats` back to the app's gps store, which decides whether the phone pushes |
| `...Proofs` | `Connections`, `HttpConnections`, `Listeners`, `Lifecycle`, `Captures`, `WsClient`, `Controls`, `Positions` | theorems and proofs, one module each |
| `MC...` | | symmetry and small sets for TLC |

Operators described as a mutant (`CloseVictimsForgets`, `FinishKeepsClient`, ...)
stand before the definition they vary. Each property of a passing run has one:
with the definition replaced by it, the run violates the property.

## Runs

| run | shows | bounds and why they are enough |
|---|---|---|
| `ws_one_client` | no unit data and no effect before authentication, acknowledgment first, no face missed but by a crossing, the client set is exact; a peer that does not authenticate is closed and a dead client leaves the set | one connection, because these promises are per connection; two requests of every kind, with and without a `message_id` (auth then anything, anything then auth), two texts that the view may change between twice, so that it may show A, B and A again; both casters, one step back of the clock |
| `http_caps` | both caps, no stray socket, own closes are silent but for a cut request line, `stop()` ends handshakes, the connection used last is kept | three connections for one handshake slot and two live slots, so that both caps evict; the drain at any moment; the clock stands before every deadline, so that a handshake that fails has failed in time and only evictions and the drain are closes of the listener's own; two pieces of a line, so that one can be cut |
| `http_slots` | two reports an interval apart, every connection ends | two connections for one slot of each kind: the second displaces the first, in its handshake or in its request. A handshake is late as soon as it begins, and a request has a tick. The clock has no bound of its own, it runs as long as some thread waits for it; an interval of one tick, so that two reports do happen |
| `listeners` | no leaked socket, teardown wins, healthy addresses stay, served addresses are named, convergence, `stop()` returns | two addresses, two flaps, two faults (failed enumeration, foreign bind, thread that does not start, an exception that ends the pass), one overdue wait |
| `lifecycle` | only chosen addresses are bound, the next pass is in time and not too soon, nothing goes down because a reading failed, unload ends everything | ten configurations that between them take every branch of the parsers (intervals above, below and at their range, and no numbers), two interfaces over three-bit addresses, two changes, two failures, a clock set back by up to two |
| `captures` | old sidecars stay, an announced capture is lost only behind a stalled send, refreshes are alone | two captures of which one is the stock plugin's too, one fault, two clients, two reads asked by a view, one stall, a list cut to one entry |
| `ws_client` | what is unsettled can still be answered, nothing before admission, no command replayed, a unit that is down is not one that refuses; recovery, silence is noticed, the contract, every promise settles | one read and one command (their rules do not depend on others of their kind), two sockets at a time, three faults, two calls of `connect`, the second in any state of the client |
| `controls` | what is shown belongs to the unit on screen; a pending control ends | all three controls, two commands and two clients (a rejection of the first against the entry of the second), two drops |
| `positions` | one watch, no place of an earlier trip, nothing past the TTL, pushes resume when the unit loses its fix | two trips and two watches (an old callback and a new watch), one queued callback and one frame in flight, TTL of one tick, the loop and the ticker in `current()` |
| `listeners_orphan`, `positions_uniform`, `captures_lost` | the [findings](#findings) | as small as the counterexample allows |

Six more configurations find counterexamples, in seconds each, to what a document says and
the code does not do; they are listed with the [findings](#findings).

`CHECK_DEADLOCK FALSE` is set in all: the bounds stop the clock, the faults and
the user, and a system in which no peer does anything may rest.

Every bound is a constant whose comment starts with "bound:". They cap what the
environment does (faults, taps, ticks, frames); no handler is cut short by one.

## Fairness

Only what the code's schedulers give is assumed.

* `Connections`: the asyncio loop runs what is ready (`WF` of each handler's
  coroutine and of each scheduled send) and the clock advances. A peer owes
  nothing, nor do pwnagotchi's threads (a dead client leaves even if nothing is ever
  broadcast to it), and the clock may be set back a bounded number of times.
* `HttpConnections`: the threads run, a blocking call ends when its time is up,
  and the monotonic clock advances. The peer owes nothing: neither the handshake
  nor a line nor the end of a response is fair. `ConnectionsEnd` therefore rests
  on the two deadlines alone.
* `Listeners`: the background thread calls `reconcile` again, a step that is
  enabled is taken. Getting the lock is `SF`: a pass releases it and sleeps
  `session_poll_interval` before it asks again. The host owes nothing:
  convergence says "once it settles", which the budgets of `Flap` and faults force.
* `Lifecycle`: the clock advances, and the main thread, the background thread, the
  ticker and, once begun, the unload go on. The user need not unload.
* `WsClient`: timers that are armed fire (those of `request` and `command`
  included), a unit that has a socket on a working link answers. The bound,
  patience are only fair while the socket is stuck, the pong timeout while no pong is on its
  way; were they always fair, a slow unit would be a dead one.
* `Controls`: a call settles and the client reconnects, which is what `WsClient`
  shows of itself (`PromisesSettle`, `Recovers`); the unit sends `stats` on
  every tick of `_stats_ticker`; promise handlers run. The owner and the session
  owe nothing.
* `Positions`: the push timer fires, the loop and the ticker go on.
  `GpsDataArrives` is `SF`, because a socket that keeps dropping disables it
  and because the loop may be busy in `current()` when a frame arrives. Watches,
  callbacks, taps and the link owe nothing.

## Refinement

`WsClient` implements `ClientContract`. The mapping keeps the connection state,
"closed or not yet connected", and each promise (waiting while the queue, the table of
pending calls or a command's timer has it); `connect()` from `restarting` is a step of its own
(`Reconnects`): the client is connecting and the calls wait on. The five timers, the sockets and the queue
disappear in it. `KeepsItsContract` says that every step of the client is one the
contract allows (checked by `ws_client`, and proved), `PromisesSettle` that the
contract's liveness, `Settled`, holds under the client's own fairness (checked).
`Controls` then uses nothing but the contract, so that what it shows holds of any client
that keeps it.

`Positions` and `Lifecycle` compose by EXTENDS instead: their parts share variables
(the link, the selectors), and the properties are about both sides.

## Proofs

For every value of the constants, under the named assumptions of the modules
(types of the bounds; a cap is at least one; there is a socket; for the resolver, that
the loop and the ticker are among the threads; for the lifecycle, that an interval is
configured as nothing, as junk or as an integer). Each proof module states its
inductive invariant with the reason for each conjunct, and has one step per action. In
short:

* `ConnectionsProofs` (any connections, with or without a token):
  `ConnectionsTyped`, `DataNeedsAuth`, `EffectsFollowAuth`, `ClientSetSound`,
  `FacesArrive`. `NoDataBeforeAuth` is not inductive: it says nothing of data on
  its way. The invariant is `TypeOK`, `EffectsNeedAuth` and, per connection,
  `Stages` (where a handler is against whether it is admitted), `Admission`
  (admitted means authenticated and acknowledged), `Channels` (the set, a caster's
  targets, scheduled sends, the reply queue and what was received lead to admitted
  connections only) and `Membership` (set against handler). `FacesArrive` adds `FInv`.
  It follows the text of the last push to the peer. Texts come back, so that no order
  among them helps; what helps is the order of the channels. Unless a push is still to come to
  this client (`Pending`: it is a target of the hook, or the hook is about to take its
  snapshot), the faces scheduled for it end in that of the last push (`Line`); and if none is
  scheduled and no crossing is on record, the peer shows that face, or will when its
  handler's own frames are out (`Shown`). Between pushes the hook holds no face, and the ticker
  never does (`Casting`); replies are built on an empty queue (`Tidy`). It holds because
  `_last_face` is assigned only once every target of the snapshot has its send scheduled, and
  what is assigned is the face that was sent; because a handler joins the set before it
  builds the burst; and because a face the handler built that differs from the last push is what
  `crossed` records.
* `HttpConnectionsProofs` (any caps, deadlines, connections): `RegistriesBounded`,
  `EvictionsAreSilent`, `StopReachesHandshakes`, `ReportsAreRateLimited`,
  `ActiveSurvives`. The invariant is types, the accept
  loop's newcomer (`Accepting`), per connection which registries hold it and who
  has closed it (`Held`) and that a close of the listener's own is on record for as
  long as its thread may trip over it (`Excused`); `Capped`, which carries that every
  set of keys has a first in the order, else a cap could not be restored by taking
  the first; `Latest` and `Windows`.
  `ActiveSurvives` needs room for two live connections, and fails with one.
* `ListenersProofs` (any addresses, with HTTPS, WSS or both): `TeardownIsFinal`,
  `NobodyServedUnnamed`, `NothingLeaks`, `HealthyKept`. The invariant says who
  holds the lock (`Locking`), what each step of a worker knows of the address in
  hand (`Handled`; a socket that only a raised exception holds counts as in hand until it is
  dropped), that every other address is served exactly if it is on record
  (`AtRest`), what a teardown has still to do (`Teardown`) and which absences a pass
  has seen (`Absences`).
* `LifecycleProofs` (any configuration and interfaces): `OwnerChooses`,
  `HealthyListenersStay`, `PassesKeepTime`, `PassesSpaced`, `UnloadUnbinds`. The invariant is the order
  of the start (`Ordered`), that what is bound is selected (`Selected`) and that
  selectors come from the configuration (`Parsed`); lemmas on blocks say that two addresses match one prefix
  exactly if they have the same network. `PassesKeepTime` rests on `OnTime`, which adds to the
  time that has passed what is left of every wait: the timer counts from the sample
  taken before the pass, so the loop can take one wait and one slow refresh more than
  it. `PassesSpaced` rests on `Spaced`: the time since the last pass and what is left of the wait
  are at least the floor of the poll, and a loop that was woken makes no other pass. `UnloadUnbinds` (nothing listens once `on_unload` has returned, unless it overtook
  `on_loaded`) rests on the lock: a pass holds it, the teardown waits for it, and none
  begins after (`Exclusive`, `Torn`).
* `CapturesProofs` (any captures, clients and faults): `OldSidecarsSpared`, from
  what the hook knows after its test (`Looked`); `RefreshesAreAlone`, from "only the
  current client waits, for one request, as the owner" (`OneWaits`); `AnnouncedIsListed`,
  the promise of the whole component. Its invariant follows a push from the disk to the
  list. What a push says is kept by the disk until the capture is removed (`Truthful`:
  the hook writes a sidecar once and leaves a whole one alone, and modification times
  grow). While the loop has not waited, a listing under way has the capture ahead of it or
  has told it, and every list behind the push covers it (`Covered`). A list covers a
  capture that it shows or that the limit has cut off, and then it is full of newer ones
  (`NewestCovers`, which needs the newest of the entries that were cut). `CapturesShown`
  alone, without `stalled = 0`, is false ([findings](#findings)): `LoopSends` of a push
  between acknowledgment and list is the one step that breaks `Covered`.
* `WsClientProofs` (any calls, sockets and faults): `NothingIsForgotten`, `AdmittedFirst`,
  `CommandsOnce`, `OnlyARefusalSuspends`, and the refinement, `ClientImplementsContract`. The
  invariant `Sound` is about the record alone: a client is `Up`, with one link, its
  current one, and whatever was sent or beats came after the admission; or it is
  `Down`, where nothing is in flight and every unsettled read is queued; and in each state
  only its own timers run (`Timed`). There is a lemma per operator that says from which
  kind of client it leads to which, so that an action, a composition of operators,
  follows from theirs. `Linked` is `Up` without "the queue is flushed", for the middle of
  a handler; `Loose` is what `connect()` makes of a client it takes a socket from, the one way into a
  new connection on which calls from an old one still wait (`left`). A ping of an old timer on
  the new socket is on record in `blurted`.
* `ControlsProofs` (any controls, commands and clients): `NothingOfAnotherUnit`. What
  the `ui` record holds is owned by the client it was last drawn for (`Owned`, relative
  to `ui.known`, not to the client, because some notifications run between the two).
* `PositionsProofs` (any TTL, threads, sources, bounds): `PositionsTyped`,
  `OneWatchWhileShared` (inductive once `counter` is a number), `NoOldPlaceIsSent`
  (the reading is of this trip, tokens are never used again, so a callback that
  carries the active token was queued on this trip), `NoStalePosition`
  (`set_browser_position` assigns the position before its stamp, so a stored
  position is never older than the stamp says; with the assignments swapped the
  first conjunct fails).

Only model-checked: all liveness, the contract's included (`PromisesSettle`, `Recovers`,
`SilenceIsNoticed`, `UnauthenticatedCloses`, `DeadClientsLeave`, `ConnectionsEnd`, `Converges`,
`StopReturns`, `UnloadEndsAll`, `PushesResume`, `PendingEnds`): fairness and ENABLED are outside
the prover. Every safety property that a passing run checks is a theorem.

## Findings

Three runs end in a counterexample:

1. `listeners_orphan`: a WSS `start()` that overruns ten seconds is treated as a
   failed bind (SPEC.md:548) but is not cancelled; it comes up on nobody's record
   (SPEC.md:552) and holds the port against every later pass.
2. `positions_uniform`: `current()` tests `_gpsd` (or `_browser`) and then copies
   it; another thread may have set it to None in between, and `dict(None)` raises.
   Callers catch it: the reply is an error, the `stats` frame of that tick is
   dropped, or the capture goes without its sidecar.
3. `captures_lost`: the list of `get_handshakes` is built before the acknowledgment
   is sent; when that send waits, a push of a newer capture overtakes the list, and the
   app coalesces its refresh into the read whose answer is already stale
   (SPEC.md:3743). `LossNeedsAStall` shows that nothing else loses a capture.

Six more are found by a configuration that is kept beside the runs
(`tlc -config X.cfg M`, with the module the property is in, or its `MC` module); the
passing runs and the theorems state what holds instead.

4. `HttpConnectionsCut.cfg`, `EvictionsLogNothing`. SPEC.md:2079 has the handler of a
   connection the listener evicted log nothing. `log_error` lets everything but the request
   deadline by (`companion.py:2690`): closed in the middle of its request line, a connection
   leaves half a line, which `parse_request` refuses and `send_error` logs.
   `OwnClosesAreSilent` holds with that exception and no other.
5. `HttpConnectionsTrickle.cfg`, `HeadersHaveOneDeadline`. `companion.py:2418` and SPEC.md:2130
   say that a trickle runs the request deadline down like silence does. `_tick` recomputes the
   timeout once per `readline()` (`:2481`); inside one, the standard library receives again, with
   the same timeout, after every piece that does not end the line. The deadline holds between
   lines, which is what `tests/test_pending_handshakes_bound.py:1250` tests. A line has a maximum
   length, so `ConnectionsEnd` stands.
6. `ListenersFatal.cfg`, `FailuresAreNotFatal`. "A failure is logged, never fatal"
   (`companion.py:2956`, also `:2793`). `_open` catches `OSError` around its two binds; the
   RuntimeError of `thread.start()` in `_ensure_loop` (`:3669`), which `:3003` calls routine
   under memory pressure, and the ImportError of `resolve_ws_serve` (`:3640`) end the pass: the
   addresses after it get no turn, and under `on_loaded` no thread of the plugin starts. The HTTPS
   socket bound just before is on no record; CPython closes it once the exception has been handled
   and the frames it holds are gone (`DropTraceback`), so that `NoLeakedSockets` holds, with that
   exception. Without reference counting it would stay until collected.
7. `WsClientReconnect.cfg`, `ReadsAreResent`. `connect()` over a client that is connecting or
   restarting discards its socket (`ws.ts:1085`) without the requeueing and the rejections
   of every other end of a connection: a read sent on it is neither queued nor on the new socket
   (against SPEC.md:3014), a command on it is reported at its time limit or at the next drop.
   `AnswersCanArrive` has these calls as its exception (`left`). SPEC.md:2843 has the user
   reconnect from `restarting`; the only caller, `session.ts:180`, does so on a fresh client.
8. `WsClientRejected.cfg`, `RejectedMeansToken`. A ping timer armed by a pong after the
   `restarting` frame (`ws.ts:562`) outlives such a `connect()` and pings the new socket before
   anything was received. On a unit that has come back with a token, a client without one is then
   shown as rejected, which SPEC.md:3209 rules out.
9. `CapturesSidecar.cfg`, `SidecarsNotOverwritten`. SPEC.md:1754 leaves a sidecar that exists to
   its writer; the stock `gps.py` may create it between the test (`companion.py:1627`) and
   the open, which truncates. `OldSidecarsStay` holds for those that were there before.

Met while modelling:

* A client may keep a face that is not the view's, in two ways; no document claims the
  opposite (PROTOCOL.md:134, SPEC.md:1759), and `NoFaceMissed` shows that there is no
  third. `on_ui_update` compares texts: a view that shows B for a moment and turns back to A
  pushes nothing, and a burst or reply built at B stays on the screen. And a face that waits behind
  a congested send is shown after the push that overtook it. `crossed` remembers both.
* The error reply to a malformed request is written in what is left of the headers' time
  (`ParseFails`); the comment at `companion.py:2662` has the time restored before the response.
* `docs/PROTOCOL.md:109` has `restarting` broadcast to every client; the code sends it as
  a reply to the requester.
* SPEC.md:1254 orders acknowledgment, broadcast, action; the thread of the action is
  started inside `Router.handle` (`companion.py:2165`), before any frame is sent.
* SPEC.md:2838 and 2839: no reconnection after a shutdown announcement, and `restarting`
  ends with the first `stats` of a new connection. A pong that arrives after the
  announcement arms the heartbeat (`ws.ts:562`), whose timeout reconnects; a `stats` broadcast
  still under way on the old socket ends the state (`ws.ts:742`).
* The comment at `companion.py:3252` says that evictions are not counted as
  expired handshakes; the deadline at `:3346` counts one the cap has evicted if it
  gets there first.
* A sidecar torn by a crash exists, and is never written again.
* An `on_unload` that overtakes `on_loaded` (`companion.py:4356`, SPEC.md:556) finds no
  listeners to stop, and those that are built after it stay.
* `next_rebind` is on the wall clock: one set back after a pass delays the next by the step
  (`RebindsInTime` states the bound with it).
* One interface whose addresses cannot be read takes down its own listeners while the
  others stay (documented at `companion.py:1001`).
* A mode request for the mode in effect is acknowledged and later shown as abandoned;
  two `stats` frames queued behind a stalled link abandon a command that is still under way
  (`controls.ts`, SPEC.md near 4665).
* `setChannel` keeps the later of two stamps, so a clock set back freezes the channel until
  it catches up (SPEC.md near 3712).

## Abstractions worth knowing

* `Connections`: a face is the text pair as a whole, and what `status_change` rewrites of its
  status half is not followed. What a peer was told is reduced to "something of the unit" and
  "logged in".
* `HttpConnections`: `Handler` serves one request per connection (HTTP/1.0, as the comment
  in `setup` says). `ServeEnds` allows an end of file between any two lines.
  `MaxUses` stands for the length of a line and of a response. An unreported
  closure count is written even when both counts are zero, which cannot happen.
* `GpsResolver`: no tick falls within a call: calls take microseconds, the TTL is
  ten seconds.
* `Geo`: a browser without geolocation is the initial state for good.
* `Controls`: a rejection may be delivered late, as a microtask or after other events; a
  null mode is to every test what MANUAL is; shutdown behaves like reboot and is not a
  fourth kind; the capabilities used are those of the last frame, and a frame and its
  notification are one step.
* `Binding`: `ClampInterval` has the `zero_is_default` of the source; both intervals of
  `Lifecycle` pass FALSE, and the one that passes TRUE, the keepalive's, times a ticker that has no
  clock here. A value that is no literal IPv4 address is a number too large to be one.
* `Captures`: modification times are numbered in the order of the events.

## Not modelled

* `valid_port` refuses a port and leaves out that listener: a test of one value.
* Readers of other programs' values (peers, access points, log, screen, battery) and the
  channel guard: normalisation without state that outlives a call, or a comparison of two
  stamps.
* Static files and the policy header: a function of the path and the bound set; that the
  set names what is served is `ServedIsNamed`.
* gpsd, I2C, `ip`, restart commands, TLS, HTTP parsing, WebSocket framing, bettercap and
  pwnagotchi itself are external and appear as the steps their callers can observe.
* Settings and tokens in `localStorage`: one user, no second writer.
* Views, routes, formatting; schemas and their generator; installer and certificate
  scripts; the repository's checkers and release automation (most of the
  Python lines outside the plugin): tools run by hand or by CI, without concurrency or state.

`PROJECT.json` lists each with its status and reason.

## What is left

In order of what it would add: what the parsers of `Binding` compute, against a reference
definition; the session's guards (when to rebuild) and the peer list in the stores; a
`Lifecycle` whose pass is `Listeners` itself rather than its summary; a run for the frames
that are under way when a restart is announced.
