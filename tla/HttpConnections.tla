-------------------------- MODULE HttpConnections --------------------------
(***************************************************************************)
(* The HTTPS listener of one bound address: the Server class that          *)
(* Listeners._serve_http builds, and Listeners._shutdown_http that stops   *)
(* it.  The serve_forever thread accepts, registers and evicts; one thread *)
(* per connection shakes hands, serves and tears down; the thread that     *)
(* unloads the plugin drains.  They share the handshake registry           *)
(* (_pending), the live registry (_live_order), the record of sockets the  *)
(* listener closed itself (_evicted) and the closure counters, and take    *)
(* _pending_lock for one short section at a time: a section is an action.  *)
(* A connection carries one request (HTTP/1.0): the Handler reads its      *)
(* lines against a deadline of their own and then writes the response.     *)
(*                                                                         *)
(* The order of a dict is a relation: <<a, b>> says a comes before b.      *)
(***************************************************************************)
EXTENDS Naturals, FiniteSets

CONSTANTS
  Conns,              \* the sockets peers open, each accepted at most once
  MaxPending,         \* MAX_PENDING_HANDSHAKES
  MaxLive,            \* MAX_HTTP_CONNECTIONS
  HandshakeDeadline,  \* HANDSHAKE_DEADLINE, in ticks of the monotonic clock
  RequestDeadline,    \* HTTP_REQUEST_DEADLINE
  ReportInterval,     \* EXPIRY_REPORT_INTERVAL
  MaxNow,             \* bound: the clock stops here, once no thread waits
  Overtime,           \* bound: FALSE if it stops even though a thread waits
  MaxUses             \* bound: lines or parts of lines received, and writes

ASSUME HttpAssumption ==
  /\ MaxPending \in Nat \ {0} /\ MaxLive \in Nat \ {0}
  /\ HandshakeDeadline \in Nat /\ RequestDeadline \in Nat /\ ReportInterval \in Nat
  /\ MaxNow \in Nat /\ Overtime \in BOOLEAN /\ MaxUses \in Nat

VARIABLES
  phase,      \* where each connection's handler thread is
  open,       \* sockets nobody has closed
  deadline,   \* when the handshake expires; then when the headers are due
  allowance,  \* the timeout the Handler has set on the connection
  since,      \* when the recv or send the Handler blocks in began, else 0
  partial,    \* connections that sent part of the line being read
  begun,      \* connections whose request line has arrived whole
  pending,    \* keys of _pending
  arrived,    \* the order of _pending
  live,       \* keys of _live_order
  recency,    \* the order of _live_order, least recently used first
  evicted,    \* _evicted
  expired,    \* _expiry_count
  closures,   \* _live_evict_count
  window,     \* _report_window: {} when None, {t} otherwise
  server,     \* the accept loop: its step, the newcomer, the victims
  owner,      \* the thread in _shutdown_http
  drained,    \* the sockets its drain has taken out of _pending
  now,        \* time.monotonic()
  uses,       \* receptions and writes so far, for the bound
  cause,      \* history: what the connection's thread has met
  logged,     \* history: the causes a line has been written about
  lastActive, \* history: the connection accepted, read or written last
  lastReport  \* history: when the last unforced report was written

registries == <<pending, arrived, live, recency, evicted>>
counters   == <<expired, closures, window, lastReport>>
history    == <<cause, logged>>
waits      == <<allowance, since, partial, begun>>
activity   == <<uses, lastActive, waits>>
unload     == <<owner, drained>>
vars == <<phase, open, deadline, registries, counters, server, unload, now, activity, history>>

-----------------------------------------------------------------------------
(* Ordered dictionaries *)

\* d[c] = None for a new key, or move_to_end(c): c comes after every key.
ToEnd(order, keys, c) ==
  {p \in order : p[1] \in keys \ {c} /\ p[2] \in keys \ {c}} \cup ((keys \ {c}) \X {c})

\* next(iter(d)), as a set: empty when d is.
First(order, keys) == {a \in keys : \A b \in keys \ {a} : <<a, b>> \in order}

\* Mutants of Marked: the listener forgets which sockets it closes; the
\* list of sockets is added instead of its members.
MarkedNot(s) == evicted
\* _evicted.update(s): these sockets are being closed by the listener itself.
Marked(s) == evicted \cup s

-----------------------------------------------------------------------------
(* The closure report *)

\* Mutant of Due: the rate limit forgotten.
DueAlways(force) == window # {}

\* The window has been open long enough, or the caller forces the line.
Due(force) == \E t \in window : force \/ now - t >= ReportInterval

\* _flush_closure_report: write one line and start over.
Flush(force) ==
  IF Due(force)
  THEN /\ expired' = 0 /\ closures' = 0 /\ window' = {}
       /\ lastReport' = IF force THEN lastReport ELSE {now}
  ELSE UNCHANGED counters

\* The window opens with the first closure counted since the last report.
OpenWindow == window' = IF window = {} THEN {now} ELSE window

-----------------------------------------------------------------------------
(* The accept loop *)

NoVictims == [at |-> "poll", new |-> {}, victims |-> {}]

\* serve_forever finds a connection waiting; get_request first flushes a
\* report that is due.
Poll ==
  /\ server.at = "poll" /\ owner = "up"
  /\ \E c \in Conns : phase[c] = "idle"
  /\ Flush(FALSE)
  /\ server' = [server EXCEPT !.at = "accepting"]
  /\ UNCHANGED <<phase, open, deadline, registries, unload, now, activity, history>>

\* wrap_socket refuses the socket: closed before anything is registered.
WrapFails(c) ==
  /\ server.at = "accepting" /\ phase[c] = "idle"
  /\ phase' = [phase EXCEPT ![c] = "done"]
  /\ server' = NoVictims
  /\ UNCHANGED <<open, deadline, registries, counters, unload, now, activity, history>>

\* Past the cap the first key goes.
Victims(keys, order, cap) ==
  IF Cardinality(keys) > cap THEN First(order, keys) ELSE {}

\* get_request under _pending_lock: the newcomer joins both registries, and
\* each cap makes room at its own end.
Register(c) ==
  /\ server.at = "accepting" /\ phase[c] = "idle"
  /\ phase' = [phase EXCEPT ![c] = "accepted"]
  /\ open' = open \cup {c}
  /\ lastActive' = {c}
  /\ arrived' = ToEnd(arrived, pending, c)
  /\ recency' = ToEnd(recency, live, c)
  /\ LET handshakes == Victims(pending \cup {c}, arrived', MaxPending)
         rest       == (live \cup {c}) \ handshakes
         idlest     == Victims(rest, recency', MaxLive)
     IN /\ pending' = ((pending \cup {c}) \ handshakes) \ idlest
        /\ live' = rest \ idlest
        /\ evicted' = Marked(handshakes \cup idlest)
        /\ server' = [at |-> IF idlest = {} THEN "close" ELSE "count",
                      new |-> {c}, victims |-> handshakes \cup idlest]
  /\ UNCHANGED <<deadline, counters, unload, now, uses, waits, history>>

\* _report_live_eviction: count under the lock, then flush under it again.
CountClosure ==
  /\ server.at = "count"
  /\ closures' = closures + 1 /\ OpenWindow
  /\ server' = [server EXCEPT !.at = "report"]
  /\ UNCHANGED <<phase, open, deadline, registries, expired, lastReport, unload, now,
                 activity, history>>

ReportClosure ==
  /\ server.at = "report"
  /\ Flush(FALSE)
  /\ server' = [server EXCEPT !.at = "close"]
  /\ UNCHANGED <<phase, open, deadline, registries, unload, now, activity, history>>

\* Mutant of CloseVictims: the victims are only forgotten.
CloseVictimsForgets ==
  /\ server.at = "close"
  /\ server' = [server EXCEPT !.at = "spawn", !.victims = {}]
  /\ UNCHANGED <<phase, open, deadline, registries, counters, unload, now, activity, history>>

\* _close_pending_socket on every victim, outside the lock.
CloseVictims ==
  /\ server.at = "close"
  /\ open' = open \ server.victims
  /\ server' = [server EXCEPT !.at = "spawn", !.victims = {}]
  /\ UNCHANGED <<phase, deadline, registries, counters, unload, now, activity, history>>

\* process_request starts the handler thread, or cannot: then the accept
\* loop itself runs handle_error and shutdown_request for the newcomer.
Spawn(c) ==
  /\ server.at = "spawn" /\ c \in server.new
  /\ \/ /\ phase' = [phase EXCEPT ![c] = "spawned"]
        /\ server' = NoVictims
        /\ UNCHANGED cause
     \/ /\ phase' = [phase EXCEPT ![c] = "errored"]
        /\ cause' = [cause EXCEPT ![c] = "thread"]
        /\ server' = [server EXCEPT !.at = "cleanup"]
  /\ UNCHANGED <<open, deadline, registries, counters, unload, now, activity, logged>>

CleanupDone(c) ==
  /\ server.at = "cleanup" /\ c \in server.new /\ phase[c] = "done"
  /\ server' = NoVictims
  /\ UNCHANGED <<phase, open, deadline, registries, counters, unload, now, activity, history>>

-----------------------------------------------------------------------------
(* A handler thread *)

\* finish_request: the clock starts when the thread does, not at accept.
EnterHandshake(c) ==
  /\ phase[c] = "spawned"
  /\ phase' = [phase EXCEPT ![c] = "handshake"]
  /\ deadline' = [deadline EXCEPT ![c] = now + HandshakeDeadline]
  /\ UNCHANGED <<open, registries, counters, server, unload, now, activity, history>>

Late(c) == now >= deadline[c]

\* do_handshake returns. It may even do so on a socket closed at that moment.
HandshakeSucceeds(c) ==
  /\ phase[c] = "handshake"
  /\ phase' = [phase EXCEPT ![c] = "shaken"]
  /\ UNCHANGED <<open, deadline, registries, counters, server, unload, now, activity, history>>

\* settimeout or do_handshake raises: the socket was closed under it, the
\* time is up, or the peer is at fault.
HandshakeRaises(c) ==
  /\ phase[c] = "handshake"
  /\ phase' = [phase EXCEPT ![c] = "broken"]
  /\ cause' = [cause EXCEPT ![c] = IF c \notin open \/ Late(c) THEN "listener" ELSE "peer"]
  /\ UNCHANGED <<open, deadline, registries, counters, server, unload, now, activity, logged>>

\* The except clause looks at the clock: past the deadline it is an expiry.
JudgeFailure(c) ==
  /\ phase[c] = "broken"
  /\ \/ /\ Late(c)
        /\ phase' = [phase EXCEPT ![c] = "expiring"]
        /\ evicted' = Marked({c})
     \/ /\ ~Late(c)
        /\ phase' = [phase EXCEPT ![c] = "failed"]
        /\ UNCHANGED evicted
  /\ UNCHANGED <<open, deadline, pending, arrived, live, recency, counters, server, unload,
                 now, activity, history>>

\* _report_expiry: count, then flush.
CountExpiry(c) ==
  /\ phase[c] = "expiring"
  /\ phase' = [phase EXCEPT ![c] = "counted"]
  /\ expired' = expired + 1 /\ OpenWindow
  /\ UNCHANGED <<open, deadline, registries, closures, lastReport, server, unload, now,
                 activity, cause, logged>>

ReportExpiry(c) ==
  /\ phase[c] = "counted"
  /\ Flush(FALSE)
  /\ phase' = [phase EXCEPT ![c] = "failed"]
  /\ UNCHANGED <<open, deadline, registries, server, unload, now, activity, history>>

\* Mutant of HandshakeDone: finish_request raises nothing for a connection
\* the listener closed, so its thread ends without shutdown_request.
HandshakeDoneSwallows(c) ==
  /\ phase[c] \in {"shaken", "failed"}
  /\ pending' = pending \ {c}
  /\ phase' = [phase EXCEPT ![c] = CASE c \in evicted      -> "swallowed"
                                     [] c \notin evicted /\ phase[c] = "shaken" -> "setup"
                                     [] c \notin evicted /\ phase[c] = "failed" -> "errored"]
  /\ UNCHANGED <<open, deadline, arrived, live, recency, evicted, counters, server, unload,
                 now, activity, history>>

\* _handshake_done after the handshake: the slot is free, and a connection
\* the listener closed is neither served nor reported.
HandshakeDone(c) ==
  /\ phase[c] \in {"shaken", "failed"}
  /\ pending' = pending \ {c}
  /\ phase' = [phase EXCEPT ![c] = CASE c \in evicted      -> "teardown"
                                     [] c \notin evicted /\ phase[c] = "shaken" -> "setup"
                                     [] c \notin evicted /\ phase[c] = "failed" -> "errored"]
  /\ UNCHANGED <<open, deadline, arrived, live, recency, evicted, counters, server, unload,
                 now, activity, history>>

\* Mutant of MarkUsed: a use does not move the connection.
MarkUsedNot(c) == recency

MarkUsed(c) == IF c \in live THEN ToEnd(recency, live, c) ELSE recency

Touch(c) == recency' = MarkUsed(c) /\ lastActive' = {c} \cap live

\* Handler.setup: the time for the headers runs from here, whenever their
\* lines are read.
Setup(c) ==
  /\ phase[c] = "setup"
  /\ phase' = [phase EXCEPT ![c] = "headers"]
  /\ deadline' = [deadline EXCEPT ![c] = now + RequestDeadline]
  /\ allowance' = [allowance EXCEPT ![c] = RequestDeadline]
  /\ UNCHANGED <<open, registries, counters, server, unload, now, uses, lastActive, since,
                 partial, begun, history>>

\* _DeadlineReader._tick: a use, and either the time is up or the read that
\* follows may take what is left of it.
StartRead(c) ==
  /\ phase[c] = "headers"
  /\ Touch(c)
  /\ \/ /\ Late(c)
        /\ phase' = [phase EXCEPT ![c] = "timedout"]
        /\ cause' = [cause EXCEPT ![c] = "deadline"]
        /\ UNCHANGED <<allowance, since>>
     \/ /\ ~Late(c)
        /\ phase' = [phase EXCEPT ![c] = "reading"]
        /\ allowance' = [allowance EXCEPT ![c] = deadline[c] - now]
        /\ since' = [since EXCEPT ![c] = now]
        /\ UNCHANGED cause
  /\ UNCHANGED <<open, deadline, pending, arrived, live, evicted, counters, server, unload,
                 now, uses, partial, begun, logged>>

\* The call the Handler was blocked in is over.
Returned(c) == since' = [since EXCEPT ![c] = 0] /\ partial' = partial \ {c}

\* readline() takes what the peer sends until there is a whole line, each
\* recv with the timeout the read began with.
PartArrives(c) ==
  /\ phase[c] = "reading" /\ uses < MaxUses
  /\ partial' = partial \cup {c}
  /\ since' = [since EXCEPT ![c] = now]
  /\ uses' = uses + 1
  /\ UNCHANGED <<phase, open, deadline, registries, counters, server, unload, now, lastActive,
                 allowance, begun, history>>

LineArrives(c) ==
  /\ phase[c] = "reading" /\ uses < MaxUses
  /\ phase' = [phase EXCEPT ![c] = "headers"]
  /\ begun' = begun \cup {c}
  /\ uses' = uses + 1
  /\ Returned(c)
  /\ UNCHANGED <<open, deadline, registries, counters, server, unload, now, lastActive, allowance,
                 history>>

\* A close of the listener's own ends the request line where it stands.
CutShort(c) == c \in partial /\ c \notin begun /\ c \notin open

\* The last line, or what an end of file makes of it: parse_request returns
\* and gives the response the whole time.
HeadersEnd(c) ==
  /\ phase[c] = "reading" /\ c \in begun \cup partial
  /\ phase' = [phase EXCEPT ![c] = "responding"]
  /\ allowance' = [allowance EXCEPT ![c] = RequestDeadline]
  /\ since' = [since EXCEPT ![c] = now]
  /\ partial' = partial \ {c}
  /\ cause' = [cause EXCEPT ![c] = IF CutShort(c) THEN "cut" ELSE @]
  /\ UNCHANGED <<open, deadline, registries, counters, server, unload, now, uses,
                 lastActive, begun, logged>>

\* parse_request fails: a line it refuses, or what an end of file left of the
\* request line.  send_error writes its line and then the reply, in what is
\* left of the time for the headers: the whole time is back only afterwards.
ParseFails(c) ==
  /\ phase[c] = "reading"
  /\ \E why \in {"peer", "cut"} :
       /\ why = "cut" => CutShort(c)
       /\ cause' = [cause EXCEPT ![c] = why] /\ logged' = logged \cup {why}
  /\ phase' = [phase EXCEPT ![c] = "responding"]
  /\ since' = [since EXCEPT ![c] = now]
  /\ partial' = partial \ {c}
  /\ UNCHANGED <<open, deadline, registries, counters, server, unload, now, uses,
                 lastActive, allowance, begun>>

\* The request is well formed but asks for what there is not: a line as well,
\* even if it is the rest of the path that was cut off.
RefuseRequest(c) ==
  /\ phase[c] = "responding"
  /\ logged' = logged \cup {IF cause[c] = "cut" THEN "cut" ELSE "peer"}
  /\ UNCHANGED <<phase, open, deadline, registries, counters, server, unload, now, activity,
                 cause>>

\* _ActivityWriter.write: a use, and a send that may take the timeout.
Write(c) ==
  /\ phase[c] = "responding" /\ uses < MaxUses
  /\ Touch(c)
  /\ since' = [since EXCEPT ![c] = now]
  /\ uses' = uses + 1
  /\ UNCHANGED <<phase, open, deadline, pending, arrived, live, evicted, counters, server,
                 unload, now, allowance, partial, begun, history>>

Expired(c) == phase[c] \in {"reading", "responding"} /\ now - since[c] >= allowance[c]

\* A recv or send times out; in a read, the clock says on whose account.
TimesOut(c) ==
  /\ Expired(c)
  /\ cause' = [cause EXCEPT ![c] = IF phase[c] = "reading" /\ Late(c) THEN "deadline" ELSE "peer"]
  /\ phase' = [phase EXCEPT ![c] = "timedout"]
  /\ Returned(c)
  /\ UNCHANGED <<open, deadline, registries, counters, server, unload, now, uses,
                 lastActive, allowance, begun, logged>>

\* handle_one_request hands the timeout to log_error, which is silent about
\* the request deadline.
LogError(c) ==
  /\ phase[c] = "timedout"
  /\ logged' = IF cause[c] = "deadline" THEN logged ELSE logged \cup {cause[c]}
  /\ phase' = [phase EXCEPT ![c] = "teardown"]
  /\ UNCHANGED <<open, deadline, registries, counters, server, unload, now, activity,
                 cause>>

\* The response is sent, or there is no request: nothing came, or a blank line.
ServeEnds(c) ==
  /\ phase[c] = "responding" \/ (phase[c] = "reading" /\ c \notin begun)
  /\ phase' = [phase EXCEPT ![c] = "teardown"]
  /\ Returned(c)
  /\ UNCHANGED <<open, deadline, registries, counters, server, unload, now, uses,
                 lastActive, allowance, begun, history>>

\* The phases of the Handler, up to what it makes of a timeout.
Serving == {"setup", "headers", "reading", "responding"}

\* The Handler raises, on a socket the listener closed or through the peer.
ServeRaises(c) ==
  /\ phase[c] \in Serving
  /\ phase' = [phase EXCEPT ![c] = "errored"]
  /\ cause' = [cause EXCEPT ![c] = IF c \in open THEN "peer" ELSE "listener"]
  /\ Returned(c)
  /\ UNCHANGED <<open, deadline, registries, counters, server, unload, now, uses,
                 lastActive, allowance, begun, logged>>

\* handle_error: silent about a close of the listener's own doing.
HandleError(c) ==
  /\ phase[c] = "errored"
  /\ logged' = IF c \in evicted THEN logged ELSE logged \cup {cause[c]}
  /\ phase' = [phase EXCEPT ![c] = "teardown"]
  /\ UNCHANGED <<open, deadline, registries, counters, server, unload, now, activity,
                 cause>>

\* shutdown_request: _handshake_done, then the second locked section, then
\* the socket. The Handler is gone, and its times with it.
ReleaseSlot(c) ==
  /\ phase[c] = "teardown"
  /\ pending' = pending \ {c}
  /\ phase' = [phase EXCEPT ![c] = "released"]
  /\ deadline' = [deadline EXCEPT ![c] = 0] /\ allowance' = [allowance EXCEPT ![c] = 0]
  /\ begun' = begun \ {c}
  /\ UNCHANGED <<open, arrived, live, recency, evicted, counters, server, unload, now,
                 uses, lastActive, since, partial, history>>

Forget(c) ==
  /\ phase[c] = "released"
  /\ live' = live \ {c} /\ evicted' = evicted \ {c}
  /\ lastActive' = lastActive \ {c}
  /\ phase' = [phase EXCEPT ![c] = "closing"]
  /\ UNCHANGED <<open, deadline, pending, arrived, recency, counters, server, unload, now,
                 uses, waits, history>>

CloseOwn(c) ==
  /\ phase[c] = "closing"
  /\ open' = open \ {c}
  /\ phase' = [phase EXCEPT ![c] = "done"]
  /\ UNCHANGED <<deadline, registries, counters, server, unload, now, activity, history>>

-----------------------------------------------------------------------------
(* Listeners._shutdown_http *)

\* server.shutdown() raises the flag and waits for the accept loop.
AskShutdown ==
  /\ owner = "up"
  /\ owner' = "asked"
  /\ UNCHANGED <<phase, open, deadline, registries, counters, server, drained, now,
                 activity, history>>

LoopExits ==
  /\ owner = "asked" /\ server.at = "poll"
  /\ server' = [server EXCEPT !.at = "exited"]
  /\ UNCHANGED <<phase, open, deadline, registries, counters, unload, now, activity, history>>

\* Mutant of LoopGone: the drain does not wait for the loop.
LoopGoneUnchecked == TRUE

LoopGone == server.at = "exited"

\* The drain, under the lock: every unfinished handshake is the listener's.
Drain ==
  /\ owner = "asked" /\ LoopGone
  /\ drained' = pending /\ pending' = {}
  /\ evicted' = Marked(pending)
  /\ owner' = "drained"
  /\ UNCHANGED <<phase, open, deadline, arrived, live, recency, counters, server, now,
                 activity, history>>

CloseDrained ==
  /\ owner = "drained"
  /\ open' = open \ drained /\ drained' = {}
  /\ owner' = "closed"
  /\ UNCHANGED <<phase, deadline, registries, counters, server, now, activity, history>>

\* flush(force=True), then server_close() and stop() goes on.
FinalReport ==
  /\ owner = "closed"
  /\ Flush(TRUE)
  /\ owner' = "stopped"
  /\ UNCHANGED <<phase, open, deadline, registries, server, drained, now, activity, history>>

-----------------------------------------------------------------------------
\* A thread that will be woken by the clock, if by nothing else.
Waiting(c) ==
  \/ phase[c] = "handshake" /\ ~Late(c)
  \/ phase[c] \in {"reading", "responding"} /\ ~Expired(c)

\* time.monotonic() never goes back. Past the bound it runs only as far as a
\* waiting thread needs.
Tick ==
  /\ now < MaxNow \/ (Overtime /\ \E c \in Conns : Waiting(c))
  /\ now' = now + 1
  /\ UNCHANGED <<phase, open, deadline, registries, counters, server, unload, activity, history>>

Init ==
  /\ phase = [c \in Conns |-> "idle"]
  /\ open = {} /\ deadline = [c \in Conns |-> 0]
  /\ allowance = [c \in Conns |-> 0] /\ since = [c \in Conns |-> 0]
  /\ partial = {} /\ begun = {}
  /\ pending = {} /\ arrived = {} /\ live = {} /\ recency = {} /\ evicted = {}
  /\ expired = 0 /\ closures = 0 /\ window = {} /\ lastReport = {}
  /\ server = NoVictims /\ owner = "up" /\ drained = {}
  /\ now = 0 /\ uses = 0 /\ lastActive = {}
  /\ cause = [c \in Conns |-> "none"]
  /\ logged = {}

Handler(c) ==
  \/ EnterHandshake(c) \/ HandshakeRaises(c) \/ JudgeFailure(c) \/ CountExpiry(c)
  \/ ReportExpiry(c) \/ HandshakeDone(c) \/ Setup(c) \/ StartRead(c) \/ TimesOut(c)
  \/ LogError(c) \/ HandleError(c) \/ ReleaseSlot(c) \/ Forget(c) \/ CloseOwn(c)

Peer(c) ==
  \/ HandshakeSucceeds(c) \/ PartArrives(c) \/ LineArrives(c) \/ HeadersEnd(c) \/ ParseFails(c)
  \/ RefuseRequest(c) \/ Write(c) \/ ServeEnds(c) \/ ServeRaises(c)

AcceptLoop ==
  \/ \E c \in Conns : Register(c) \/ WrapFails(c) \/ Spawn(c) \/ CleanupDone(c)
  \/ CountClosure \/ ReportClosure \/ CloseVictims \/ LoopExits

Owner == Drain \/ CloseDrained \/ FinalReport

Next ==
  \/ \E c \in Conns : Handler(c) \/ Peer(c)
  \/ Poll \/ AcceptLoop \/ AskShutdown \/ Owner \/ Tick

Spec == Init /\ [][Next]_vars

\* Runnable threads run, blocking calls end when their time is up, and the
\* clock advances. The peer, and a handshake that still has time, owe nothing.
Fairness ==
  /\ WF_vars(Tick) /\ WF_vars(AcceptLoop) /\ WF_vars(Owner)
  /\ \A c \in Conns :
       WF_vars(Handler(c) /\ (phase[c] = "handshake" => Late(c) \/ c \notin open))

FairSpec == Spec /\ Fairness

-----------------------------------------------------------------------------
(* Properties *)

\* What peers can hold is bounded, whatever they do: neither registry outgrows
\* its cap, a handshake also counts as a live connection, and an open socket is
\* registered or one that a running step is about to close.
Bounded ==
  /\ Cardinality(pending) <= MaxPending /\ Cardinality(live) <= MaxLive
  /\ pending \subseteq live
  /\ \A c \in open : \/ c \in live \cup server.victims \cup drained
                     \/ phase[c] \in {"released", "closing"}

\* SPEC.md 2.15.2, "the eviction wins": a thread that trips over a close made
\* by the listener, or over the request deadline, never writes a line about it,
\* unless the close cut its request line short (EvictionsLogNothing).
OwnClosesAreSilent == logged \cap {"listener", "deadline"} = {}

\* What SPEC.md says without the exception: the handler of a connection this
\* listener closed logs nothing. A request line cut short by the close is
\* refused, or asks for a path that is not there, and log_error lets both by.
\* False of the code: HttpConnectionsCut.cfg finds the behavior.
EvictionsLogNothing == logged \cap {"listener", "deadline", "cut"} = {}

\* A connection that is being served and was the last to be accepted, read or
\* written is not the one a newcomer displaces.
LastUsedSurvives ==
  [][\A c \in Conns : c \in live /\ c \notin live' /\ phase[c] \in Serving /\ phase'[c] \in Serving
       => c \notin lastActive]_vars

\* The comment of _DeadlineReader and SPEC.md: a trickle runs the deadline down
\* like silence does, so no recv of a request may take until after it. Within
\* one readline every recv has the timeout that the read began with.
\* False of the code: HttpConnectionsTrickle.cfg finds the behavior.
HeadersHaveOneDeadline ==
  \A c \in Conns : phase[c] = "reading" => since[c] + allowance[c] <= deadline[c]

\* However many closures, a report is a whole interval after the one before;
\* only the last one, in stop(), is exempt (SPEC.md 2.15.2).
RateLimited ==
  [][window # {} /\ window' = {} /\ owner' = owner
       => \A t \in lastReport : now - t >= ReportInterval]_vars

\* Once stop() is through, no handler is left waiting in a handshake on an
\* open socket: every such socket was in the registry the drain emptied.
StopEndsHandshakes ==
  owner \in {"closed", "stopped"} =>
    \A c \in open : phase[c] \notin {"accepted", "spawned", "handshake"}

\* Whatever its peer does, every connection that was accepted comes to its
\* end, and with it (by Bounded) its place in either registry is free.
ConnectionsEnd == \A c \in Conns : phase[c] = "accepted" ~> phase[c] = "done"
=============================================================================
