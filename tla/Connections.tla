---------------------------- MODULE Connections ----------------------------
(***************************************************************************)
(* The WebSocket side of plugin/companion.py: the per-connection handler   *)
(* coroutine (make_connection_handler), its ConnectionState, the shared    *)
(* ClientSet, the gate and the dispatch of Router.handle, and broadcast()  *)
(* as called from pwnagotchi's hook thread and from the stats ticker.      *)
(*                                                                         *)
(* Every handler and every scheduled send runs on one asyncio loop, so the *)
(* code between two awaits is one action.  The hook thread and the ticker  *)
(* thread interleave with the loop at every step.  A payload is reduced to *)
(* its message type; only a face_status keeps the text of the view it was  *)
(* built from: the (face, status) pair on_ui_update compares, which may    *)
(* come back to what it was.                                               *)
(***************************************************************************)
EXTENDS Naturals, Sequences

CONSTANTS
  Conns,        \* WebSocket connections, each opened at most once
  Faces,        \* the texts the unit's view shows
  FirstFace,    \* the one it shows when the plugin is loaded
  NoFace,       \* no face_status yet, or a frame that is none
  TokenSet,     \* auth_required: a non-empty `token` is configured
  AuthTimeout,  \* auth_timeout, in clock ticks
  MaxNow,       \* bound: the clock stops here
  MaxFace,      \* bound: how often the unit's face changes
  MaxPush,      \* bound: pushes other than face_status, and ticker passes
  MaxStepBack,  \* bound: how often the wall clock is set back one tick
  MaxRequests,  \* bound: frames one connection sends
  Asks          \* bound: the requests the peers of this run make

\* What a peer may send. "malformed" stands for everything validate_incoming
\* refuses, "fails" for a command whose dispatch raises, "other_mode" for a
\* set_mode that differs from the mode the process runs in.
Requests == {"not_json", "malformed", "good_token", "bad_token", "read", "get_face_status",
             "fails", "same_mode", "other_mode", "set_pasv", "power"}

ASSUME ConnectionsAssumption ==
  /\ TokenSet \in BOOLEAN
  /\ AuthTimeout \in Nat /\ MaxNow \in Nat /\ MaxFace \in Nat
  /\ MaxPush \in Nat /\ MaxStepBack \in Nat /\ MaxRequests \in Nat
  /\ Asks \subseteq Requests
  /\ FirstFace \in Faces /\ NoFace \notin Faces

VARIABLES
  pc,        \* where each handler coroutine is
  live,      \* connections whose socket still carries frames
  authed,    \* ConnectionState._authenticated
  deadline,  \* ConnectionState._deadline
  admitted,  \* the handler's own `admitted` flag
  hangup,    \* the last replies carried `unauthorized`
  outq,      \* frames the handler has still to send
  asked,     \* frames received so far
  clients,   \* ClientSet._clients
  sched,     \* sends broadcast() has put on the loop
  caster,    \* the hook thread and the ticker, inside broadcast()
  pushes,    \* pushes made so far, for the bound
  face,      \* the text the view shows
  turns,     \* how often it has changed, for the bound
  lastFace,  \* Companion._last_face
  commanded, \* effects the router has started, with who asked
  unit,      \* "up", or "down" once a restart or power-off has run
  now,       \* deps.now(), the wall clock
  steppedBack,
  rcvd,      \* per connection: what the peer has been told (Told)
  screen,    \* per connection: the face the peer shows, the last to reach it
  crossed    \* history: the handler's own face crossed the last push (below)

connVars   == <<pc, authed, deadline, admitted, hangup, outq, asked>>
peerVars   == <<rcvd, screen>>
castVars   == <<caster, pushes, face, turns, lastFace>>
clockVars  == <<now, steppedBack>>
effectVars == <<commanded, unit>>
vars == <<connVars, live, clients, sched, peerVars, crossed, castVars, clockVars, effectVars>>

-----------------------------------------------------------------------------
(* Frames *)

UnitData == {"stats", "access_points", "face_status", "data", "push", "keepalive", "restarting"}
Kinds    == UnitData \cup {"acknowledgment", "error", "unauthorized"}
Texts    == Faces \cup {NoFace}
Frames   == [kind : Kinds, face : Texts]

Frame(k) == [kind |-> k, face |-> NoFace]
FaceNow  == [kind |-> "face_status", face |-> face]

IsFace(f) == f.kind = "face_status"

\* The text of the push on the hook thread, or else of the one before it.
LastPushed == IF IsFace(caster["hook"].msg) THEN caster["hook"].msg.face ELSE lastFace

\* crossed[c]: the face the handler of c has built itself is not the one the
\* last push carried, and nothing on its way will correct it - it was read from
\* the view when no push had that text, or still waits behind a congested send
\* when the push overtakes it.
Builds(c, s) ==
  crossed' = IF \E i \in DOMAIN s : IsFace(s[i])
             THEN [crossed EXCEPT ![c] = face # LastPushed] ELSE crossed
Overtakes(c, f) ==
  crossed' = IF IsFace(f)
             THEN [crossed EXCEPT ![c] = \E i \in DOMAIN outq[c] :
                                           IsFace(outq[c][i]) /\ outq[c][i].face # f.face]
             ELSE crossed

Restarting == {"other_mode", "power"}

\* The gate of Router.handle: auth_required and not authenticated.
GatedMutant(c) == TokenSet /\ authed[c]    \* mutant: the test inverted
Gated(c) == TokenSet /\ ~authed[c]

-----------------------------------------------------------------------------
(* Router *)

\* Router._dispatch: the frames that follow the acknowledgment.
Dispatch(r) ==
  CASE r = "read"            -> <<Frame("data")>>
    [] r = "get_face_status" -> <<FaceNow>>
    [] r = "fails"           -> <<Frame("error")>>
    [] r \in Restarting      -> <<Frame("restarting")>>
    [] OTHER                 -> <<>>                 \* same_mode, set_pasv

\* Router.handle, and the two replies the handler makes itself for a frame
\* that is not a JSON object. mid: the request carried a message_id.
Replies(c, r, mid) ==
  CASE r \in {"not_json", "malformed"}             -> <<Frame("error")>>
    [] r = "good_token" \/ (r = "bad_token" /\ ~TokenSet) -> <<Frame("acknowledgment")>>
    [] r = "bad_token" /\ TokenSet                 -> <<Frame("unauthorized")>>
    [] r \notin {"not_json", "malformed", "good_token", "bad_token"} /\ Gated(c)
                                                   -> <<Frame("unauthorized")>>
    [] OTHER -> IF mid THEN <<Frame("acknowledgment")>> \o Dispatch(r) ELSE Dispatch(r)

EffectsUngated(c, r) ==
  IF r \in Restarting THEN {[by |-> c, what |-> "restart"]} ELSE {}

\* The thread or event a command starts (deps.spawn, plugins.on).
Wanted(r) ==
  CASE r \in Restarting -> {"restart"}
    [] r = "set_pasv"   -> {"pasv"}
    [] OTHER            -> {}

\* What a frame starts once it has passed the gate.
Effects(c, r) ==
  {[by |-> c, what |-> w] : w \in {v \in Wanted(r) : ~Gated(c)}}

\* ConnectionState.observe: an acknowledged auth frame authenticates.
Observed(c, r, replies) ==
  \/ authed[c]
  \/ /\ r \in {"good_token", "bad_token"}
     /\ \E i \in DOMAIN replies : replies[i].kind = "acknowledgment"

\* ConnectionState.rejected
Rejected(replies) == replies # <<>> /\ replies[Len(replies)].kind = "unauthorized"

-----------------------------------------------------------------------------
(* The handler coroutine *)

\* ConnectionState.expired: only an unauthenticated connection has a deadline.
Expired(c) == ~authed[c] /\ now > deadline[c]

\* websocket.close(), or an exception leaving the loop: nothing more is sent
\* on this socket, and the `finally` is still to run.
CloseSocket(c) ==
  /\ pc' = [pc EXCEPT ![c] = "closing"]
  /\ live' = live \ {c}

\* A peer connects and the handler is entered. Without a token it is
\* authenticated from the start and goes straight into admit().
Connect(c) ==
  /\ unit = "up" /\ pc[c] = "idle"
  /\ now + AuthTimeout < MaxNow
  /\ live' = live \cup {c}
  /\ authed' = [authed EXCEPT ![c] = ~TokenSet]
  /\ deadline' = [deadline EXCEPT ![c] = now + AuthTimeout]
  /\ IF TokenSet
     THEN /\ pc' = [pc EXCEPT ![c] = "recv"]
          /\ UNCHANGED <<clients, admitted>>
     ELSE /\ pc' = [pc EXCEPT ![c] = "admit"]
          /\ clients' = clients \cup {c}
          /\ admitted' = [admitted EXCEPT ![c] = TRUE]
  /\ UNCHANGED <<hangup, outq, asked, sched, peerVars, crossed, castVars, clockVars, effectVars>>

\* Mutant of PollExpires: the deadline is only looked at on the next frame.
PollExpiresNever(c) == FALSE /\ UNCHANGED vars

\* recv() polled with AUTH_POLL_INTERVAL times out on a silent peer whose
\* deadline has passed.
PollExpires(c) ==
  /\ unit = "up" /\ pc[c] = "recv" /\ Expired(c)
  /\ CloseSocket(c)
  /\ UNCHANGED <<authed, deadline, admitted, hangup, outq, asked, clients, sched,
                 peerVars, crossed, castVars, clockVars, effectVars>>

\* A frame arrives: the deadline first, then Router.handle and observe().
Recv(c, r, mid) ==
  /\ unit = "up" /\ pc[c] = "recv" /\ c \in live
  /\ asked[c] < MaxRequests
  /\ asked' = [asked EXCEPT ![c] = @ + 1]
  /\ \/ /\ Expired(c)
        /\ CloseSocket(c)
        /\ UNCHANGED <<authed, hangup, outq, commanded, crossed>>
     \/ /\ ~Expired(c)
        /\ LET replies == Replies(c, r, mid) IN
           /\ outq' = [outq EXCEPT ![c] = replies] /\ Builds(c, replies)
           /\ hangup' = [hangup EXCEPT ![c] = Rejected(replies)]
           /\ authed' = [authed EXCEPT ![c] = Observed(c, r, replies)]
        /\ commanded' = commanded \cup Effects(c, r)
        /\ pc' = [pc EXCEPT ![c] = "send"]
        /\ UNCHANGED live
  /\ UNCHANGED <<deadline, admitted, clients, sched, peerVars, castVars, clockVars, unit>>

\* What a frame tells its peer, as far as the properties distinguish it: something
\* about the unit, or that it is logged in.
Told(f) == IF f.kind \in UnitData THEN {"data"} ELSE {f.kind} \cap {"acknowledgment"}

\* A frame reaches the peer, whose store keeps the last face_status it got.
Deliver(c, f) ==
  /\ rcvd' = [rcvd EXCEPT ![c] = @ \cup Told(f)]
  /\ screen' = [screen EXCEPT ![c] = IF IsFace(f) THEN f.face ELSE @]

\* One `await websocket.send(...)`. The loop may run anything else between
\* two of them: send() suspends while the link is congested. On a socket that
\* is gone it raises and the handler leaves its loop.
SendNext(c) ==
  /\ unit = "up" /\ pc[c] = "send" /\ outq[c] # <<>>
  /\ \/ /\ c \in live
        /\ Deliver(c, Head(outq[c]))
        /\ outq' = [outq EXCEPT ![c] = Tail(@)]
        /\ UNCHANGED <<pc, live>>
     \/ /\ c \notin live
        /\ CloseSocket(c)
        /\ UNCHANGED <<outq, peerVars>>
  /\ UNCHANGED <<crossed, authed, deadline, admitted, hangup, asked, clients, sched,
                 castVars, clockVars, effectVars>>

\* All replies (or the whole burst) are out: hang up on a rejected peer, or
\* admit a newly authenticated one, or go back to recv().
AfterReplies(c) ==
  /\ unit = "up" /\ pc[c] = "send" /\ outq[c] = <<>>
  /\ \/ /\ hangup[c]
        /\ CloseSocket(c)
        /\ UNCHANGED <<clients, admitted>>
     \/ /\ ~hangup[c] /\ authed[c] /\ ~admitted[c]
        /\ pc' = [pc EXCEPT ![c] = "admit"]
        /\ clients' = clients \cup {c}
        /\ admitted' = [admitted EXCEPT ![c] = TRUE]
        /\ UNCHANGED live
     \/ /\ ~hangup[c] /\ ~(authed[c] /\ ~admitted[c])
        /\ pc' = [pc EXCEPT ![c] = "recv"]
        /\ UNCHANGED <<live, clients, admitted>>
  /\ UNCHANGED <<authed, deadline, hangup, outq, asked, sched, peerVars, crossed,
                 castVars, clockVars, effectVars>>

\* admit() after clients.add: Router.initial_burst builds three frames, or
\* raises (Router.stats is not total), which ends the handler.
BuildBurst(c) ==
  /\ unit = "up" /\ pc[c] = "admit"
  /\ \/ /\ LET burst == <<Frame("stats"), Frame("access_points"), FaceNow>> IN
           outq' = [outq EXCEPT ![c] = burst] /\ Builds(c, burst)
        /\ pc' = [pc EXCEPT ![c] = "send"]
        /\ UNCHANGED live
     \/ /\ CloseSocket(c)
        /\ UNCHANGED <<outq, crossed>>
  /\ UNCHANGED <<authed, deadline, admitted, hangup, asked, clients, sched, peerVars,
                 castVars, clockVars, effectVars>>

\* recv() raises because the peer is gone.
RecvClosed(c) ==
  /\ unit = "up" /\ pc[c] = "recv" /\ c \notin live
  /\ CloseSocket(c)
  /\ UNCHANGED <<authed, deadline, admitted, hangup, outq, asked, clients, sched,
                 peerVars, crossed, castVars, clockVars, effectVars>>

\* Mutant of Finish: the `finally` forgets the client set.
FinishKeepsClient(c) ==
  /\ unit = "up" /\ pc[c] = "closing"
  /\ pc' = [pc EXCEPT ![c] = "done"]
  /\ UNCHANGED <<live, authed, deadline, admitted, hangup, outq, asked, clients, sched,
                 peerVars, crossed, castVars, clockVars, effectVars>>

\* The `finally`: the connection leaves the client set.
Finish(c) ==
  /\ unit = "up" /\ pc[c] = "closing"
  /\ pc' = [pc EXCEPT ![c] = "done"]
  /\ clients' = clients \ {c}
  /\ UNCHANGED <<live, authed, deadline, admitted, hangup, outq, asked, sched,
                 peerVars, crossed, castVars, clockVars, effectVars>>

\* The phone walks away.
PeerDrops(c) ==
  /\ unit = "up" /\ c \in live
  /\ live' = live \ {c}
  /\ UNCHANGED <<connVars, clients, sched, peerVars, crossed, castVars, clockVars, effectVars>>

-----------------------------------------------------------------------------
(* broadcast(), on the hook thread and on the ticker thread *)

Casters == {"hook", "ticker"}
Idle    == [at |-> "idle", msg |-> Frame("push"), to |-> {}]
Begin(b, f) ==
  caster' = [caster EXCEPT ![b] = [at |-> "snapshot", msg |-> f, to |-> {}]]

\* pwnagotchi changes the text the view shows, back to an earlier one as well
\* (outside the plugin).
ViewChanges ==
  /\ unit = "up" /\ turns < MaxFace
  /\ turns' = turns + 1
  /\ face' \in Faces \ {face}
  /\ UNCHANGED <<connVars, live, clients, sched, peerVars, crossed, caster, pushes, lastFace,
                 clockVars, effectVars>>

\* on_ui_update: build face_status, and push it unless it is the last one.
OnUiUpdate ==
  /\ unit = "up" /\ caster["hook"].at = "idle"
  /\ face # lastFace
  /\ Begin("hook", FaceNow)
  /\ crossed' = [c \in Conns |-> FALSE]
  /\ UNCHANGED <<connVars, live, clients, sched, peerVars, pushes, face, turns, lastFace,
                 clockVars, effectVars>>

\* on_handshake, on_peer_detected, on_wifi_update, on_channel_hop, the moods.
OnOtherHook ==
  /\ unit = "up" /\ caster["hook"].at = "idle"
  /\ pushes < MaxPush
  /\ pushes' = pushes + 1
  /\ Begin("hook", Frame("push"))
  /\ UNCHANGED <<connVars, live, clients, sched, peerVars, crossed, face, turns, lastFace,
                 clockVars, effectVars>>

\* _stats_ticker wakes and finds somebody connected: keepalive first.
TickerWakes ==
  /\ unit = "up" /\ caster["ticker"].at = "idle"
  /\ clients # {} /\ pushes < MaxPush
  /\ pushes' = pushes + 1
  /\ Begin("ticker", Frame("keepalive"))
  /\ UNCHANGED <<connVars, live, clients, sched, peerVars, crossed, face, turns, lastFace,
                 clockVars, effectVars>>

\* targets = self._clients.snapshot()
Snapshot(b) ==
  /\ unit = "up" /\ caster[b].at = "snapshot"
  /\ caster' = [caster EXCEPT ![b].at = "schedule", ![b].to = clients]
  /\ UNCHANGED <<connVars, live, clients, sched, peerVars, crossed, pushes, face, turns, lastFace,
                 clockVars, effectVars>>

\* run_coroutine_threadsafe(client.send(payload), loop) for one target.
Schedule(b, c) ==
  /\ unit = "up" /\ caster[b].at = "schedule" /\ c \in caster[b].to
  /\ sched' = [sched EXCEPT ![c] = Append(@, caster[b].msg)]
  /\ caster' = [caster EXCEPT ![b].to = @ \ {c}]
  /\ UNCHANGED <<connVars, live, clients, peerVars, crossed, pushes, face, turns, lastFace,
                 clockVars, effectVars>>

\* Mutant of BroadcastReturns: _last_face is read from the view again.
BroadcastReturnsRereads(b) ==
  /\ unit = "up" /\ caster[b].at = "schedule" /\ caster[b].to = {}
  /\ lastFace' = IF IsFace(caster[b].msg) THEN face ELSE lastFace
  /\ caster' = [caster EXCEPT ![b] = Idle]
  /\ UNCHANGED <<connVars, live, clients, sched, peerVars, crossed, pushes, face, turns,
                 clockVars, effectVars>>

\* broadcast() returns. on_ui_update then records the face it pushed; the
\* ticker goes on from keepalive to stats, unless building stats raises.
BroadcastReturns(b) ==
  /\ unit = "up" /\ caster[b].at = "schedule" /\ caster[b].to = {}
  /\ lastFace' = IF IsFace(caster[b].msg) THEN caster[b].msg.face ELSE lastFace
  /\ \/ /\ caster[b].msg.kind = "keepalive"
        /\ Begin(b, Frame("stats"))
     \/ caster' = [caster EXCEPT ![b] = Idle]
  /\ UNCHANGED <<connVars, live, clients, sched, peerVars, crossed, pushes, face, turns,
                 clockVars, effectVars>>

\* Mutant of LoopSends: the done-callback discards whatever the outcome.
LoopSendsDropsAll(c) ==
  /\ unit = "up" /\ sched[c] # <<>>
  /\ sched' = [sched EXCEPT ![c] = Tail(@)]
  /\ IF c \in live THEN Deliver(c, Head(sched[c])) /\ Overtakes(c, Head(sched[c]))
     ELSE UNCHANGED <<peerVars, crossed>>
  /\ clients' = clients \ {c}
  /\ UNCHANGED <<connVars, live, castVars, clockVars, effectVars>>

\* The loop runs a scheduled send; _drop_on_failure discards a dead client.
LoopSends(c) ==
  /\ unit = "up" /\ sched[c] # <<>>
  /\ sched' = [sched EXCEPT ![c] = Tail(@)]
  /\ \/ /\ c \in live
        /\ Deliver(c, Head(sched[c])) /\ Overtakes(c, Head(sched[c]))
        /\ UNCHANGED clients
     \/ /\ c \notin live
        /\ clients' = clients \ {c}
        /\ UNCHANGED <<peerVars, crossed>>
  /\ UNCHANGED <<connVars, live, castVars, clockVars, effectVars>>

-----------------------------------------------------------------------------
(* The unit and its clock *)

\* The spawned thread restarts the services, reboots or powers off.
RestartRuns ==
  /\ unit = "up"
  /\ \E e \in commanded : e.what = "restart"
  /\ unit' = "down"
  /\ UNCHANGED <<connVars, live, clients, sched, peerVars, crossed, castVars, clockVars, commanded>>

Tick ==
  /\ unit = "up" /\ now < MaxNow
  /\ now' = now + 1
  /\ UNCHANGED <<connVars, live, clients, sched, peerVars, crossed, castVars, steppedBack, effectVars>>

\* deps.now is time.time: NTP may set it back.
ClockStepsBack ==
  /\ unit = "up" /\ now > 0 /\ steppedBack < MaxStepBack
  /\ now' = now - 1
  /\ steppedBack' = steppedBack + 1
  /\ UNCHANGED <<connVars, live, clients, sched, peerVars, crossed, castVars, effectVars>>

-----------------------------------------------------------------------------
Init ==
  /\ pc = [c \in Conns |-> "idle"]
  /\ live = {}
  /\ authed = [c \in Conns |-> FALSE]
  /\ deadline = [c \in Conns |-> 0]
  /\ admitted = [c \in Conns |-> FALSE]
  /\ hangup = [c \in Conns |-> FALSE]
  /\ outq = [c \in Conns |-> <<>>]
  /\ asked = [c \in Conns |-> 0]
  /\ clients = {}
  /\ sched = [c \in Conns |-> <<>>]
  /\ caster = [b \in Casters |-> Idle]
  /\ pushes = 0
  /\ face = FirstFace /\ turns = 0 /\ lastFace = NoFace
  /\ commanded = {} /\ unit = "up"
  /\ now = 0 /\ steppedBack = 0
  /\ rcvd = [c \in Conns |-> {}]
  /\ screen = [c \in Conns |-> NoFace]
  /\ crossed = [c \in Conns |-> FALSE]

Coroutine(c) ==
  \/ PollExpires(c) \/ SendNext(c) \/ AfterReplies(c)
  \/ BuildBurst(c) \/ RecvClosed(c) \/ Finish(c)
Handler(c) == Coroutine(c) \/ LoopSends(c)

Peer(c) ==
  \/ Connect(c)
  \/ PeerDrops(c)
  \/ \E r \in Asks, mid \in BOOLEAN : Recv(c, r, mid)

Cast(b) ==
  \/ Snapshot(b)
  \/ BroadcastReturns(b)
  \/ \E c \in Conns : Schedule(b, c)

Next ==
  \/ \E c \in Conns : Handler(c) \/ Peer(c)
  \/ \E b \in Casters : Cast(b)
  \/ ViewChanges \/ OnUiUpdate \/ OnOtherHook \/ TickerWakes
  \/ RestartRuns \/ Tick \/ ClockStepsBack

Spec == Init /\ [][Next]_vars

\* The asyncio loop runs every ready callback and the clock advances. Peers,
\* pwnagotchi's threads, the view and the restart owe nothing.
Fairness ==
  /\ WF_vars(Tick)
  /\ \A c \in Conns : WF_vars(Coroutine(c)) /\ WF_vars(LoopSends(c))

FairSpec == Spec /\ Fairness

-----------------------------------------------------------------------------
(* Properties *)

PcStates == {"idle", "recv", "send", "admit", "closing", "done"}

\* The variables have the shapes the code gives them.
TypeOK ==
  /\ pc \in [Conns -> PcStates]
  /\ live \subseteq Conns
  /\ authed \in [Conns -> BOOLEAN]
  /\ deadline \in [Conns -> Nat]
  /\ admitted \in [Conns -> BOOLEAN]
  /\ hangup \in [Conns -> BOOLEAN]
  /\ outq \in [Conns -> Seq(Frames)]
  /\ asked \in [Conns -> Nat]
  /\ clients \subseteq Conns
  /\ sched \in [Conns -> Seq(Frames)]
  /\ caster \in [Casters -> [at : {"idle", "snapshot", "schedule"}, msg : Frames,
                             to : SUBSET Conns]]
  /\ pushes \in Nat /\ face \in Faces /\ turns \in Nat /\ lastFace \in Texts
  /\ commanded \subseteq [by : Conns, what : {"restart", "pasv"}]
  /\ unit \in {"up", "down"}
  /\ now \in Nat /\ steppedBack \in Nat
  /\ rcvd \in [Conns -> SUBSET {"data", "acknowledgment"}]
  /\ screen \in [Conns -> Texts]
  /\ crossed \in [Conns -> BOOLEAN]

\* Nothing that describes the unit - burst, reply or push - reaches a peer
\* that has not authenticated, through any of the three channels; nor, with a
\* token, one that has not been sent the acknowledgment of its auth frame, the
\* client's only sign that it is logged in (PROTOCOL.md).
NoDataBeforeAuth ==
  \A c \in Conns :
    "data" \in rcvd[c] => authed[c] /\ (TokenSet => "acknowledgment" \in rcvd[c])

\* No restart, power-off or passive-mode switch was started for a peer that
\* had not authenticated.
EffectsNeedAuth ==
  \A e \in commanded : authed[e.by]

\* The client set is exact, although two threads and the loop add and discard:
\* a handler that has finished has left nothing in it, whatever broadcasts were
\* in flight while it was closing, and a client whose socket works is in it.
ClientSetExact ==
  /\ \A c \in clients : pc[c] \notin {"idle", "done"} /\ authed[c]
  /\ \A c \in live : admitted[c] /\ pc[c] # "done" => c \in clients

\* Joining the client set before building the burst loses no face: once nothing
\* is in flight and the view shows what was pushed last, an admitted client shows
\* it too, unless the last face its own handler built crossed that push. Those
\* crossings are real, and the only way to keep a stale face: on_ui_update
\* compares texts, so a burst or reply built while the view shows another text
\* for a moment is not corrected when it turns back, and a face a push overtakes
\* on a congested link is shown after it.
Quiet(c) == pc[c] = "recv" /\ sched[c] = <<>> /\ caster["hook"].at = "idle"
NoFaceMissed ==
  \A c \in live : admitted[c] /\ Quiet(c) /\ lastFace = face => screen[c] = face \/ crossed[c]

\* A connection that does not authenticate is closed, silent or chatty.
UnauthenticatedCloses ==
  \A c \in Conns :
    (pc[c] = "recv" /\ ~authed[c]) ~> (authed[c] \/ pc[c] = "done" \/ unit = "down")

\* A connection that is gone leaves the client set, even when nothing is ever
\* broadcast to it.
DeadClientsLeave ==
  \A c \in Conns :
    (c \in clients /\ c \notin live) ~> (c \notin clients \/ unit = "down")
=============================================================================
