------------------------- MODULE ConnectionsProofs -------------------------
(***************************************************************************)
(* Safety of the WebSocket handler for any set of connections, any bounds  *)
(* and either setting of the token.  The invariant turns on one flag: a    *)
(* connection the handler has admitted is authenticated and has its        *)
(* acknowledgment, and every channel that can carry unit data - the client *)
(* set, a caster's targets, the scheduled sends, the handler's own queue - *)
(* leads to admitted connections only.                                     *)
(* On it rests the second argument, that no face is missed: what a client  *)
(* has not been shown is in its burst or on its way.                       *)
(***************************************************************************)
EXTENDS Connections, TLAPS

HasUnitData(s) == \E i \in 1 .. Len(s) : s[i].kind \in UnitData

\* What holds of a connection before its handler has run, after a handler
\* without a token has, and between authentication and admission.
Stages(c) ==
  /\ pc[c] = "idle" => ~authed[c] /\ ~admitted[c]
  /\ pc[c] # "idle" /\ ~TokenSet => admitted[c]
  /\ pc[c] = "admit" => admitted[c]
  /\ pc[c] = "recv" /\ authed[c] => admitted[c]
  /\ pc[c] = "send" /\ authed[c] /\ ~admitted[c] =>
       \/ outq[c] = <<Frame("acknowledgment")>>
       \/ outq[c] = <<>> /\ "acknowledgment" \in rcvd[c]

\* What admission stands for.
Admission(c) ==
  admitted[c] => authed[c] /\ (TokenSet => "acknowledgment" \in rcvd[c])

\* Every channel to a peer leads to admitted connections only.
Channels(c) ==
  /\ c \in clients => admitted[c]
  /\ \A b \in Casters : c \in caster[b].to => admitted[c]
  /\ sched[c] # <<>> => admitted[c]
  /\ HasUnitData(outq[c]) => admitted[c]
  /\ "data" \in rcvd[c] => admitted[c]

\* The client set against the handlers and their sockets.
Membership(c) ==
  /\ c \in clients => pc[c] \notin {"idle", "done"}
  /\ c \in live /\ admitted[c] /\ pc[c] # "done" => c \in clients

Sound(c) == Stages(c) /\ Admission(c) /\ Channels(c) /\ Membership(c)

IInv ==
  /\ TypeOK
  /\ \A c \in Conns : Sound(c)
  /\ EffectsNeedAuth

-----------------------------------------------------------------------------
(* Frames and replies *)

LEMMA FrameType == \A k \in Kinds : Frame(k) \in Frames
  BY DEF Frame, Frames, Texts

LEMMA FaceNowType == TypeOK => FaceNow \in Frames
  BY DEF TypeOK, FaceNow, Frames, Texts, Kinds, UnitData

\* Sequences of at most three frames are sequences of frames.
LEMMA ShortSeqs ==
  ASSUME NEW f \in Frames, NEW g \in Frames, NEW h \in Frames
  PROVE  /\ <<>> \in Seq(Frames) /\ <<f>> \in Seq(Frames)
         /\ <<f, g, h>> \in Seq(Frames)
         /\ <<f>> \o <<>> \in Seq(Frames) /\ <<f>> \o <<g>> \in Seq(Frames)
  OBVIOUS

\* What the dispatch adds to the acknowledgment is a sequence of frames.
LEMMA DispatchType ==
  ASSUME TypeOK, NEW r \in Requests
  PROVE  Dispatch(r) \in Seq(Frames)
  <1>1. /\ Frame("data") \in Frames /\ Frame("error") \in Frames
        /\ Frame("restarting") \in Frames /\ FaceNow \in Frames
    BY FrameType, FaceNowType DEF Kinds, UnitData
  <1>2. /\ <<>> \in Seq(Frames) /\ <<Frame("data")>> \in Seq(Frames)
        /\ <<Frame("error")>> \in Seq(Frames) /\ <<FaceNow>> \in Seq(Frames)
        /\ <<Frame("restarting")>> \in Seq(Frames)
    BY <1>1
  <1> QED BY <1>2 DEF Dispatch, Requests

\* The replies are frames.
LEMMA RepliesType ==
  ASSUME TypeOK, NEW c \in Conns, NEW r \in Requests, NEW mid \in BOOLEAN
  PROVE  Replies(c, r, mid) \in Seq(Frames)
  <1>1. /\ <<Frame("acknowledgment")>> \in Seq(Frames) /\ <<Frame("error")>> \in Seq(Frames)
        /\ <<Frame("unauthorized")>> \in Seq(Frames)
    BY FrameType DEF Kinds
  <1>2. /\ Dispatch(r) \in Seq(Frames)
        /\ <<Frame("acknowledgment")>> \o Dispatch(r) \in Seq(Frames)
    BY <1>1, DispatchType
  <1> QED BY <1>1, <1>2 DEF Replies

\* A gated connection gets no unit data, and the acknowledgment of its auth
\* frame comes alone.
LEMMA GatedReplies ==
  ASSUME NEW c \in Conns, NEW r \in Requests, NEW mid \in BOOLEAN, Gated(c)
  PROVE  /\ ~HasUnitData(Replies(c, r, mid))
         /\ Observed(c, r, Replies(c, r, mid)) =>
              Replies(c, r, mid) = <<Frame("acknowledgment")>>
  <1>1. Replies(c, r, mid) \in {<<Frame("error")>>, <<Frame("acknowledgment")>>,
                                <<Frame("unauthorized")>>}
    BY DEF Replies, Gated
  <1>2. \A k \in {"error", "acknowledgment", "unauthorized"} : ~HasUnitData(<<Frame(k)>>)
    BY DEF HasUnitData, Frame, UnitData
  <1>3. \A k \in {"error", "unauthorized"} : ~Observed(c, r, <<Frame(k)>>)
    BY DEF Observed, Frame, Gated
  <1> QED BY <1>1, <1>2, <1>3

-----------------------------------------------------------------------------
(* Type correctness *)

\* The groups of variables an action leaves alone.
LEMMA TypeStutter == TypeOK /\ UNCHANGED vars => TypeOK'
  BY DEF TypeOK, vars, connVars, peerVars, castVars, clockVars, effectVars

\* The initial state has the types.
LEMMA TypeInit == Init => TypeOK
  BY ConnectionsAssumption, FrameType, ShortSeqs
  DEF Init, TypeOK, Idle, Frame, Frames, Texts, Kinds, UnitData, PcStates, Casters

\* Delivering a frame keeps the types of what the peers have received.
LEMMA DeliverType ==
  ASSUME TypeOK, NEW c \in Conns, NEW f \in Frames, Deliver(c, f)
  PROVE  rcvd' \in [Conns -> SUBSET {"data", "acknowledgment"}] /\ screen' \in [Conns -> Texts]
  BY DEF TypeOK, Deliver, Told, Frames

CasterType ==
  [Casters -> [at : {"idle", "snapshot", "schedule"}, msg : Frames, to : SUBSET Conns]]

\* A broadcast that begins leaves the casters well typed.
LEMMA BeginType ==
  ASSUME TypeOK, NEW b \in Casters, NEW f \in Frames, Begin(b, f)
  PROVE  caster' \in CasterType
  BY DEF TypeOK, Begin, CasterType

\* The history of crossings is a flag for each connection.
LEMMA CrossedType ==
  ASSUME TypeOK, Next
  PROVE  crossed' \in [Conns -> BOOLEAN]
  <1>1. \A c \in Conns : \A q : Builds(c, q) => crossed' \in [Conns -> BOOLEAN]
    BY DEF Builds, TypeOK
  <1>2. \A c \in Conns : \A f : Overtakes(c, f) => crossed' \in [Conns -> BOOLEAN]
    BY DEF Overtakes, TypeOK
  <1>3. ASSUME NEW c \in Conns, Handler(c) \/ Peer(c)
        PROVE  crossed' \in [Conns -> BOOLEAN]
    <2>1. CASE crossed' = crossed
      BY <2>1 DEF TypeOK
    <2>2. CASE crossed' # crossed
      <3>1. \/ \E q : Builds(c, q)
            \/ \E f : Overtakes(c, f)
        BY <1>3, <2>2 DEF Handler, Coroutine, Peer, PollExpires, SendNext, AfterReplies, BuildBurst,
           RecvClosed, Finish, LoopSends, Connect, PeerDrops, Recv
      <3> QED
        BY <1>1, <1>2, <3>1
    <2> QED
      BY <2>1, <2>2
  <1>4. CASE OnUiUpdate
    BY <1>4 DEF OnUiUpdate
  <1>5. CASE ~OnUiUpdate /\ ~\E c \in Conns : Handler(c) \/ Peer(c)
    <2>1. crossed' = crossed
      BY <1>5 DEF Next, Cast, Snapshot, BroadcastReturns, Schedule, ViewChanges, OnOtherHook,
         TickerWakes, RestartRuns, Tick, ClockStepsBack
    <2> QED
      BY <2>1 DEF TypeOK
  <1> QED
    BY <1>3, <1>4, <1>5

\* Each step keeps the types.
LEMMA TypeStep == TypeOK /\ [Next]_vars => TypeOK'
  <1> SUFFICES ASSUME TypeOK, Next PROVE TypeOK'
    BY TypeStutter
  <1> USE ConnectionsAssumption
      DEF connVars, peerVars, castVars, clockVars, effectVars, PcStates
  <1>0. crossed' \in [Conns -> BOOLEAN]
    BY CrossedType
  <1>1. ASSUME NEW c \in Conns, Connect(c) PROVE TypeOK'
    <2>1. pc' \in [Conns -> PcStates] /\ admitted' \in [Conns -> BOOLEAN] /\ clients' \subseteq Conns
      <3>1. CASE TokenSet BY <1>1, <3>1 DEF TypeOK, Connect
      <3>2. CASE ~TokenSet BY <1>1, <3>2 DEF TypeOK, Connect
      <3> QED BY <3>1, <3>2
    <2>2. /\ live' \subseteq Conns /\ authed' \in [Conns -> BOOLEAN]
          /\ deadline' \in [Conns -> Nat]
      BY <1>1 DEF TypeOK, Connect
    <2>3. UNCHANGED <<hangup, outq, asked, sched, peerVars, castVars, clockVars, effectVars>>
      BY <1>1 DEF Connect
    <2> QED BY <1>0, <2>1, <2>2, <2>3 DEF TypeOK
  <1>2. ASSUME NEW c \in Conns, PeerDrops(c) PROVE TypeOK'
    BY <1>0, <1>2 DEF TypeOK, PeerDrops
  <1>3. ASSUME NEW c \in Conns, NEW r \in Asks, NEW mid \in BOOLEAN, Recv(c, r, mid)
        PROVE TypeOK'
    <2>1. r \in Requests /\ Replies(c, r, mid) \in Seq(Frames)
      BY RepliesType
    <2>2. /\ Effects(c, r) \subseteq [by : Conns, what : {"restart", "pasv"}]
          /\ Rejected(Replies(c, r, mid)) \in BOOLEAN
          /\ Observed(c, r, Replies(c, r, mid)) \in BOOLEAN
      BY DEF Effects, Wanted, Rejected, Observed, TypeOK
    <2>3. /\ asked' \in [Conns -> Nat]
          /\ UNCHANGED <<deadline, admitted, clients, sched, peerVars, castVars, clockVars, unit>>
      BY <1>3 DEF TypeOK, Recv
    <2>4. /\ pc' \in [Conns -> PcStates] /\ live' \subseteq Conns
          /\ outq' \in [Conns -> Seq(Frames)] /\ hangup' \in [Conns -> BOOLEAN]
          /\ authed' \in [Conns -> BOOLEAN]
          /\ commanded' \subseteq [by : Conns, what : {"restart", "pasv"}]
      <3>1. CASE Expired(c) BY <1>3, <3>1 DEF TypeOK, Recv, CloseSocket
      <3>2. CASE ~Expired(c)
        <4>1. /\ pc' = [pc EXCEPT ![c] = "send"] /\ live' = live
              /\ outq' = [outq EXCEPT ![c] = Replies(c, r, mid)]
              /\ hangup' = [hangup EXCEPT ![c] = Rejected(Replies(c, r, mid))]
              /\ authed' = [authed EXCEPT ![c] = Observed(c, r, Replies(c, r, mid))]
              /\ commanded' = commanded \cup Effects(c, r)
          BY <1>3, <3>2 DEF Recv
        <4> QED BY <1>0, <4>1, <2>1, <2>2 DEF TypeOK
      <3> QED BY <3>1, <3>2
    <2> QED BY <1>0, <2>3, <2>4 DEF TypeOK
  <1>4. ASSUME NEW c \in Conns, PollExpires(c) PROVE TypeOK'
    BY <1>0, <1>4 DEF TypeOK, PollExpires, CloseSocket
  <1>5. ASSUME NEW c \in Conns, SendNext(c) PROVE TypeOK'
    <2>1. CASE c \in live
      <3>1. Head(outq[c]) \in Frames /\ Tail(outq[c]) \in Seq(Frames)
        BY <1>5 DEF SendNext, TypeOK
      <3>2. Deliver(c, Head(outq[c]))
        BY <1>5, <2>1 DEF SendNext
      <3>3. rcvd' \in [Conns -> SUBSET {"data", "acknowledgment"}] /\ screen' \in [Conns -> Texts]
        BY <3>1, <3>2, DeliverType
      <3>4. /\ outq' = [outq EXCEPT ![c] = Tail(@)]
            /\ UNCHANGED <<pc, live, authed, deadline, admitted, hangup, asked, clients, sched,
                           castVars, clockVars, effectVars>>
        BY <1>5, <2>1 DEF SendNext
      <3>5. outq' \in [Conns -> Seq(Frames)]
        BY <3>1, <3>4 DEF TypeOK
      <3> QED BY <1>0, <3>3, <3>4, <3>5 DEF TypeOK
    <2>2. CASE c \notin live
      BY <1>0, <1>5, <2>2 DEF TypeOK, SendNext, CloseSocket
    <2> QED BY <2>1, <2>2
  <1>6. ASSUME NEW c \in Conns, AfterReplies(c) PROVE TypeOK'
    <2>1. UNCHANGED <<authed, deadline, hangup, outq, asked, sched, peerVars, castVars,
                      clockVars, effectVars>>
      BY <1>6 DEF AfterReplies
    <2>2. /\ pc' \in [Conns -> PcStates] /\ live' \subseteq Conns
          /\ clients' \subseteq Conns /\ admitted' \in [Conns -> BOOLEAN]
      <3>1. CASE hangup[c] BY <1>6, <3>1 DEF TypeOK, AfterReplies, CloseSocket
      <3>2. CASE ~hangup[c] /\ authed[c] /\ ~admitted[c]
        <4>1. /\ pc' = [pc EXCEPT ![c] = "admit"] /\ clients' = clients \cup {c}
              /\ admitted' = [admitted EXCEPT ![c] = TRUE] /\ live' = live
          BY <1>6, <3>2 DEF AfterReplies
        <4> QED BY <1>0, <4>1 DEF TypeOK
      <3>3. CASE ~hangup[c] /\ ~(authed[c] /\ ~admitted[c])
        BY <1>6, <3>3 DEF TypeOK, AfterReplies
      <3> QED BY <3>1, <3>2, <3>3
    <2> QED BY <1>0, <2>1, <2>2 DEF TypeOK
  <1>7. ASSUME NEW c \in Conns, BuildBurst(c) PROVE TypeOK'
    <2>1. <<Frame("stats"), Frame("access_points"), FaceNow>> \in Seq(Frames)
      BY FrameType, FaceNowType DEF Kinds, UnitData
    <2>2. UNCHANGED <<authed, deadline, admitted, hangup, asked, clients, sched, peerVars,
                      castVars, clockVars, effectVars>>
      BY <1>7 DEF BuildBurst
    <2>3. /\ pc' \in [Conns -> PcStates] /\ live' \subseteq Conns
          /\ outq' \in [Conns -> Seq(Frames)]
      <3> DEFINE burst == <<Frame("stats"), Frame("access_points"), FaceNow>>
      <3>1. CASE outq' = [outq EXCEPT ![c] = burst] /\ pc' = [pc EXCEPT ![c] = "send"]
                 /\ live' = live
        <4> HIDE DEF burst
        <4> QED BY <1>0, <2>1, <3>1 DEF TypeOK, burst
      <3>2. CASE CloseSocket(c) /\ outq' = outq
        BY <3>2 DEF TypeOK, CloseSocket
      <3> QED BY <1>7, <3>1, <3>2 DEF BuildBurst
    <2> QED BY <1>0, <2>2, <2>3 DEF TypeOK
  <1>8. ASSUME NEW c \in Conns, RecvClosed(c) PROVE TypeOK'
    BY <1>0, <1>8 DEF TypeOK, RecvClosed, CloseSocket
  <1>9. ASSUME NEW c \in Conns, Finish(c) PROVE TypeOK'
    BY <1>0, <1>9 DEF TypeOK, Finish
  <1>10. ASSUME NEW c \in Conns, LoopSends(c) PROVE TypeOK'
    <2>1. Head(sched[c]) \in Frames /\ Tail(sched[c]) \in Seq(Frames)
      BY <1>10 DEF LoopSends, TypeOK
    <2>2. rcvd' \in [Conns -> SUBSET {"data", "acknowledgment"}] /\ screen' \in [Conns -> Texts]
      BY <1>10, <2>1, DeliverType DEF LoopSends, TypeOK
    <2> QED BY <1>0, <1>10, <2>1, <2>2 DEF TypeOK, LoopSends
  <1>11. ASSUME NEW b \in Casters, Snapshot(b) PROVE TypeOK'
    <2>1. UNCHANGED <<connVars, live, clients, sched, peerVars, crossed, pushes, face, turns, lastFace,
                      clockVars, effectVars>>
      BY <1>11 DEF Snapshot
    <2>2. caster' = [caster EXCEPT ![b].at = "schedule", ![b].to = clients]
      BY <1>11 DEF Snapshot
    <2>3. caster' \in [Casters -> [at : {"idle", "snapshot", "schedule"}, msg : Frames,
                                   to : SUBSET Conns]]
      <3>1. caster'[b] = [caster[b] EXCEPT !.at = "schedule", !.to = clients]
        BY <2>2 DEF TypeOK
      <3>2. caster'[b] \in [at : {"idle", "snapshot", "schedule"}, msg : Frames, to : SUBSET Conns]
        BY <3>1 DEF TypeOK
      <3>3. DOMAIN caster' = Casters /\ \A a \in Casters \ {b} : caster'[a] = caster[a]
        BY <2>2 DEF TypeOK
      <3>4. caster' = [a \in Casters |-> caster'[a]]
        BY <2>2 DEF TypeOK
      <3> QED BY <1>0, <3>2, <3>3, <3>4 DEF TypeOK
    <2> QED BY <1>0, <2>1, <2>3 DEF TypeOK
  <1>12. ASSUME NEW b \in Casters, BroadcastReturns(b) PROVE TypeOK'
    <2>1. caster[b].msg.face \in Texts /\ Frame("stats") \in Frames /\ Frame("push") \in Frames
      BY FrameType DEF TypeOK, Frames, Kinds, UnitData
    <2>2. lastFace' \in Texts
      BY <1>12, <2>1 DEF BroadcastReturns, TypeOK
    <2>3. caster' \in CasterType
      <3>1. CASE Begin(b, Frame("stats")) BY <2>1, <3>1, BeginType
      <3>2. CASE caster' = [caster EXCEPT ![b] = Idle]
        BY <2>1, <3>2 DEF TypeOK, Idle, CasterType
      <3> QED BY <1>12, <3>1, <3>2 DEF BroadcastReturns
    <2>4. UNCHANGED <<connVars, live, clients, sched, peerVars, crossed, pushes, face, turns, clockVars,
                      effectVars>>
      BY <1>12 DEF BroadcastReturns
    <2> QED BY <1>0, <2>2, <2>3, <2>4 DEF TypeOK, CasterType
  <1>13. ASSUME NEW b \in Casters, NEW c \in Conns, Schedule(b, c) PROVE TypeOK'
    <2>1. Append(sched[c], caster[b].msg) \in Seq(Frames)
      BY DEF TypeOK
    <2>2. sched' \in [Conns -> Seq(Frames)]
      BY <1>13, <2>1 DEF TypeOK, Schedule
    <2>3. caster' \in [Casters -> [at : {"idle", "snapshot", "schedule"}, msg : Frames,
                                   to : SUBSET Conns]]
      BY <1>13 DEF TypeOK, Schedule
    <2>4. UNCHANGED <<connVars, live, clients, peerVars, crossed, pushes, face, turns, lastFace,
                      clockVars, effectVars>>
      BY <1>13 DEF Schedule
    <2> QED BY <1>0, <2>2, <2>3, <2>4 DEF TypeOK
  <1>14. CASE ViewChanges
    BY <1>0, <1>14 DEF TypeOK, ViewChanges
  <1>15. CASE OnUiUpdate
    <2>1. FaceNow \in Frames /\ "hook" \in Casters
      BY FrameType, FaceNowType DEF Kinds, UnitData, Casters
    <2>2. caster' \in CasterType
      BY <1>15, <2>1, BeginType DEF OnUiUpdate
    <2>3. pushes' \in Nat /\ UNCHANGED <<connVars, live, clients, sched, peerVars, face, turns,
                                       lastFace, clockVars, effectVars>>
      BY <1>15 DEF OnUiUpdate, TypeOK
    <2> QED BY <1>0, <2>2, <2>3 DEF TypeOK, CasterType
  <1>16. CASE OnOtherHook
    <2>1. Frame("push") \in Frames /\ "hook" \in Casters
      BY FrameType, FaceNowType DEF Kinds, UnitData, Casters
    <2>2. caster' \in CasterType
      BY <1>16, <2>1, BeginType DEF OnOtherHook
    <2>3. pushes' \in Nat /\ UNCHANGED <<connVars, live, clients, sched, peerVars, crossed, face, turns,
                                       lastFace, clockVars, effectVars>>
      BY <1>16 DEF OnOtherHook, TypeOK
    <2> QED BY <1>0, <2>2, <2>3 DEF TypeOK, CasterType
  <1>17. CASE TickerWakes
    <2>1. Frame("keepalive") \in Frames /\ "ticker" \in Casters
      BY FrameType, FaceNowType DEF Kinds, UnitData, Casters
    <2>2. caster' \in CasterType
      BY <1>17, <2>1, BeginType DEF TickerWakes
    <2>3. pushes' \in Nat /\ UNCHANGED <<connVars, live, clients, sched, peerVars, crossed, face, turns,
                                       lastFace, clockVars, effectVars>>
      BY <1>17 DEF TickerWakes, TypeOK
    <2> QED BY <1>0, <2>2, <2>3 DEF TypeOK, CasterType
  <1>18. CASE RestartRuns
    BY <1>0, <1>18 DEF TypeOK, RestartRuns
  <1>19. CASE Tick
    BY <1>0, <1>19 DEF TypeOK, Tick
  <1>20. CASE ClockStepsBack
    BY <1>0, <1>20 DEF TypeOK, ClockStepsBack
  <1> QED
    BY <1>1, <1>2, <1>3, <1>4, <1>5, <1>6, <1>7, <1>8, <1>9, <1>10, <1>11, <1>12, <1>13,
       <1>14, <1>15, <1>16, <1>17, <1>18, <1>19, <1>20
    DEF Next, Handler, Coroutine, Peer, Cast

\* Every variable of the handler, the client set and the fan-out keeps the
\* shape the code gives it, whatever the peers, hooks and clock do.
THEOREM ConnectionsTyped == Spec => []TypeOK
  BY TypeInit, TypeStep, PTL DEF Spec

-----------------------------------------------------------------------------
(* The inductive invariant *)

\* The initial state satisfies the invariant.
LEMMA InvInit == Init => IInv
  <1> SUFFICES ASSUME Init PROVE IInv
    OBVIOUS
  <1>1. TypeOK BY TypeInit
  <1>2. ASSUME NEW c \in Conns PROVE Sound(c)
    BY DEF Init, Sound, Stages, Admission, Channels, Membership, HasUnitData, Idle, Casters
  <1>3. EffectsNeedAuth BY DEF Init, EffectsNeedAuth
  <1> QED BY <1>1, <1>2, <1>3 DEF IInv

\* What a step must leave alone for a connection to stay sound. A socket may
\* break, and a caster may finish with the connection.
Untouched(d) ==
  /\ pc'[d] = pc[d] /\ authed'[d] = authed[d] /\ admitted'[d] = admitted[d]
  /\ outq'[d] = outq[d] /\ sched'[d] = sched[d] /\ rcvd'[d] = rcvd[d]
  /\ d \in clients' <=> d \in clients
  /\ d \in live' => d \in live
  /\ \A b \in Casters : d \in caster'[b].to => d \in caster[b].to

\* A connection the step does not touch stays sound.
LEMMA UntouchedSound ==
  ASSUME NEW d \in Conns, Sound(d), Untouched(d)
  PROVE  Sound(d)'
  <1>1. Stages(d)' BY DEF Sound, Stages, Untouched
  <1>2. Admission(d)' BY DEF Sound, Admission, Untouched
  <1>3. Channels(d)' BY DEF Sound, Channels, Untouched, HasUnitData
  <1>4. Membership(d)' BY DEF Sound, Membership, Untouched
  <1> QED BY <1>1, <1>2, <1>3, <1>4 DEF Sound

\* The parts of the invariant that name no frame: enough for a step that
\* leaves the queues and the received frames of d alone.
LEMMA QueuesKept ==
  ASSUME NEW d \in Conns, Sound(d), outq'[d] = outq[d], sched'[d] = sched[d],
         rcvd'[d] = rcvd[d], admitted'[d] = admitted[d],
         \A b \in Casters : d \in caster'[b].to => d \in caster[b].to,
         d \in clients' => d \in clients
  PROVE  Channels(d)'
  BY DEF Sound, Channels, HasUnitData

\* Closing a socket keeps a connection sound, whichever await it leaves.
LEMMA CloseSound ==
  ASSUME TypeOK, NEW c \in Conns, Sound(c), CloseSocket(c), pc[c] # "idle",
         UNCHANGED <<authed, admitted, outq, rcvd, sched, clients, caster>>
  PROVE  Sound(c)'
  <1>1. pc'[c] = "closing" /\ c \notin live'
    BY DEF CloseSocket, TypeOK
  <1>2. Stages(c)' BY <1>1 DEF Sound, Stages
  <1>3. Admission(c)' BY DEF Sound, Admission
  <1>4. Channels(c)' BY QueuesKept
  <1>5. Membership(c)' BY <1>1 DEF Membership
  <1> QED BY <1>2, <1>3, <1>4, <1>5 DEF Sound

\* Every step keeps the effects behind an authentication.
LEMMA EffectsStep ==
  ASSUME IInv, Next
  PROVE  EffectsNeedAuth'
  <1> USE DEF IInv, connVars, peerVars, castVars, clockVars, effectVars
  <1>1. ASSUME commanded' = commanded, authed' = authed PROVE EffectsNeedAuth'
    BY <1>1 DEF EffectsNeedAuth
  <1>2. ASSUME NEW c \in Conns, Connect(c) PROVE EffectsNeedAuth'
    <2>1. ~authed[c] BY <1>2 DEF Connect, Sound, Stages
    <2>2. commanded' = commanded /\ \A d \in Conns : d # c => authed'[d] = authed[d]
      BY <1>2 DEF Connect, TypeOK
    <2> QED BY <2>1, <2>2 DEF EffectsNeedAuth, TypeOK
  <1>3. ASSUME NEW c \in Conns, NEW r \in Asks, NEW mid \in BOOLEAN, Recv(c, r, mid)
        PROVE EffectsNeedAuth'
    <2>1. CASE Expired(c) BY <1>1, <1>3, <2>1 DEF Recv
    <2>2. CASE ~Expired(c)
      <3>1. /\ commanded' = commanded \cup Effects(c, r)
            /\ \A d \in Conns : authed[d] => authed'[d]
        <4>1. /\ commanded' = commanded \cup Effects(c, r)
              /\ authed' = [authed EXCEPT ![c] = Observed(c, r, Replies(c, r, mid))]
          BY <1>3, <2>2 DEF Recv
        <4> QED BY <4>1 DEF Observed, TypeOK
      <3>2. ASSUME NEW e \in Effects(c, r) PROVE e.by = c /\ authed[c]
        <4>1. e.by = c /\ ~Gated(c) BY DEF Effects
        <4>2. ~TokenSet => authed[c]
          BY <1>3 DEF Recv, Sound, Stages, Admission
        <4> QED BY <4>1, <4>2 DEF Gated
      <3> QED BY <3>1, <3>2 DEF EffectsNeedAuth, TypeOK
    <2> QED BY <2>1, <2>2
  <1> QED
    BY <1>1, <1>2, <1>3
    DEF Next, Handler, Coroutine, Peer, Cast, PeerDrops, PollExpires, SendNext, AfterReplies,
        BuildBurst, RecvClosed, Finish, LoopSends, Snapshot, BroadcastReturns, Schedule,
        ViewChanges, OnUiUpdate, OnOtherHook, TickerWakes, RestartRuns, Tick, ClockStepsBack

\* Every step keeps every connection sound.
LEMMA SoundStep ==
  ASSUME IInv, Next, NEW d \in Conns
  PROVE  Sound(d)'
  <1> USE DEF IInv, connVars, peerVars, castVars, clockVars, effectVars
  <1>0. Sound(d) /\ TypeOK OBVIOUS
  <1>1. ASSUME NEW c \in Conns, Connect(c) PROVE Sound(d)'
    <2>1. CASE d # c
      <3>1. pc'[d] = pc[d] /\ admitted'[d] = admitted[d] /\ (d \in clients' <=> d \in clients)
        BY <1>1, <2>1 DEF Connect, TypeOK
      <3>2. /\ authed'[d] = authed[d] /\ (d \in live' => d \in live)
            /\ UNCHANGED <<outq, sched, rcvd, caster>>
        BY <1>1, <2>1 DEF Connect, TypeOK
      <3> QED BY <3>1, <3>2, UntouchedSound DEF Untouched
    <2>2. CASE d = c
      <3>1. ~authed[c] /\ ~admitted[c] /\ pc[c] = "idle" /\ authed'[c] = ~TokenSet
        BY <1>1, <2>2 DEF Connect, Sound, Stages, TypeOK
      <3>2. UNCHANGED <<outq, sched, rcvd, caster>> BY <1>1 DEF Connect
      <3>3. /\ c \notin clients /\ sched[c] = <<>> /\ ~HasUnitData(outq[c])
            /\ "data" \notin rcvd[c] /\ \A b \in Casters : c \notin caster[b].to
        BY <2>2, <3>1 DEF Sound, Channels
      <3>4. CASE TokenSet
        <4>1. pc'[c] = "recv" /\ ~authed'[c] /\ ~admitted'[c] /\ clients' = clients
          BY <1>1, <3>1, <3>4 DEF Connect, TypeOK
        <4> QED BY <2>2, <3>2, <3>3, <3>4, <4>1
          DEF Sound, Stages, Admission, Channels, Membership, HasUnitData
      <3>5. CASE ~TokenSet
        <4>1. pc'[c] = "admit" /\ authed'[c] /\ admitted'[c] /\ c \in clients'
          BY <1>1, <3>1, <3>5 DEF Connect, TypeOK
        <4> QED BY <2>2, <3>2, <3>3, <3>5, <4>1
          DEF Sound, Stages, Admission, Channels, Membership, HasUnitData
      <3> QED BY <3>4, <3>5
    <2> QED BY <2>1, <2>2
  <1>2. ASSUME NEW c \in Conns, PeerDrops(c) PROVE Sound(d)'
    BY <1>2, UntouchedSound DEF PeerDrops, Untouched
  <1>3. ASSUME NEW c \in Conns, NEW r \in Asks, NEW mid \in BOOLEAN, Recv(c, r, mid)
        PROVE Sound(d)'
    <2> DEFINE replies == Replies(c, r, mid)
    <2>0. /\ UNCHANGED <<admitted, clients, sched, rcvd, caster>>
          /\ pc[c] = "recv" /\ c \in live /\ r \in Requests
      BY <1>3, ConnectionsAssumption DEF Recv
    <2>1. CASE Expired(c)
      <3>1. CloseSocket(c) /\ UNCHANGED <<authed, outq>>
        BY <1>3, <2>1 DEF Recv
      <3>2. d # c => Untouched(d)
        BY <2>0, <3>1 DEF CloseSocket, Untouched, TypeOK
      <3> QED BY <2>0, <3>1, <3>2, UntouchedSound, CloseSound
    <2>2. CASE ~Expired(c)
      <3>1. /\ pc' = [pc EXCEPT ![c] = "send"] /\ live' = live
            /\ outq' = [outq EXCEPT ![c] = replies]
            /\ authed' = [authed EXCEPT ![c] = Observed(c, r, replies)]
        BY <1>3, <2>2 DEF Recv
      <3>2. d # c => Untouched(d)
        BY <2>0, <3>1 DEF Untouched, TypeOK
      <3>3. CASE d = c
        <4>1. pc'[c] = "send" /\ outq'[c] = replies /\ authed'[c] = Observed(c, r, replies)
          BY <3>1 DEF TypeOK
        <4>2. authed[c] => authed'[c] BY <4>1 DEF Observed
        <4>3. CASE Gated(c)
          <5>1. ~HasUnitData(replies) /\ (authed'[c] => replies = <<Frame("acknowledgment")>>)
            BY <2>0, <3>3, <4>1, <4>3, GatedReplies
          <5>2. TokenSet /\ ~authed[c] /\ ~admitted[c]
            BY <3>3, <4>3 DEF Gated, Sound, Admission
          <5>3. Stages(c)' BY <2>0, <4>1, <5>1, <5>2 DEF Stages
          <5>4. Channels(c)'
            BY <2>0, <3>3, <4>1, <5>1 DEF Sound, Channels, HasUnitData
          <5> QED BY <2>0, <3>1, <3>3, <4>1, <5>2, <5>3, <5>4
            DEF Sound, Admission, Membership
        <4>4. CASE ~Gated(c)
          <5>1. admitted[c] BY <2>0, <3>3, <4>4 DEF Gated, Sound, Stages
          <5>2. Stages(c)' BY <2>0, <4>1, <5>1 DEF Stages
          <5>3. Admission(c)' BY <2>0, <3>3, <4>2, <5>1 DEF Sound, Admission
          <5>4. Channels(c)' BY <2>0, <5>1 DEF Channels
          <5>5. Membership(c)' BY <2>0, <3>1, <3>3, <4>1 DEF Sound, Membership
          <5> QED BY <3>3, <5>2, <5>3, <5>4, <5>5 DEF Sound
        <4> QED BY <4>3, <4>4
      <3> QED BY <3>2, <3>3, UntouchedSound
    <2> QED BY <2>1, <2>2
  <1>4. ASSUME NEW c \in Conns, PollExpires(c) \/ RecvClosed(c) PROVE Sound(d)'
    <2>1. /\ CloseSocket(c) /\ pc[c] = "recv"
          /\ UNCHANGED <<authed, admitted, outq, rcvd, sched, clients, caster>>
      BY <1>4 DEF PollExpires, RecvClosed
    <2>2. d # c => Untouched(d)
      BY <2>1 DEF CloseSocket, Untouched, TypeOK
    <2> QED BY <2>1, <2>2, UntouchedSound, CloseSound
  <1>5. ASSUME NEW c \in Conns, SendNext(c) PROVE Sound(d)'
    <2>0. /\ UNCHANGED <<authed, admitted, clients, sched, caster>>
          /\ pc[c] = "send" /\ outq[c] # <<>>
      BY <1>5 DEF SendNext
    <2>1. CASE c \in live
      <3>1. /\ outq' = [outq EXCEPT ![c] = Tail(outq[c])] /\ UNCHANGED <<pc, live>>
            /\ rcvd' = [rcvd EXCEPT ![c] = rcvd[c] \cup Told(Head(outq[c]))]
        BY <1>5, <2>1 DEF SendNext, Deliver
      <3>2. d # c => Untouched(d)
        BY <2>0, <3>1 DEF Untouched, TypeOK
      <3>3. CASE d = c
        <4>1. outq[c] \in Seq(Frames) /\ Head(outq[c]) = outq[c][1] /\ 1 \in 1 .. Len(outq[c])
          BY <2>0 DEF TypeOK
        <4>2. outq'[c] = Tail(outq[c]) /\ rcvd'[c] = rcvd[c] \cup Told(outq[c][1])
          BY <3>1, <4>1 DEF TypeOK
        <4>3. outq[c][1].kind \in UnitData => HasUnitData(outq[c])
          BY <4>1 DEF HasUnitData
        <4>4. HasUnitData(Tail(outq[c])) => HasUnitData(outq[c])
          BY <2>0, <4>1 DEF HasUnitData
        <4>5. Channels(c)'
          <5>1. HasUnitData(outq'[c]) => admitted[c]
            BY <3>3, <4>2, <4>4 DEF Sound, Channels
          <5>2. "data" \in rcvd'[c] => admitted[c]
            BY <3>3, <4>2, <4>3 DEF Sound, Channels, Told
          <5> QED BY <2>0, <3>3, <5>1, <5>2 DEF Sound, Channels, HasUnitData
        <4>6. Stages(c)'
          <5>1. pc'[c] = "send" BY <2>0, <3>1
          <5>2. ~TokenSet => admitted'[c] BY <2>0, <3>3 DEF Sound, Stages
          <5>3. ASSUME authed[c], ~admitted[c]
                PROVE  outq'[c] = <<>> /\ "acknowledgment" \in rcvd'[c]
            <6>1. outq[c] = <<Frame("acknowledgment")>>
              BY <2>0, <3>3, <5>3 DEF Sound, Stages
            <6>2. outq[c][1] = Frame("acknowledgment") /\ outq'[c] = <<>>
              BY <4>2, <6>1
            <6>3. Told(Frame("acknowledgment")) = {"acknowledgment"}
              BY DEF Frame, Told, UnitData
            <6> QED BY <4>2, <6>2, <6>3
          <5> QED BY <2>0, <5>1, <5>2, <5>3 DEF Stages
        <4>7. Admission(c)' BY <2>0, <3>3, <4>2 DEF Sound, Admission
        <4>8. Membership(c)' BY <2>0, <3>1, <3>3 DEF Sound, Membership
        <4> QED BY <3>3, <4>5, <4>6, <4>7, <4>8 DEF Sound
      <3> QED BY <3>2, <3>3, UntouchedSound
    <2>2. CASE c \notin live
      <3>1. CloseSocket(c) /\ UNCHANGED <<outq, rcvd>>
        BY <1>5, <2>2 DEF SendNext
      <3>2. d # c => Untouched(d)
        BY <2>0, <3>1 DEF CloseSocket, Untouched, TypeOK
      <3> QED BY <2>0, <3>1, <3>2, UntouchedSound, CloseSound
    <2> QED BY <2>1, <2>2
  <1>6. ASSUME NEW c \in Conns, AfterReplies(c) PROVE Sound(d)'
    <2>0. /\ UNCHANGED <<authed, outq, sched, rcvd, caster>>
          /\ pc[c] = "send" /\ outq[c] = <<>>
      BY <1>6 DEF AfterReplies
    <2>1. CASE hangup[c]
      <3>1. CloseSocket(c) /\ UNCHANGED <<clients, admitted>>
        BY <1>6, <2>1 DEF AfterReplies
      <3>2. d # c => Untouched(d)
        BY <2>0, <3>1 DEF CloseSocket, Untouched, TypeOK
      <3> QED BY <2>0, <3>1, <3>2, UntouchedSound, CloseSound
    <2>2. CASE ~hangup[c] /\ authed[c] /\ ~admitted[c]
      <3>1. /\ pc' = [pc EXCEPT ![c] = "admit"] /\ clients' = clients \cup {c}
            /\ admitted' = [admitted EXCEPT ![c] = TRUE] /\ live' = live
        BY <1>6, <2>2 DEF AfterReplies
      <3>2. d # c => Untouched(d)
        BY <2>0, <3>1 DEF Untouched, TypeOK
      <3>3. CASE d = c
        <4>1. pc'[c] = "admit" /\ admitted'[c] /\ c \in clients'
          BY <3>1 DEF TypeOK
        <4>2. "acknowledgment" \in rcvd[c]
          BY <2>0, <2>2, <3>3 DEF Sound, Stages
        <4> QED BY <2>0, <2>2, <3>3, <4>1, <4>2
          DEF Sound, Stages, Admission, Channels, Membership
      <3> QED BY <3>2, <3>3, UntouchedSound
    <2>3. CASE ~hangup[c] /\ ~(authed[c] /\ ~admitted[c])
      <3>1. pc' = [pc EXCEPT ![c] = "recv"] /\ UNCHANGED <<live, clients, admitted>>
        BY <1>6, <2>3 DEF AfterReplies
      <3>2. d # c => Untouched(d)
        BY <2>0, <3>1 DEF Untouched, TypeOK
      <3>3. CASE d = c
        <4>1. pc'[c] = "recv" BY <3>1 DEF TypeOK
        <4>2. Stages(c)' BY <2>0, <2>3, <3>1, <3>3, <4>1 DEF Sound, Stages
        <4>3. Channels(c)' BY <2>0, <3>1, <3>3, QueuesKept
        <4> QED BY <2>0, <3>1, <3>3, <4>1, <4>2, <4>3 DEF Sound, Admission, Membership
      <3> QED BY <3>2, <3>3, UntouchedSound
    <2> QED BY <2>1, <2>2, <2>3
  <1>7. ASSUME NEW c \in Conns, BuildBurst(c) PROVE Sound(d)'
    <2>0. /\ UNCHANGED <<authed, admitted, clients, sched, rcvd, caster>>
          /\ pc[c] = "admit"
      BY <1>7 DEF BuildBurst
    <2>1. CASE CloseSocket(c) /\ outq' = outq
      <3>1. d # c => Untouched(d)
        BY <2>0, <2>1 DEF CloseSocket, Untouched, TypeOK
      <3> QED BY <2>0, <2>1, <3>1, UntouchedSound, CloseSound
    <2>2. CASE ~(CloseSocket(c) /\ outq' = outq)
      <3>1. /\ pc' = [pc EXCEPT ![c] = "send"] /\ live' = live
            /\ \A e \in Conns : e # c => outq'[e] = outq[e]
        BY <1>7, <2>2 DEF BuildBurst, TypeOK
      <3>2. d # c => Untouched(d)
        BY <2>0, <3>1 DEF Untouched, TypeOK
      <3>3. CASE d = c
        <4>1. pc'[c] = "send" /\ admitted[c]
          BY <2>0, <3>1, <3>3 DEF TypeOK, Sound, Stages
        <4> QED BY <2>0, <3>1, <3>3, <4>1
          DEF Sound, Stages, Admission, Channels, Membership
      <3> QED BY <3>2, <3>3, UntouchedSound
    <2> QED BY <2>1, <2>2
  <1>8. ASSUME NEW c \in Conns, Finish(c) PROVE Sound(d)'
    <2>0. /\ UNCHANGED <<live, authed, admitted, outq, sched, rcvd, caster>>
          /\ pc[c] = "closing" /\ pc' = [pc EXCEPT ![c] = "done"] /\ clients' = clients \ {c}
      BY <1>8 DEF Finish
    <2>1. d # c => Untouched(d)
      BY <2>0 DEF Untouched, TypeOK
    <2>2. CASE d = c
      <3>1. pc'[c] = "done" /\ c \notin clients' BY <2>0 DEF TypeOK
      <3>2. Channels(c)' BY <2>0, <2>2, QueuesKept
      <3> QED BY <2>0, <2>2, <3>1, <3>2 DEF Sound, Stages, Admission, Membership
    <2> QED BY <2>1, <2>2, UntouchedSound
  <1>9. ASSUME NEW c \in Conns, LoopSends(c) PROVE Sound(d)'
    <2>0. /\ UNCHANGED <<pc, live, authed, admitted, outq, caster>>
          /\ sched[c] # <<>> /\ sched' = [sched EXCEPT ![c] = Tail(sched[c])]
          /\ c \in live => clients' = clients
          /\ clients' \subseteq clients /\ clients \subseteq clients' \cup {c}
      BY <1>9 DEF LoopSends
    <2>1. /\ \A e \in Conns : rcvd[e] \subseteq rcvd'[e]
          /\ \A e \in Conns : e # c => rcvd'[e] = rcvd[e]
      <3>1. CASE c \in live
        <4>1. rcvd' = [rcvd EXCEPT ![c] = rcvd[c] \cup Told(Head(sched[c]))]
          BY <1>9, <3>1 DEF LoopSends, Deliver
        <4> QED BY <4>1 DEF TypeOK
      <3>2. CASE c \notin live BY <1>9, <3>2 DEF LoopSends
      <3> QED BY <3>1, <3>2
    <2>2. d # c => Untouched(d)
      BY <2>0, <2>1 DEF Untouched, TypeOK
    <2>3. CASE d = c
      <3>1. admitted[c] BY <2>0, <2>3 DEF Sound, Channels
      <3> QED BY <2>0, <2>1, <2>3, <3>1
        DEF Sound, Stages, Admission, Channels, Membership
    <2> QED BY <2>2, <2>3, UntouchedSound
  <1>10. ASSUME NEW b \in Casters, Snapshot(b) PROVE Sound(d)'
    <2>1. UNCHANGED <<pc, live, authed, admitted, outq, sched, rcvd, clients>>
      BY <1>10 DEF Snapshot
    <2>2. \A e \in Casters : d \in caster'[e].to => d \in clients \/ d \in caster[e].to
      BY <1>10 DEF Snapshot, TypeOK
    <2>3. Stages(d)' /\ Admission(d)' /\ Membership(d)'
      BY <2>1 DEF Sound, Stages, Admission, Membership
    <2>4. Channels(d)' BY <2>1, <2>2 DEF Sound, Channels, HasUnitData
    <2> QED BY <2>3, <2>4 DEF Sound
  <1>11. ASSUME NEW b \in Casters, BroadcastReturns(b) PROVE Sound(d)'
    <2>1. UNCHANGED <<pc, live, authed, admitted, outq, sched, rcvd, clients>>
      BY <1>11 DEF BroadcastReturns
    <2>2. \A e \in Casters : d \in caster'[e].to => d \in caster[e].to
      <3>1. CASE Begin(b, Frame("stats")) BY <3>1 DEF Begin, TypeOK
      <3>2. CASE caster' = [caster EXCEPT ![b] = Idle] BY <3>2 DEF Idle, TypeOK
      <3> QED BY <1>11, <3>1, <3>2 DEF BroadcastReturns
    <2> QED BY <2>1, <2>2, UntouchedSound DEF Untouched
  <1>12. ASSUME NEW b \in Casters, NEW c \in Conns, Schedule(b, c) PROVE Sound(d)'
    <2>1. /\ UNCHANGED <<pc, live, authed, admitted, outq, rcvd, clients>>
          /\ c \in caster[b].to /\ sched' = [sched EXCEPT ![c] = Append(sched[c], caster[b].msg)]
      BY <1>12 DEF Schedule
    <2>2. \A e \in Casters : d \in caster'[e].to => d \in caster[e].to
      BY <1>12 DEF Schedule, TypeOK
    <2>3. d # c => sched'[d] = sched[d] BY <2>1 DEF TypeOK
    <2>4. d = c => admitted[d] BY <2>1 DEF Sound, Channels
    <2>5. Stages(d)' /\ Admission(d)' /\ Membership(d)'
      BY <2>1 DEF Sound, Stages, Admission, Membership
    <2>6. CASE d # c BY <2>1, <2>2, <2>3, <2>6, UntouchedSound DEF Untouched
    <2>7. CASE d = c
      <3>1. Channels(d)' BY <2>1, <2>4, <2>7 DEF Channels
      <3> QED BY <2>5, <3>1 DEF Sound
    <2> QED BY <2>6, <2>7
  <1>13. ASSUME OnUiUpdate \/ OnOtherHook \/ TickerWakes PROVE Sound(d)'
    <2>1. UNCHANGED <<pc, live, authed, admitted, outq, sched, rcvd, clients>>
      BY <1>13 DEF OnUiUpdate, OnOtherHook, TickerWakes
    <2>2. \E b \in Casters, f \in {FaceNow, Frame("push"), Frame("keepalive")} : Begin(b, f)
      BY <1>13 DEF OnUiUpdate, OnOtherHook, TickerWakes, Casters
    <2>3. \A e \in Casters : d \in caster'[e].to => d \in caster[e].to
      BY <2>2 DEF Begin, TypeOK
    <2> QED BY <2>1, <2>3, UntouchedSound DEF Untouched
  <1>14. ASSUME ViewChanges \/ RestartRuns \/ Tick \/ ClockStepsBack PROVE Sound(d)'
    BY <1>14, UntouchedSound DEF ViewChanges, RestartRuns, Tick, ClockStepsBack, Untouched
  <1> QED
    BY <1>1, <1>2, <1>3, <1>4, <1>5, <1>6, <1>7, <1>8, <1>9, <1>10, <1>11, <1>12, <1>13, <1>14
    DEF Next, Handler, Coroutine, Peer, Cast

\* The invariant is inductive.
LEMMA InvStep == IInv /\ [Next]_vars => IInv'
  <1>1. ASSUME IInv, UNCHANGED vars PROVE IInv'
    <2>1. TypeOK' BY <1>1, TypeStutter DEF IInv
    <2>2. \A d \in Conns : Sound(d)'
      BY <1>1, UntouchedSound
      DEF IInv, vars, connVars, peerVars, castVars, clockVars, effectVars, Untouched
    <2>3. EffectsNeedAuth' BY <1>1 DEF IInv, EffectsNeedAuth, vars, connVars, effectVars
    <2> QED BY <2>1, <2>2, <2>3 DEF IInv
  <1>2. ASSUME IInv, Next PROVE IInv'
    <2>1. TypeOK' BY <1>2, TypeStep DEF IInv
    <2> QED BY <1>2, <2>1, SoundStep, EffectsStep DEF IInv
  <1> QED BY <1>1, <1>2

LEMMA Invariant == Spec => []IInv
  BY InvInit, InvStep, PTL DEF Spec

-----------------------------------------------------------------------------
(* What follows *)

\* No burst, reply or push reaches a peer that has not authenticated or, with
\* a token, has not been sent the acknowledgment of its auth frame: for every
\* set of connections, request sequence and interleaving.
THEOREM DataNeedsAuth == Spec => []NoDataBeforeAuth
  <1>1. IInv => NoDataBeforeAuth
    BY DEF IInv, Sound, Admission, Channels, NoDataBeforeAuth
  <1> QED BY <1>1, Invariant, PTL

\* No restart and no passive-mode switch is started for a peer that has not
\* authenticated (Router.handle behind the gate of _ws_handler).
THEOREM EffectsFollowAuth == Spec => []EffectsNeedAuth
  <1>1. IInv => EffectsNeedAuth
    BY DEF IInv
  <1> QED BY <1>1, Invariant, PTL

\* The client set is exactly right at both ends: a finished handler leaves
\* nothing in it, and a client whose socket works is never lost from it.
THEOREM ClientSetSound == Spec => []ClientSetExact
  <1>1. IInv => ClientSetExact
    BY DEF IInv, TypeOK, Sound, Admission, Channels, Membership, ClientSetExact
  <1> QED BY <1>1, Invariant, PTL

-----------------------------------------------------------------------------
(* The face *)

Faceless(s) == \A i \in 1 .. Len(s) : ~IsFace(s[i])

\* Every face in s shows v; and every face with no other behind it does.
Only(s, v) == \A i \in 1 .. Len(s) : IsFace(s[i]) => s[i].face = v
EndsIn(s, v) ==
  \A i \in 1 .. Len(s) :
    IsFace(s[i]) /\ (\A j \in 1 .. Len(s) : j > i => ~IsFace(s[j])) => s[i].face = v

\* The push of a face that is under way has still to reach c.
Pending(c) ==
  /\ IsFace(caster["hook"].msg)
  /\ caster["hook"].at = "snapshot" \/ c \in caster["hook"].to

\* Unless a push is still to come, the scheduled sends end in the last one.
Line(c) == Pending(c) \/ EndsIn(sched[c], LastPushed)

\* With none scheduled either, and no crossing, the peer shows the last push, or
\* will when the handler's own frames, which show nothing else, are out.
Shows(c, v) == Only(outq[c], v) /\ (Faceless(outq[c]) => screen[c] = v)
Shown(c) ==
  \/ Pending(c) \/ crossed[c] \/ pc[c] = "admit" \/ ~Faceless(sched[c])
  \/ Shows(c, LastPushed)

\* Replies are built on an empty queue; a handler that closes has closed its
\* socket.
Tidy(c) ==
  /\ pc[c] \in {"idle", "recv", "admit"} => outq[c] = <<>>
  /\ pc[c] \in {"closing", "done"} => c \notin live

Fresh(c) == Tidy(c) /\ (c \in live /\ admitted[c] => Line(c) /\ Shown(c))

\* The ticker pushes no face, and a hook between two pushes holds none.
Casting ==
  /\ ~IsFace(caster["ticker"].msg)
  /\ caster["hook"].at = "idle" => ~IsFace(caster["hook"].msg)

FInv == IInv /\ Casting /\ \A c \in Conns : Fresh(c)

\* What a queue still has to show, when its head leaves or a frame joins it.
LEMMA TailFaces ==
  ASSUME NEW s \in Seq(Frames), s # <<>>, NEW v
  PROVE  /\ Head(s) \in Frames
         /\ Only(s, v) => (IsFace(Head(s)) => Head(s).face = v) /\ Only(Tail(s), v)
         /\ EndsIn(s, v) => EndsIn(Tail(s), v)
         /\ EndsIn(s, v) /\ IsFace(Head(s)) /\ Faceless(Tail(s)) => Head(s).face = v
         /\ Faceless(s) <=> ~IsFace(Head(s)) /\ Faceless(Tail(s))
  <1>1. /\ Head(s) = s[1] /\ Len(Tail(s)) = Len(s) - 1 /\ Len(s) \in Nat \ {0}
        /\ \A i \in 1 .. Len(s) - 1 : Tail(s)[i] = s[i + 1]
        /\ s[1] \in Frames /\ Tail(s) \in Seq(Frames)
    OBVIOUS
  <1>2. \A i \in 2 .. Len(s) : i - 1 \in 1 .. Len(Tail(s)) /\ Tail(s)[i - 1] = s[i]
    BY <1>1
  <1>3. 1 \in 1 .. Len(s) /\ \A i \in 1 .. Len(s) : i = 1 \/ i \in 2 .. Len(s)
    BY <1>1
  <1>4. Only(s, v) => (IsFace(Head(s)) => Head(s).face = v) /\ Only(Tail(s), v)
    BY <1>1, <1>3 DEF Only
  <1>5. Faceless(s) <=> ~IsFace(Head(s)) /\ Faceless(Tail(s))
    <2>1. ASSUME Faceless(s) PROVE ~IsFace(Head(s)) /\ Faceless(Tail(s))
      <3>1. \A i \in 1 .. Len(Tail(s)) : i + 1 \in 1 .. Len(s) /\ Tail(s)[i] = s[i + 1]
        BY <1>1
      <3> QED
        BY <1>1, <1>3, <2>1, <3>1 DEF Faceless
    <2>2. ASSUME ~IsFace(Head(s)), Faceless(Tail(s)) PROVE Faceless(s)
      <3>1. ASSUME NEW i \in 1 .. Len(s) PROVE ~IsFace(s[i])
        <4>1. CASE i = 1
          BY <1>1, <2>2, <4>1
        <4>2. CASE i \in 2 .. Len(s)
          BY <1>2, <2>2, <4>2 DEF Faceless
        <4> QED
          BY <1>3, <4>1, <4>2
      <3> QED
        BY <3>1 DEF Faceless
    <2> QED
      BY <2>1, <2>2
  <1>6. ASSUME EndsIn(s, v), NEW i \in 1 .. Len(Tail(s)), IsFace(Tail(s)[i]),
               \A j \in 1 .. Len(Tail(s)) : j > i => ~IsFace(Tail(s)[j])
        PROVE  Tail(s)[i].face = v
    <2>1. i + 1 \in 1 .. Len(s) /\ s[i + 1] = Tail(s)[i]
      BY <1>1
    <2>2. ASSUME NEW j \in 1 .. Len(s), j > i + 1
          PROVE  ~IsFace(s[j])
      <3>1. j - 1 \in 1 .. Len(Tail(s)) /\ j - 1 > i /\ Tail(s)[j - 1] = s[j]
        BY <1>1, <1>2, <2>2
      <3> QED
        BY <1>6, <3>1
    <2>3. s[i + 1].face = v
      BY <1>6, <2>1, <2>2 DEF EndsIn
    <2> QED
      BY <2>1, <2>3
  <1>7. ASSUME EndsIn(s, v), IsFace(Head(s)), Faceless(Tail(s))
        PROVE  Head(s).face = v
    <2>1. \A j \in 1 .. Len(s) : j > 1 => ~IsFace(s[j])
      <3> SUFFICES ASSUME NEW j \in 1 .. Len(s), j > 1 PROVE ~IsFace(s[j])
        OBVIOUS
      <3>1. j \in 2 .. Len(s)
        OBVIOUS
      <3> QED
        BY <1>2, <1>7, <3>1 DEF Faceless
    <2> QED
      BY <1>1, <1>3, <1>7, <2>1 DEF EndsIn
  <1>8. EndsIn(s, v) => EndsIn(Tail(s), v)
    BY <1>6 DEF EndsIn
  <1> QED
    BY <1>1, <1>4, <1>5, <1>7, <1>8

LEMMA AppendFaces ==
  ASSUME NEW s \in Seq(Frames), NEW f \in Frames, NEW v
  PROVE  /\ IsFace(f) => EndsIn(Append(s, f), f.face) /\ ~Faceless(Append(s, f))
         /\ ~IsFace(f) /\ EndsIn(s, v) => EndsIn(Append(s, f), v)
         /\ ~IsFace(f) => (Faceless(Append(s, f)) <=> Faceless(s))
  <1> DEFINE t == Append(s, f)
  <1>1. /\ Len(t) = Len(s) + 1 /\ Len(s) \in Nat /\ t[Len(s) + 1] = f
        /\ \A i \in 1 .. Len(s) : t[i] = s[i]
    OBVIOUS
  <1> HIDE DEF t
  <1>2. Len(t) \in 1 .. Len(t) /\ \A i \in 1 .. Len(t) : i = Len(t) \/ i \in 1 .. Len(s)
    BY <1>1
  <1>3. \A i \in 1 .. Len(s) : i \in 1 .. Len(t) /\ Len(t) > i
    BY <1>1
  <1>4. ASSUME IsFace(f) PROVE EndsIn(t, f.face) /\ ~Faceless(t)
    <2>1. IsFace(t[Len(t)])
      BY <1>1, <1>4
    <2> QED
      BY <1>1, <1>2, <1>3, <2>1 DEF EndsIn, Faceless
  <1>5. ASSUME ~IsFace(f) PROVE Faceless(t) <=> Faceless(s)
    BY <1>1, <1>2, <1>3, <1>5 DEF Faceless
  <1>6. ASSUME ~IsFace(f), EndsIn(s, v) PROVE EndsIn(t, v)
    <2> SUFFICES ASSUME NEW i \in 1 .. Len(t), IsFace(t[i]),
                        \A j \in 1 .. Len(t) : j > i => ~IsFace(t[j])
                 PROVE  t[i].face = v
      BY DEF EndsIn
    <2>1. i \in 1 .. Len(s) /\ t[i] = s[i]
      BY <1>1, <1>2, <1>6
    <2>2. \A j \in 1 .. Len(s) : j > i => ~IsFace(s[j])
      BY <1>1, <1>3
    <2> QED
      BY <1>6, <2>1, <2>2 DEF EndsIn
  <1> QED
    BY <1>4, <1>5, <1>6 DEF t

LEMMA EmptyFaces == Faceless(<<>>) /\ \A v : Only(<<>>, v) /\ EndsIn(<<>>, v)
  BY DEF Faceless, Only, EndsIn

\* A reply shows the text of the view as it is, if it shows one.
LEMMA RepliesFaces ==
  ASSUME TypeOK, NEW c \in Conns, NEW r \in Requests, NEW mid \in BOOLEAN
  PROVE  Only(Replies(c, r, mid), face)
  <1>1. FaceNow.face = face /\ \A k : Frame(k).kind = k
    BY DEF Frame, FaceNow
  <1>2. \/ Dispatch(r) = <<>> \/ Dispatch(r) = <<FaceNow>>
        \/ \E k \in Kinds \ {"face_status"} : Dispatch(r) = <<Frame(k)>>
    BY DEF Dispatch, Requests, Kinds, UnitData
  <1>3. \/ Replies(c, r, mid) = Dispatch(r)
        \/ Replies(c, r, mid) = <<Frame("acknowledgment")>> \o Dispatch(r)
        \/ \E k \in Kinds \ {"face_status"} : Replies(c, r, mid) = <<Frame(k)>>
    BY DEF Replies, Kinds, UnitData, Requests
  <1>4. \A k \in Kinds \ {"face_status"} : ~IsFace(Frame(k))
    BY <1>1 DEF IsFace
  <1>5. ~IsFace(Frame("acknowledgment"))
    BY <1>1 DEF IsFace
  <1> QED
    BY <1>1, <1>2, <1>3, <1>4, <1>5 DEF Only

\* What a step of another connection leaves alone.
Kin(d) ==
  /\ pc'[d] = pc[d] /\ screen'[d] = screen[d] /\ outq'[d] = outq[d] /\ sched'[d] = sched[d]
  /\ admitted'[d] = admitted[d] /\ crossed'[d] = crossed[d] /\ (d \in live' => d \in live)

LEMMA FInvTypes ==
  ASSUME FInv, NEW d \in Conns
  PROVE  /\ TypeOK /\ Sound(d) /\ Fresh(d) /\ Casting
         /\ outq[d] \in Seq(Frames) /\ sched[d] \in Seq(Frames)
         /\ "hook" \in Casters /\ "ticker" \in Casters
         /\ caster["hook"].msg \in Frames
  <1>1. TypeOK /\ Sound(d) /\ Fresh(d) /\ Casting /\ "hook" \in Casters /\ "ticker" \in Casters
    BY DEF FInv, IInv, Casters
  <1> QED
    BY <1>1 DEF TypeOK

LEMMA KinFresh ==
  ASSUME FInv, NEW d \in Conns, Kin(d), UNCHANGED <<lastFace, caster>>
  PROVE  Fresh(d)'
  <1>1. /\ Pending(d)' <=> Pending(d)
        /\ LastPushed' = LastPushed
    BY DEF Pending, LastPushed
  <1>2. Shows(d, LastPushed)' <=> Shows(d, LastPushed)
    BY <1>1 DEF Shows, Kin
  <1> QED
    BY <1>1, <1>2, FInvTypes DEF Fresh, Tidy, Line, Shown, Kin

\* A connection whose scheduled sends are as they were keeps its line.
LEMMA LineKept ==
  ASSUME FInv, NEW c \in Conns, c \in live /\ admitted[c], sched'[c] = sched[c],
         UNCHANGED <<lastFace, caster>>
  PROVE  /\ Line(c)' /\ LastPushed' = LastPushed
         /\ Pending(c)' <=> Pending(c)
         /\ Faceless(sched'[c]) <=> Faceless(sched[c])
  <1>1. LastPushed' = LastPushed /\ (Pending(c)' <=> Pending(c))
    BY DEF LastPushed, Pending
  <1> QED
    BY <1>1, FInvTypes DEF Fresh, Line

\* A socket that is closed needs nothing more.
LEMMA CloseFresh ==
  ASSUME FInv, NEW c \in Conns, NEW d \in Conns, CloseSocket(c),
         UNCHANGED <<admitted, outq, sched, screen, crossed, lastFace, caster>>
  PROVE  Fresh(d)'
  <1>1. CASE d = c
    <2>1. pc'[c] = "closing" /\ c \notin live'
      BY FInvTypes DEF CloseSocket, TypeOK
    <2> QED
      BY <1>1, <2>1 DEF Fresh, Tidy
  <1>2. CASE d # c
    <2>1. Kin(d)
      BY <1>2, FInvTypes DEF CloseSocket, TypeOK, Kin
    <2> QED
      BY <2>1, KinFresh
  <1> QED
    BY <1>1, <1>2

LEMMA ConnectFresh ==
  ASSUME FInv, NEW c \in Conns, NEW d \in Conns, Connect(c)
  PROVE  Fresh(d)'
  <1>1. /\ UNCHANGED <<outq, sched, screen, crossed, lastFace, caster>> /\ pc[c] = "idle"
        /\ live' = live \cup {c}
    BY DEF Connect, peerVars, castVars
  <1>2. CASE d # c
    <2>1. Kin(d)
      BY <1>1, <1>2, FInvTypes DEF Connect, TypeOK, Kin
    <2> QED
      BY <1>1, <2>1, KinFresh
  <1>3. CASE d = c
    <2>1. outq'[c] = <<>> /\ ~admitted[c] /\ sched'[c] = <<>>
      BY <1>1, FInvTypes DEF Fresh, Tidy, Sound, Stages, Channels
    <2>2. \/ pc'[c] = "recv" /\ ~admitted'[c]
          \/ pc'[c] = "admit"
      <3>1. CASE TokenSet
        BY <2>1, <3>1, FInvTypes DEF Connect, TypeOK
      <3>2. CASE ~TokenSet
        BY <3>2, FInvTypes DEF Connect, TypeOK
      <3> QED
        BY <3>1, <3>2
    <2>3. EndsIn(sched'[c], LastPushed')
      BY <2>1, EmptyFaces
    <2> QED
      BY <1>3, <2>1, <2>2, <2>3 DEF Fresh, Tidy, Line, Shown
  <1> QED
    BY <1>2, <1>3

\* What the handler builds from the view now is the last push or crosses it.
LEMMA BuiltFresh ==
  ASSUME FInv, NEW c \in Conns, NEW s \in Seq(Frames), Only(s, face), Builds(c, s),
         outq[c] = <<>>, outq'[c] = s, screen'[c] = screen[c], sched'[c] = sched[c],
         UNCHANGED <<live, admitted, lastFace, caster>>,
         pc[c] = "recv" \/ ~Faceless(s), pc'[c] = "send", pc[c] # "closing"
  PROVE  Fresh(c)'
  <1>1. Tidy(c)'
    BY DEF Tidy
  <1> SUFFICES ASSUME c \in live, admitted[c]
               PROVE  Line(c)' /\ Shown(c)'
    BY <1>1 DEF Fresh
  <1>2. /\ Line(c)' /\ LastPushed' = LastPushed /\ (Pending(c)' <=> Pending(c))
        /\ Faceless(sched'[c]) <=> Faceless(sched[c])
    BY LineKept
  <1>3. Shown(c)
    BY FInvTypes DEF Fresh
  <1>4. CASE Faceless(s)
    <2>1. crossed'[c] = crossed[c] /\ Only(s, LastPushed)
      BY <1>4 DEF Builds, Faceless, Only
    <2>2. Shows(c, LastPushed) => screen[c] = LastPushed
      BY EmptyFaces DEF Shows
    <2> QED
      BY <1>2, <1>3, <1>4, <2>1, <2>2 DEF Shown, Shows
  <1>5. CASE ~Faceless(s)
    <2>1. crossed'[c] = (face # LastPushed)
      BY <1>5, FInvTypes DEF Builds, Faceless, TypeOK
    <2> QED
      BY <1>2, <1>5, <2>1 DEF Shown, Shows
  <1> QED
    BY <1>4, <1>5

LEMMA RecvFresh ==
  ASSUME FInv, NEW c \in Conns, NEW d \in Conns, NEW r \in Asks, NEW mid \in BOOLEAN,
         Recv(c, r, mid)
  PROVE  Fresh(d)'
  <1>1. /\ UNCHANGED <<admitted, sched, screen, lastFace, caster>>
        /\ pc[c] = "recv" /\ c \in live
    BY DEF Recv, peerVars, castVars
  <1>2. CASE Expired(c)
    BY <1>1, <1>2, CloseFresh DEF Recv
  <1>3. CASE ~Expired(c)
    <2>1. /\ pc' = [pc EXCEPT ![c] = "send"] /\ live' = live
          /\ outq' = [outq EXCEPT ![c] = Replies(c, r, mid)]
          /\ Builds(c, Replies(c, r, mid))
      BY <1>3 DEF Recv
    <2>2. CASE d # c
      <3>1. Kin(d)
        BY <1>1, <2>1, <2>2, FInvTypes DEF TypeOK, Kin, Builds
      <3> QED
        BY <1>1, <3>1, KinFresh
    <2>3. CASE d = c
      <3>1. pc'[c] = "send" /\ outq'[c] = Replies(c, r, mid) /\ outq[c] = <<>>
        BY <1>1, <2>1, FInvTypes DEF TypeOK, Fresh, Tidy
      <3>2. r \in Requests
        BY ConnectionsAssumption DEF ConnectionsAssumption
      <3>3. Only(Replies(c, r, mid), face) /\ Replies(c, r, mid) \in Seq(Frames)
        BY <3>2, FInvTypes, RepliesFaces, RepliesType
      <3> QED
        BY <1>1, <2>1, <2>3, <3>1, <3>3, BuiltFresh
    <2> QED
      BY <2>2, <2>3
  <1> QED
    BY <1>2, <1>3

LEMMA BurstFresh ==
  ASSUME FInv, NEW c \in Conns, NEW d \in Conns, BuildBurst(c)
  PROVE  Fresh(d)'
  <1> DEFINE burst == <<Frame("stats"), Frame("access_points"), FaceNow>>
  <1>1. /\ UNCHANGED <<admitted, sched, screen, lastFace, caster>> /\ pc[c] = "admit"
    BY DEF BuildBurst, peerVars, castVars
  <1>2. CASE CloseSocket(c) /\ UNCHANGED <<outq, crossed>>
    BY <1>1, <1>2, CloseFresh
  <1>3. CASE /\ outq' = [outq EXCEPT ![c] = burst] /\ Builds(c, burst)
             /\ pc' = [pc EXCEPT ![c] = "send"] /\ live' = live
    <2>1. CASE d # c
      <3>1. Kin(d)
        BY <1>1, <1>3, <2>1, FInvTypes DEF TypeOK, Kin, Builds
      <3> QED
        BY <1>1, <3>1, KinFresh
    <2>2. CASE d = c
      <3>1. Len(burst) = 3 /\ burst[3] = FaceNow /\ ~IsFace(burst[1]) /\ ~IsFace(burst[2])
        BY DEF Frame, IsFace
      <3>2. IsFace(FaceNow) /\ FaceNow.face = face
        BY DEF FaceNow, IsFace
      <3>3. burst \in Seq(Frames)
        BY FInvTypes, FrameType, FaceNowType DEF Kinds, UnitData
      <3>4. pc'[c] = "send" /\ outq'[c] = burst /\ outq[c] = <<>>
        BY <1>1, <1>3, FInvTypes DEF TypeOK, Fresh, Tidy
      <3> HIDE DEF burst
      <3>5. Only(burst, face) /\ ~Faceless(burst)
        <4>1. 3 \in 1 .. Len(burst) /\ \A i \in 1 .. Len(burst) : i \in {1, 2, 3}
          BY <3>1
        <4> QED
          BY <3>1, <3>2, <4>1 DEF Only, Faceless
      <3> QED
        BY <1>1, <1>3, <2>2, <3>3, <3>4, <3>5, BuiltFresh
    <2> QED
      BY <2>1, <2>2
  <1> QED
    BY <1>2, <1>3 DEF BuildBurst

LEMMA SendFresh ==
  ASSUME FInv, NEW c \in Conns, NEW d \in Conns, SendNext(c)
  PROVE  Fresh(d)'
  <1>1. /\ UNCHANGED <<admitted, sched, crossed, lastFace, caster>>
        /\ pc[c] = "send" /\ outq[c] # <<>>
    BY DEF SendNext, castVars
  <1>2. CASE c \notin live
    BY <1>1, <1>2, CloseFresh DEF SendNext, peerVars
  <1>3. CASE c \in live
    <2>1. /\ UNCHANGED <<pc, live>> /\ outq' = [outq EXCEPT ![c] = Tail(outq[c])]
          /\ screen' = [screen EXCEPT ![c] = IF IsFace(Head(outq[c])) THEN Head(outq[c]).face
                                             ELSE screen[c]]
      BY <1>3 DEF SendNext, Deliver
    <2>2. CASE d # c
      <3>1. Kin(d)
        BY <1>1, <2>1, <2>2, FInvTypes DEF TypeOK, Kin
      <3> QED
        BY <1>1, <3>1, KinFresh
    <2>3. CASE d = c
      <3>1. /\ outq'[c] = Tail(outq[c])
            /\ screen'[c] = IF IsFace(Head(outq[c])) THEN Head(outq[c]).face ELSE screen[c]
        BY <2>1, FInvTypes DEF TypeOK
      <3>2. Tidy(c)'
        BY <1>1, <1>3, <2>1 DEF Tidy
      <3>3. ASSUME admitted[c] PROVE Line(c)' /\ Shown(c)'
        <4>1. /\ Line(c)' /\ LastPushed' = LastPushed /\ (Pending(c)' <=> Pending(c))
              /\ Faceless(sched'[c]) <=> Faceless(sched[c])
          BY <1>1, <1>3, <3>3, LineKept
        <4>2. Shown(c)
          BY <1>3, <3>3, FInvTypes DEF Fresh
        <4>3. Shows(c, LastPushed) => Shows(c, LastPushed)'
          BY <1>1, <3>1, <4>1, FInvTypes, TailFaces DEF Shows
        <4> QED
          BY <1>1, <2>1, <4>1, <4>2, <4>3 DEF Shown
      <3> QED
        BY <1>1, <2>1, <2>3, <3>2, <3>3 DEF Fresh
    <2> QED
      BY <2>2, <2>3
  <1> QED
    BY <1>2, <1>3

LEMMA AfterFresh ==
  ASSUME FInv, NEW c \in Conns, NEW d \in Conns, AfterReplies(c)
  PROVE  Fresh(d)'
  <1>1. /\ UNCHANGED <<outq, sched, screen, crossed, lastFace, caster>>
        /\ pc[c] = "send" /\ outq[c] = <<>>
    BY DEF AfterReplies, peerVars, castVars
  <1>2. CASE hangup[c]
    BY <1>1, <1>2, CloseFresh DEF AfterReplies
  <1>3. CASE ~hangup[c]
    <2>1. \/ /\ pc' = [pc EXCEPT ![c] = "admit"] /\ admitted' = [admitted EXCEPT ![c] = TRUE]
             /\ ~admitted[c]
          \/ pc' = [pc EXCEPT ![c] = "recv"] /\ admitted' = admitted
      BY <1>3 DEF AfterReplies
    <2>2. live' = live
      BY <1>3 DEF AfterReplies
    <2>3. CASE d # c
      <3>1. Kin(d)
        BY <1>1, <2>1, <2>2, <2>3, FInvTypes DEF TypeOK, Kin
      <3> QED
        BY <1>1, <3>1, KinFresh
    <2>4. CASE d = c
      <3>1. \/ pc'[c] = "admit" /\ ~admitted[c]
            \/ pc'[c] = "recv" /\ admitted'[c] = admitted[c]
        BY <2>1, FInvTypes DEF TypeOK
      <3>2. Tidy(c)'
        BY <1>1, <3>1 DEF Tidy
      <3>3. CASE pc'[c] = "admit" /\ ~admitted[c]
        <4>1. sched'[c] = <<>>
          BY <1>1, <3>3, FInvTypes DEF Sound, Channels
        <4>2. EndsIn(sched'[c], LastPushed')
          BY <4>1, EmptyFaces
        <4> QED
          BY <2>4, <3>2, <3>3, <4>2 DEF Fresh, Line, Shown
      <3>4. CASE pc'[c] = "recv" /\ admitted'[c] = admitted[c]
        <4>1. ASSUME c \in live, admitted[c] PROVE Line(c)' /\ Shown(c)'
          <5>1. /\ Line(c)' /\ LastPushed' = LastPushed /\ (Pending(c)' <=> Pending(c))
            BY <1>1, <4>1, LineKept
          <5>2. Shown(c)
            BY <4>1, FInvTypes DEF Fresh
          <5> QED
            BY <1>1, <5>1, <5>2 DEF Shown, Shows
        <4> QED
          BY <2>2, <2>4, <3>2, <3>4, <4>1 DEF Fresh
      <3> QED
        BY <3>1, <3>3, <3>4
    <2> QED
      BY <2>3, <2>4
  <1> QED
    BY <1>2, <1>3

LEMMA FinishFresh ==
  ASSUME FInv, NEW c \in Conns, NEW d \in Conns, Finish(c)
  PROVE  Fresh(d)'
  <1>1. /\ UNCHANGED <<live, admitted, outq, sched, screen, crossed, lastFace, caster>>
        /\ pc[c] = "closing" /\ pc' = [pc EXCEPT ![c] = "done"]
    BY DEF Finish, peerVars, castVars
  <1>2. CASE d # c
    <2>1. Kin(d)
      BY <1>1, <1>2, FInvTypes DEF TypeOK, Kin
    <2> QED
      BY <1>1, <2>1, KinFresh
  <1>3. CASE d = c
    <2>1. pc'[c] = "done" /\ c \notin live'
      BY <1>1, FInvTypes DEF TypeOK, Fresh, Tidy
    <2> QED
      BY <1>3, <2>1 DEF Fresh, Tidy
  <1> QED
    BY <1>2, <1>3

\* The last face that was scheduled settles what the peer shows, unless one of
\* the handler's own is still to come and differs.
LEMMA LoopSendsFresh ==
  ASSUME FInv, NEW c \in Conns, NEW d \in Conns, LoopSends(c)
  PROVE  Fresh(d)'
  <1> DEFINE f == Head(sched[c])
  <1>1. /\ UNCHANGED <<pc, live, admitted, outq, lastFace, caster>>
        /\ sched[c] # <<>> /\ sched' = [sched EXCEPT ![c] = Tail(sched[c])]
    BY DEF LoopSends, connVars, castVars
  <1>2. /\ c \in live => Overtakes(c, f) /\ screen' = [screen EXCEPT ![c] =
                           IF IsFace(f) THEN f.face ELSE screen[c]]
        /\ c \notin live => UNCHANGED <<screen, crossed>>
    BY DEF LoopSends, Deliver, peerVars
  <1>3. CASE d # c
    <2>1. Kin(d)
      BY <1>1, <1>2, <1>3, FInvTypes DEF TypeOK, Kin, Overtakes
    <2> QED
      BY <1>1, <2>1, KinFresh
  <1>4. CASE d = c
    <2>1. sched'[c] = Tail(sched[c])
      BY <1>1, FInvTypes DEF TypeOK
    <2>2. Tidy(c)'
      BY <1>1, FInvTypes DEF Fresh, Tidy
    <2>3. ASSUME c \in live, admitted[c] PROVE Line(c)' /\ Shown(c)'
      <3>1. /\ LastPushed' = LastPushed /\ (Pending(c)' <=> Pending(c))
            /\ Line(c) /\ Shown(c)
        BY <1>1, <2>3, FInvTypes DEF LastPushed, Pending, Fresh
      <3>2. EndsIn(sched[c], LastPushed) => EndsIn(sched'[c], LastPushed)
        BY <1>1, <2>1, FInvTypes, TailFaces
      <3>3. Line(c)'
        BY <3>1, <3>2 DEF Line
      <3>4. CASE IsFace(f)
        <4>1. /\ screen'[c] = f.face
              /\ crossed'[c] = \E i \in DOMAIN outq[c] : IsFace(outq[c][i]) /\ outq[c][i].face # f.face
          BY <1>2, <2>3, <3>4, FInvTypes DEF Overtakes, TypeOK
        <4>2. ~crossed'[c] => Only(outq'[c], f.face)
          BY <1>1, <4>1, FInvTypes DEF Only
        <4>3. Faceless(sched'[c]) /\ ~Pending(c) => f.face = LastPushed
          BY <1>1, <2>1, <3>1, <3>4, FInvTypes, TailFaces DEF Line
        <4> QED
          BY <3>1, <3>3, <4>1, <4>2, <4>3 DEF Shown, Shows
      <3>5. CASE ~IsFace(f)
        <4>1. screen'[c] = screen[c] /\ crossed'[c] = crossed[c]
          BY <1>2, <2>3, <3>5, FInvTypes DEF Overtakes, TypeOK
        <4>2. Faceless(sched'[c]) => Faceless(sched[c])
          BY <1>1, <2>1, <3>5, FInvTypes, TailFaces
        <4> QED
          BY <1>1, <3>1, <3>3, <4>1, <4>2 DEF Shown, Shows
      <3> QED
        BY <3>4, <3>5
    <2> QED
      BY <1>1, <1>4, <2>2, <2>3 DEF Fresh
  <1> QED
    BY <1>3, <1>4

\* The targets of a push are all the clients there are.
LEMMA SnapshotFresh ==
  ASSUME FInv, NEW b \in Casters, NEW d \in Conns, Snapshot(b)
  PROVE  Fresh(d)'
  <1>1. UNCHANGED <<pc, screen, crossed, outq, sched, admitted, live, lastFace>>
    BY DEF Snapshot, connVars, peerVars
  <1>2. /\ caster'["hook"].msg = caster["hook"].msg
        /\ b = "hook" => caster'["hook"].to = clients
        /\ b # "hook" => caster'["hook"] = caster["hook"]
    BY FInvTypes DEF Snapshot, TypeOK
  <1>3. LastPushed' = LastPushed
    BY <1>1, <1>2 DEF LastPushed
  <1>4. ASSUME d \in live, admitted[d] PROVE Line(d)' /\ Shown(d)'
    <2>1. d \in clients
      BY <1>4, FInvTypes DEF Fresh, Tidy, Sound, Membership
    <2>2. Line(d) /\ Shown(d)
      BY <1>4, FInvTypes DEF Fresh
    <2>3. Pending(d) => Pending(d)'
      BY <1>2, <2>1 DEF Pending
    <2> QED
      BY <1>1, <1>3, <2>2, <2>3 DEF Line, Shown, Shows
  <1> QED
    BY <1>1, <1>4, FInvTypes DEF Fresh, Tidy

LEMMA ScheduleFresh ==
  ASSUME FInv, NEW b \in Casters, NEW c \in Conns, NEW d \in Conns, Schedule(b, c)
  PROVE  Fresh(d)'
  <1> DEFINE f == caster[b].msg
  <1>1. /\ UNCHANGED <<pc, screen, crossed, outq, admitted, live, lastFace>>
        /\ sched' = [sched EXCEPT ![c] = Append(sched[c], f)]
        /\ f \in Frames
    BY FInvTypes DEF Schedule, connVars, peerVars, TypeOK
  <1>2. /\ caster'["hook"].at = caster["hook"].at /\ caster'["hook"].msg = caster["hook"].msg
        /\ caster["hook"].to \subseteq caster'["hook"].to \cup {c}
        /\ b # "hook" => caster'["hook"] = caster["hook"]
    BY FInvTypes DEF Schedule, TypeOK
  <1>3. b # "hook" => ~IsFace(f)
    BY FInvTypes DEF Casting, Casters
  <1>4. LastPushed' = LastPushed
    BY <1>1, <1>2 DEF LastPushed
  <1>5. Tidy(d)'
    BY <1>1, FInvTypes DEF Fresh, Tidy
  <1>6. ASSUME d \in live, admitted[d] PROVE Line(d)' /\ Shown(d)'
    <2>1. Line(d) /\ Shown(d)
      BY <1>6, FInvTypes DEF Fresh
    <2>2. CASE d # c
      <3>1. sched'[d] = sched[d] /\ (Pending(d) => Pending(d)')
        BY <1>1, <1>2, <2>2, FInvTypes DEF TypeOK, Pending
      <3> QED
        BY <1>1, <1>4, <2>1, <3>1 DEF Line, Shown, Shows
    <2>3. CASE d = c /\ IsFace(f)
      <3>1. sched'[c] = Append(sched[c], f) /\ f.face = LastPushed
        BY <1>1, <1>3, <2>3, FInvTypes DEF TypeOK, LastPushed
      <3>2. EndsIn(sched'[c], LastPushed) /\ ~Faceless(sched'[c])
        BY <1>1, <2>3, <3>1, FInvTypes, AppendFaces
      <3> QED
        BY <1>4, <2>3, <3>2 DEF Line, Shown
    <2>4. CASE d = c /\ ~IsFace(f)
      <3>1. sched'[c] = Append(sched[c], f)
        BY <1>1, FInvTypes DEF TypeOK
      <3>2. /\ EndsIn(sched[c], LastPushed) => EndsIn(sched'[c], LastPushed)
            /\ Faceless(sched'[c]) <=> Faceless(sched[c])
        <4>1. sched[c] \in Seq(Frames) /\ f \in Frames /\ ~IsFace(f)
          BY <1>1, <2>4, FInvTypes
        <4> QED
          BY <3>1, <4>1, AppendFaces
      <3>3. Pending(c) => Pending(c)'
        BY <1>2, <2>4 DEF Pending
      <3> QED
        BY <1>1, <1>4, <2>1, <2>4, <3>2, <3>3 DEF Line, Shown, Shows
    <2> QED
      BY <2>2, <2>3, <2>4
  <1> QED
    BY <1>1, <1>5, <1>6 DEF Fresh

\* A push that has no target left is pending for nobody.
LEMMA ReturnsFresh ==
  ASSUME FInv, NEW b \in Casters, NEW d \in Conns, BroadcastReturns(b)
  PROVE  Fresh(d)'
  <1>1. UNCHANGED <<pc, screen, crossed, outq, sched, admitted, live>>
    BY DEF BroadcastReturns, connVars, peerVars
  <1>2. /\ b = "hook" => ~IsFace(caster'["hook"].msg)
        /\ b # "hook" => caster'["hook"] = caster["hook"] /\ lastFace' = lastFace
    BY FInvTypes DEF BroadcastReturns, Begin, Idle, TypeOK, Casting, Casters, Frame, IsFace
  <1>3. LastPushed' = LastPushed
    BY <1>2 DEF LastPushed, BroadcastReturns
  <1>4. Pending(d) => Pending(d)'
    BY <1>2 DEF Pending, BroadcastReturns
  <1>5. ASSUME d \in live, admitted[d] PROVE Line(d)' /\ Shown(d)'
    <2>1. Line(d) /\ Shown(d)
      BY <1>5, FInvTypes DEF Fresh
    <2> QED
      BY <1>1, <1>3, <1>4, <2>1 DEF Line, Shown, Shows
  <1> QED
    BY <1>1, <1>5, FInvTypes DEF Fresh, Tidy

\* A push of a face that begins has still to reach everyone; another changes
\* nothing of the face.
LEMMA BeginFresh ==
  ASSUME FInv, NEW d \in Conns, OnUiUpdate \/ OnOtherHook \/ TickerWakes
  PROVE  Fresh(d)'
  <1>1. UNCHANGED <<pc, screen, outq, sched, admitted, live, lastFace>>
    BY DEF OnUiUpdate, OnOtherHook, TickerWakes, connVars, peerVars
  <1>2. Tidy(d)'
    BY <1>1, FInvTypes DEF Fresh, Tidy
  <1>3. CASE OnUiUpdate
    <2>1. Pending(d)'
      BY <1>3, FInvTypes DEF OnUiUpdate, Begin, TypeOK, Pending, FaceNow, IsFace
    <2> QED
      BY <1>2, <2>1 DEF Fresh, Line, Shown
  <1>4. CASE OnOtherHook \/ TickerWakes
    <2>1. crossed' = crossed
      BY <1>4 DEF OnOtherHook, TickerWakes
    <2>2. \/ caster'["hook"] = caster["hook"]
          \/ ~IsFace(caster["hook"].msg) /\ ~IsFace(caster'["hook"].msg)
      BY <1>4, FInvTypes DEF OnOtherHook, TickerWakes, Begin, TypeOK, Casting, Frame, IsFace
    <2>3. LastPushed' = LastPushed /\ (Pending(d)' <=> Pending(d))
      BY <1>1, <2>2 DEF LastPushed, Pending
    <2> QED
      BY <1>1, <1>2, <2>1, <2>3, FInvTypes DEF Fresh, Line, Shown, Shows
  <1> QED
    BY <1>3, <1>4

LEMMA CastingStep ==
  ASSUME FInv, Next
  PROVE  Casting'
  <1>1. TypeOK /\ Casting /\ "hook" \in Casters /\ "ticker" \in Casters
    BY DEF FInv, IInv, Casters
  <1>2. \A k : k # "face_status" => ~IsFace(Frame(k))
    BY DEF Frame, IsFace
  <1>3. ASSUME NEW b \in Casters, Cast(b) PROVE Casting'
    <2>1. CASE Snapshot(b) \/ \E c \in Conns : Schedule(b, c)
      <3>1. /\ \A e \in Casters : caster'[e].msg = caster[e].msg
            /\ caster'["hook"].at = "idle" => caster["hook"].at = "idle"
        <4>1. CASE Snapshot(b)
          BY <1>1, <4>1 DEF Snapshot, TypeOK
        <4>2. ASSUME NEW c \in Conns, Schedule(b, c)
              PROVE  /\ \A e \in Casters : caster'[e].msg = caster[e].msg
                     /\ caster'["hook"].at = "idle" => caster["hook"].at = "idle"
          BY <1>1, <4>2 DEF Schedule, TypeOK
        <4> QED
          BY <2>1, <4>1, <4>2
      <3> QED
        BY <1>1, <3>1 DEF Casting, IsFace
    <2>2. CASE BroadcastReturns(b)
      <3>1. \A e \in Casters :
              caster'[e] = caster[e] \/ caster'[e].msg \in {Frame("stats"), Frame("push")}
        BY <1>1, <2>2 DEF BroadcastReturns, Begin, Idle, TypeOK
      <3> QED
        BY <1>1, <1>2, <3>1 DEF Casting, IsFace
    <2> QED
      BY <1>3, <2>1, <2>2 DEF Cast
  <1>4. CASE OnUiUpdate \/ OnOtherHook \/ TickerWakes
    <2>1. /\ caster'["hook"] = caster["hook"] \/ caster'["hook"].at = "snapshot"
          /\ caster'["ticker"] = caster["ticker"] \/ caster'["ticker"].msg = Frame("keepalive")
      BY <1>1, <1>4 DEF OnUiUpdate, OnOtherHook, TickerWakes, Begin, TypeOK, Casters
    <2> QED
      BY <1>1, <1>2, <2>1 DEF Casting, IsFace
  <1>5. CASE \/ ViewChanges \/ RestartRuns \/ Tick \/ ClockStepsBack
             \/ \E c \in Conns : Handler(c) \/ Peer(c)
    <2>1. UNCHANGED caster
      BY <1>5 DEF ViewChanges, RestartRuns, Tick, ClockStepsBack, Handler, Coroutine, Peer, PollExpires,
         SendNext, AfterReplies, BuildBurst, RecvClosed, Finish, LoopSends, Connect, PeerDrops,
         Recv, castVars
    <2> QED
      BY <1>1, <2>1 DEF Casting, IsFace
  <1> QED
    BY <1>3, <1>4, <1>5 DEF Next

LEMMA FreshStep ==
  ASSUME FInv, Next, NEW d \in Conns
  PROVE  Fresh(d)'
  <1>1. ASSUME NEW c \in Conns, Handler(c) PROVE Fresh(d)'
    <2>1. CASE PollExpires(c) \/ RecvClosed(c)
      <3>1. CloseSocket(c) /\ UNCHANGED <<admitted, outq, sched, screen, crossed, lastFace, caster>>
        BY <2>1 DEF PollExpires, RecvClosed, peerVars, castVars
      <3> QED
        BY <3>1, CloseFresh
    <2> QED
      BY <1>1, <2>1, SendFresh, AfterFresh, BurstFresh, FinishFresh, LoopSendsFresh DEF Handler, Coroutine
  <1>2. ASSUME NEW c \in Conns, Peer(c) PROVE Fresh(d)'
    <2>1. CASE PeerDrops(c)
      <3>1. Kin(d) /\ UNCHANGED <<lastFace, caster>>
        BY <2>1 DEF PeerDrops, connVars, peerVars, castVars, Kin
      <3> QED
        BY <3>1, KinFresh
    <2> QED
      BY <1>2, <2>1, ConnectFresh, RecvFresh DEF Peer
  <1>3. ASSUME NEW b \in Casters, Cast(b) PROVE Fresh(d)'
    BY <1>3, SnapshotFresh, ReturnsFresh, ScheduleFresh DEF Cast
  <1>4. CASE ViewChanges \/ RestartRuns \/ Tick \/ ClockStepsBack
    <2>1. Kin(d) /\ UNCHANGED <<lastFace, caster>>
      BY <1>4 DEF ViewChanges, RestartRuns, Tick, ClockStepsBack, connVars, peerVars, castVars, Kin
    <2> QED
      BY <2>1, KinFresh
  <1> QED
    BY <1>1, <1>2, <1>3, <1>4, BeginFresh DEF Next

LEMMA FInvInit == Init => FInv
  <1> SUFFICES ASSUME Init
               PROVE  FInv
    OBVIOUS
  <1>1. Casting
    BY DEF Init, Casting, Idle, Frame, Casters, IsFace
  <1>2. ASSUME NEW c \in Conns PROVE Fresh(c)
    BY DEF Init, Fresh, Tidy
  <1> QED
    BY <1>1, <1>2, InvInit DEF FInv

LEMMA FInvStep == FInv /\ [Next]_vars => FInv'
  <1>1. ASSUME FInv, UNCHANGED vars PROVE FInv'
    <2>1. IInv'
      BY <1>1, InvStep DEF FInv
    <2>2. Casting'
      BY <1>1 DEF FInv, Casting, vars, castVars
    <2>3. ASSUME NEW d \in Conns PROVE Fresh(d)'
      <3>1. Kin(d) /\ UNCHANGED <<lastFace, caster>>
        BY <1>1 DEF vars, connVars, peerVars, castVars, Kin
      <3> QED
        BY <1>1, <3>1, KinFresh
    <2> QED
      BY <2>1, <2>2, <2>3 DEF FInv
  <1>2. ASSUME FInv, Next PROVE FInv'
    <2>1. IInv'
      BY <1>2, InvStep DEF FInv
    <2> QED
      BY <1>2, <2>1, CastingStep, FreshStep DEF FInv
  <1> QED
    BY <1>1, <1>2

\* A client that joins while the face is being pushed, from the hook thread, to
\* those who were there, is not left with the one before: once nothing is on its
\* way and the view shows what was pushed last, so does the client, unless the
\* face its own handler built last crossed that push.
THEOREM FacesArrive == Spec => []NoFaceMissed
  <1>1. FInv => NoFaceMissed
    <2> SUFFICES ASSUME FInv, NEW c \in live, admitted[c], Quiet(c), lastFace = face, ~crossed[c]
                 PROVE  screen[c] = face
      BY DEF NoFaceMissed
    <2>1. c \in Conns
      BY DEF FInv, IInv, TypeOK
    <2>2. Fresh(c) /\ ~IsFace(caster["hook"].msg)
      BY <2>1, FInvTypes DEF Casting, Quiet
    <2>3. outq[c] = <<>> /\ sched[c] = <<>> /\ pc[c] = "recv"
      BY <2>2 DEF Quiet, Fresh, Tidy
    <2>4. ~Pending(c) /\ LastPushed = face
      BY <2>2 DEF Pending, LastPushed
    <2>5. Shows(c, face)
      BY <2>2, <2>3, <2>4, EmptyFaces DEF Fresh, Shown
    <2> QED
      BY <2>3, <2>5, EmptyFaces DEF Shows
  <1> QED
    BY <1>1, FInvInit, FInvStep, PTL DEF Spec
=============================================================================
