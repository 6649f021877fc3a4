------------------------------ MODULE WsClient ------------------------------
(***************************************************************************)
(* createWsClient of frontend/src/lib/ws.ts: the connection state machine, *)
(* its five timers, the outbound queue and the heartbeat, against a unit   *)
(* that admits, refuses, restarts or falls silent.                         *)
(*                                                                         *)
(* The page runs one callback at a time, so each callback is an action.    *)
(* The client's variables are one record, and a function of the source is  *)
(* an operator from record to record: the calls it makes are compositions. *)
(* Durations are not modelled: an armed timer may fire, in any order.      *)
(***************************************************************************)
EXTENDS Naturals, FiniteSets

CONSTANTS
  Reads,        \* the message_ids of read requests
  Commands,     \* the message_ids of state commands
  Sockets,      \* identities for sockets, reused once a socket is discarded
  NoSocket,     \* null
  MaxConnects,  \* bound: calls of connect() and changes of the token
  MaxFaults     \* bound: drops, silences, throws, restarts, late answers

ASSUME WsClientAssumption ==
  /\ Sockets # {} /\ NoSocket \notin Sockets /\ Reads \cap Commands = {}
  /\ MaxConnects \in Nat /\ MaxFaults \in Nat

VARIABLES
  client,    \* what createWsClient closes over
  required,  \* does the unit have a token configured?
  token,     \* the effective token: "none", "right" or "wrong"
  used,      \* message_ids handed out
  connects, faults

vars == <<client, required, token, used, connects, faults>>

Live == {"connected", "degraded"}

\* A link is the far end of a socket, and what the unit has said and heard
\* on it. "silent" is a half-open socket: nothing arrives any more.
FreeLink == [at |-> "free", auth |-> "none", acked |-> FALSE, owed |-> FALSE]

Attached(c) == {s \in Sockets : c.links[s].at # "free"}

-----------------------------------------------------------------------------
(* Heartbeat, queue and teardown *)

Arm(c) == IF c.beating THEN c ELSE [c EXCEPT !.beating = TRUE, !.ping = TRUE]

\* Mutant of Disarm: the flag is left behind.
DisarmKeepsFlag(c) == [c EXCEPT !.ping = FALSE, !.pong = FALSE]

Disarm(c) == [c EXCEPT !.beating = FALSE, !.ping = FALSE, !.pong = FALSE]

\* setState. An admission clears the last error; leaving "restarting" clears
\* the patience timer.
SetState(c, next) ==
  LET d == [c EXCEPT !.state = next, !.patience = @ /\ next = "restarting"]
  IN CASE next \in Live /\ c.state \notin Live -> Arm([d EXCEPT !.error = "none"])
       [] next \in Live /\ c.state \in Live    -> Arm(d)
       [] next \notin Live /\ c.state \in Live -> Disarm(d)
       [] next \notin Live /\ c.state \notin Live -> d

\* Mutant of Flush: the queue is sent as soon as there is a socket.
FlushEarly(c) ==
  IF c.current # NoSocket
  THEN [c EXCEPT !.wire = @ \cup (c.queue \cap c.reads), !.queue = {}] ELSE c

\* flushQueue: what is still pending goes out on the current socket.
Flush(c) ==
  IF c.ready /\ c.current # NoSocket
  THEN [c EXCEPT !.wire = @ \cup (c.queue \cap c.reads), !.queue = {}] ELSE c

\* discardSocketSilently: the handlers are unhooked, the variable is kept.
Discard(c) ==
  IF c.current = NoSocket THEN c ELSE [c EXCEPT !.links[c.current] = FreeLink]

\* Mutants of Lost: unsettled commands are kept like reads; what was sent on
\* the dead socket is not queued again.
LostKeepsCommands(c) ==
  [Disarm(c) EXCEPT !.reads = @ \cup c.commands, !.queue = c.reads \cup c.commands,
                    !.commands = {}, !.wire = {}, !.left = {}, !.announced = FALSE,
                    !.current = NoSocket, !.ready = FALSE]
LostForgets(c) ==
  [Disarm(c) EXCEPT !.commands = {}, !.wire = {}, !.left = {}, !.announced = FALSE,
                    !.current = NoSocket, !.ready = FALSE]

\* What every end of a connection but connect()'s does: disarm, reject the
\* commands in flight, queue every unsettled read again.
Lost(c) ==
  [Disarm(c) EXCEPT !.commands = {}, !.queue = c.reads, !.wire = {}, !.left = {},
                    !.announced = FALSE, !.current = NoSocket, !.ready = FALSE]

\* Mutant of EnterOffline: nothing is scheduled.
EnterOfflineForGood(c) == SetState(c, "offline")

\* enterOffline, with scheduleReconnectAttempt(true).
EnterOffline(c) == [SetState(c, "offline") EXCEPT !.backoff = "visible"]

EnterUnauthorized(c, why) ==
  SetState([c EXCEPT !.backoff = "off", !.why = why], "unauthorized")

-----------------------------------------------------------------------------
(* beginConnect *)

Prepare(c, visible) ==
  LET d == [c EXCEPT !.backoff = "off", !.sentAuth = FALSE, !.ready = FALSE,
                     !.gotStats = FALSE, !.opened = FALSE, !.refused = FALSE, !.why = "none",
                     !.blurted = FALSE]
  IN IF visible THEN [SetState(d, "connecting") EXCEPT !.bound = TRUE] ELSE d

\* createSocket returned.
Begin(c, visible) ==
  LET d == Prepare(c, visible)
      s == CHOOSE s \in Sockets : s \notin Attached(d)
  IN [d EXCEPT !.current = s, !.wire = {}, !.announced = FALSE,
               !.links[s] = [FreeLink EXCEPT !.at = "opening"]]

\* createSocket threw under a timer: recordLocalError, then the schedule.
BeginThrows(c, visible) ==
  [Prepare(c, visible) EXCEPT !.error = "socket_failed", !.bound = FALSE,
                              !.backoff = IF visible THEN "visible" ELSE "hidden"]

\* A timer that has to rebuild the connection.
Rebuild(c, visible) ==
  \/ /\ Attached(c) # Sockets
     /\ client' = Begin(c, visible) /\ UNCHANGED faults
  \/ /\ faults < MaxFaults /\ faults' = faults + 1
     /\ client' = BeginThrows(c, visible)

\* A timer that the unit beats when the link works is late at the cost of a
\* fault.
Stuck == \A s \in {client.current} \ {NoSocket} : client.links[s].at = "silent"
Overdue ==
  IF Stuck THEN UNCHANGED faults ELSE faults < MaxFaults /\ faults' = faults + 1

Unwelcome == required /\ token # "right"

-----------------------------------------------------------------------------
(* Timers *)

BackoffFires ==
  /\ client.backoff # "off"
  /\ Rebuild([client EXCEPT !.backoff = "off"], client.backoff = "visible")
  /\ UNCHANGED <<required, token, used, connects>>

\* connectingBoundTimer.
BoundFires ==
  /\ client.bound
  /\ Overdue
  /\ client' = EnterOffline(Lost(Discard([client EXCEPT !.bound = FALSE,
                                                        !.error = "connect_timeout"])))
  /\ UNCHANGED <<required, token, used, connects>>

\* onPatienceExpired. A unit that does not accept the token does not beat it.
PatienceFires ==
  /\ client.patience
  /\ IF Unwelcome THEN UNCHANGED faults ELSE Overdue
  /\ client' = EnterOffline(Lost(Discard([client EXCEPT !.patience = FALSE,
                                                        !.backoff = "off"])))
  /\ UNCHANGED <<required, token, used, connects>>

\* Admitted(s): the unit asks for no token, or has acknowledged the right one.
Admitted(s) == ~required \/ client.links[s].acked

\* sendPing. A pong timer that is running was armed before the ping timer, and
\* is the shorter of the two. The ping timer can be a leftover of a connection
\* that connect() replaced: a socket that is not open yet swallows the ping,
\* and a unit that wants a token takes it for an offence.
PingFires ==
  /\ client.ping /\ ~client.pong
  /\ LET s == client.current
         heard == client.links[s].at = "open"
         lawful == Admitted(s) \/ client.links[s].auth # "none"
     IN client' = IF s = NoSocket
                  THEN [client EXCEPT !.ping = FALSE]
                  ELSE [client EXCEPT !.ping = FALSE, !.pong = TRUE,
                                      !.links[s].owed = @ \/ (heard /\ lawful),
                                      !.blurted = @ \/ (heard /\ ~lawful)]
  /\ UNCHANGED <<required, token, used, connects, faults>>

\* No pong is under way.
Unanswered == \A s \in {client.current} \ {NoSocket} : ~client.links[s].owed

\* onPongTimeout rebuilds at once, without the backoff.
PongFires ==
  /\ client.pong
  /\ LET c == Lost(Discard([client EXCEPT !.pong = FALSE, !.error = "pong_timeout"]))
     IN \/ Unanswered /\ Rebuild(c, TRUE)
        \/ /\ ~Unanswered /\ faults < MaxFaults /\ faults' = faults + 1
           /\ client' = Begin(c, TRUE)
  /\ UNCHANGED <<required, token, used, connects>>

\* Mutant of ReadTimesOut: the read is sent once more, the caller told nothing.
ReadRetried(r) ==
  /\ r \in client.reads
  /\ client' = Flush([client EXCEPT !.queue = @ \cup {r}])
  /\ UNCHANGED <<required, token, used, connects, faults>>

ReadTimesOut(r) ==
  /\ r \in client.reads
  /\ client' = [client EXCEPT !.reads = @ \ {r}, !.queue = @ \ {r}]
  /\ UNCHANGED <<required, token, used, connects, faults>>

CommandTimesOut(k) ==
  /\ k \in client.commands
  /\ client' = [client EXCEPT !.commands = @ \ {k}]
  /\ UNCHANGED <<required, token, used, connects, faults>>

-----------------------------------------------------------------------------
(* The caller *)

\* Mutant of Closed: the reads are left to their time limits.
ClosedKeepsReads(c) ==
  SetState([Lost(Discard(c)) EXCEPT
              !.stopped = TRUE, !.backoff = "off", !.patience = FALSE, !.bound = FALSE,
              !.queue = {}, !.why = "none"], "offline")

\* close().
Closed(c) ==
  SetState([Lost(Discard(c)) EXCEPT
              !.stopped = TRUE, !.backoff = "off", !.patience = FALSE, !.bound = FALSE,
              !.reads = {}, !.queue = {}, !.why = "none"], "offline")

\* connect(), in any state: a socket there is gives way to a new one, and what
\* waits on it is neither rejected nor queued again. When createSocket throws
\* here, lib/session.ts closes the client in the same call.
Connect ==
  /\ connects < MaxConnects /\ connects' = connects + 1
  /\ LET c == [client EXCEPT !.stopped = FALSE, !.backoff = "off"]
         d == [Discard(c) EXCEPT !.patience = FALSE,
                                 !.left = @ \cup ((c.reads \cup c.commands) \ c.queue)]
     IN \/ client.state \in Live /\ client' = c /\ UNCHANGED faults
        \/ client.state \notin Live /\ client' = Begin(d, TRUE) /\ UNCHANGED faults
        \/ /\ client.state \notin Live /\ faults < MaxFaults /\ faults' = faults + 1
           /\ client' = Closed([Prepare(d, TRUE) EXCEPT !.bound = FALSE])
  /\ UNCHANGED <<required, token, used>>

Close ==
  /\ ~client.stopped
  /\ client' = Closed(client)
  /\ UNCHANGED <<required, token, used, connects, faults>>

\* A token the user changes, before connecting again or between two attempts.
ChangeToken ==
  /\ 0 < connects /\ connects < MaxConnects /\ connects' = connects + 1
  /\ token' \in {"none", "right", "wrong"} \ {token}
  /\ UNCHANGED <<client, required, used, faults>>

\* request(): queued, and sent at once on a usable connection.
Request(r) ==
  /\ r \notin used /\ used' = used \cup {r}
  /\ client' = Flush([client EXCEPT !.reads = @ \cup {r}, !.queue = @ \cup {r}])
  /\ UNCHANGED <<required, token, connects, faults>>

\* command(): sent in the call, or refused.
Command(k) ==
  /\ k \notin used /\ used' = used \cup {k}
  /\ client' = IF client.state \in Live /\ client.current # NoSocket
               THEN [client EXCEPT !.commands = @ \cup {k}, !.wire = @ \cup {k}]
               ELSE client
  /\ UNCHANGED <<required, token, connects, faults>>

-----------------------------------------------------------------------------
(* Frames *)

Hears(s) == client.links[s].at = "open"

\* The first part of handleMessage: for a client without a token any frame
\* is the proof of admission.
Seen(c) == IF ~c.ready /\ ~c.sentAuth THEN Flush([c EXCEPT !.ready = TRUE]) ELSE c

HandleStats(c, fresh) ==
  LET d == [c EXCEPT !.gotStats = TRUE, !.closes = IF c.gotStats THEN @ ELSE 0,
                     !.bound = @ /\ c.gotStats]
  IN IF c.state \in Live \cup {"connecting", "restarting"}
     THEN SetState(d, IF fresh THEN "connected" ELSE "degraded") ELSE d

Stats(s, fresh) ==
  /\ Hears(s) /\ Admitted(s)
  /\ client' = HandleStats(Seen(client), fresh)
  /\ UNCHANGED <<required, token, used, connects, faults>>

\* Any other push: it reaches the subscribers only.
Push(s) ==
  /\ Hears(s) /\ Admitted(s)
  /\ client' = Seen(client)
  /\ UNCHANGED <<required, token, used, connects, faults>>

\* handleRestarting.
HandleRestarting(c, reason) ==
  [SetState([c EXCEPT !.reason = reason, !.bound = FALSE], "restarting")
     EXCEPT !.patience = reason # "shutdown", !.announced = TRUE]

Restarting(s, reason) ==
  /\ Hears(s) /\ Admitted(s) /\ faults < MaxFaults /\ faults' = faults + 1
  /\ client' = HandleRestarting(Seen(client), reason)
  /\ UNCHANGED <<required, token, used, connects>>

\* onPong re-arms the ping, whatever the state. The unit answers in order.
Pong(s) ==
  /\ Hears(s) /\ Admitted(s) /\ client.links[s].owed
  /\ client' = [Seen(client) EXCEPT !.pong = FALSE, !.ping = TRUE, !.links[s].owed = FALSE]
  /\ UNCHANGED <<required, token, used, connects, faults>>

\* The acknowledgment of the auth frame.
AckAuth(s) ==
  /\ Hears(s) /\ ~client.links[s].acked
  /\ client.links[s].auth \in IF required THEN {"right"} ELSE {"right", "wrong"}
  /\ client' = Flush([Seen(client) EXCEPT !.ready = TRUE, !.links[s].acked = TRUE])
  /\ UNCHANGED <<required, token, used, connects, faults>>

\* error unauthorized: for a wrong token, and for anything sent before one.
Unauthorized(s) ==
  /\ Hears(s) /\ required /\ ~client.links[s].acked
  /\ \/ client.links[s].auth = "wrong"
     \/ client.links[s].auth = "none" /\ (client.wire # {} \/ client.blurted)
  /\ client' = [Seen(client) EXCEPT !.refused = TRUE, !.error = "unauthorized",
                                    !.links[s].auth = "told"]
  /\ UNCHANGED <<required, token, used, connects, faults>>

\* A typed reply, an acknowledgment of a command, or an error with the id.
Answer(s, id) ==
  /\ Hears(s) /\ Admitted(s) /\ s = client.current /\ id \in client.wire
  /\ \E error \in {client.error, "frame"} :
       client' = [Seen(client) EXCEPT !.reads = @ \ {id}, !.commands = @ \ {id},
                                      !.error = error]
  /\ UNCHANGED <<required, token, used, connects, faults>>

\* A frame that does not parse, or is no message of the protocol.
BadFrame(s) ==
  /\ Hears(s) /\ Admitted(s)
  /\ client' = [client EXCEPT !.error = "bad_frame"]
  /\ UNCHANGED <<required, token, used, connects, faults>>

-----------------------------------------------------------------------------
(* Sockets *)

\* onopen: a client with a token sends it.
SocketOpens(s) ==
  /\ client.links[s].at = "opening"
  /\ client' = [client EXCEPT !.opened = TRUE, !.sentAuth = @ \/ token # "none",
                              !.links[s].at = "open", !.links[s].auth = token]
  /\ UNCHANGED <<required, token, used, connects, faults>>

\* Mutant of Inferred: a socket that never opened counts as a refusal.
InferredUnopened(c) == token = "none" /\ ~c.gotStats

\* A close that may be a lost 1008.
Inferred(c) == token = "none" /\ ~c.gotStats /\ c.opened

\* The third of them in a row: stop retrying and ask for a token.
Third(c) == c.closes >= 2

\* What handleClose decides, once the connection is torn down.
AfterClose(c, code) ==
  CASE c.state = "restarting" ->
         IF c.reason = "shutdown" THEN c ELSE [c EXCEPT !.backoff = "hidden"]
    [] c.state # "restarting" /\ c.stopped -> c
    [] c.state # "restarting" /\ ~c.stopped ->
         CASE c.refused -> EnterUnauthorized(c, "rejected")
           [] ~c.refused /\ code = 1008 /\ ~c.sentAuth -> EnterUnauthorized(c, "required")
           [] ~c.refused /\ code = 1008 /\ c.sentAuth  -> EnterOffline(c)
           [] ~c.refused /\ code # 1008 ->
                IF ~Inferred(c) THEN EnterOffline(c)
                ELSE IF Third(c) THEN EnterUnauthorized([c EXCEPT !.closes = 0], "required")
                     ELSE EnterOffline([c EXCEPT !.closes = @ + 1])

HandleClose(s, code) ==
  LET c == [Lost(client) EXCEPT !.bound = FALSE, !.links[s] = FreeLink,
              !.error = IF ~client.stopped /\ client.state # "restarting" /\ ~client.refused
                        THEN "close" ELSE @]
  IN client' = AfterClose(c, code)

\* The unit closes a socket it does not admit; the code may be lost.
UnitRefuses(s) ==
  /\ Hears(s) /\ required /\ client.links[s].auth \in {"none", "told"}
  /\ \E code \in {1006, 1008} : HandleClose(s, code)
  /\ UNCHANGED <<required, token, used, connects, faults>>

\* The connection ends, or cannot be opened.
SocketFails(s) ==
  /\ client.links[s].at \in {"opening", "open"} /\ faults < MaxFaults /\ faults' = faults + 1
  /\ HandleClose(s, 1006)
  /\ UNCHANGED <<required, token, used, connects>>

\* A dropped tether does not close the socket, it stops delivering.
FallsSilent(s) ==
  /\ client.links[s].at \in {"opening", "open"} /\ faults < MaxFaults /\ faults' = faults + 1
  /\ client' = [client EXCEPT !.links[s].at = "silent", !.links[s].owed = FALSE]
  /\ UNCHANGED <<required, token, used, connects>>

-----------------------------------------------------------------------------
Init ==
  /\ client = [state |-> "offline", stopped |-> TRUE, current |-> NoSocket,
               sentAuth |-> FALSE, ready |-> FALSE, gotStats |-> FALSE, opened |-> FALSE,
               refused |-> FALSE, closes |-> 0, reason |-> "none", why |-> "none",
               error |-> "none", backoff |-> "off", bound |-> FALSE, patience |-> FALSE,
               ping |-> FALSE, pong |-> FALSE, beating |-> FALSE,
               reads |-> {}, queue |-> {}, commands |-> {},
               links |-> [s \in Sockets |-> FreeLink],
               \* history: ids sent on the current socket, ids left on one that
               \* connect() discarded; the current socket said "restarting", and
               \* was pinged without a token it wanted
               wire |-> {}, left |-> {}, announced |-> FALSE, blurted |-> FALSE]
  /\ required \in BOOLEAN /\ token \in {"none", "right", "wrong"}
  /\ used = {} /\ connects = 0 /\ faults = 0

Caller ==
  \/ Connect \/ Close \/ ChangeToken
  \/ \E r \in Reads : Request(r)
  \/ \E k \in Commands : Command(k)

Timers ==
  \/ BackoffFires \/ BoundFires \/ PatienceFires \/ PingFires \/ PongFires
  \/ \E r \in Reads : ReadTimesOut(r)
  \/ \E k \in Commands : CommandTimesOut(k)

Frame(s) ==
  \/ \E fresh \in BOOLEAN : Stats(s, fresh)
  \/ \E reason \in {"mode_change", "reboot", "shutdown"} : Restarting(s, reason)
  \/ Push(s) \/ Pong(s) \/ AckAuth(s) \/ Unauthorized(s) \/ BadFrame(s)
  \/ \E id \in Reads \cup Commands : Answer(s, id)

Socket(s) == SocketOpens(s) \/ UnitRefuses(s) \/ SocketFails(s) \/ FallsSilent(s)

Next == Caller \/ Timers \/ \E s \in Sockets : Frame(s) \/ Socket(s)

Spec == Init /\ [][Next]_vars

\* The browser fires its timers and the unit, while the link delivers, opens,
\* answers, refuses and broadcasts. A late timer is owed on a stuck
\* link only, patience also to a client that is not accepted, and the end of a
\* ping to one that no pong will answer.
Fairness ==
  /\ WF_vars(BackoffFires) /\ WF_vars(PingFires)
  /\ WF_vars(Stuck /\ (BoundFires \/ PatienceFires)) /\ WF_vars(Unanswered /\ PongFires)
  /\ WF_vars(Unwelcome /\ PatienceFires)
  /\ \A r \in Reads : WF_vars(ReadTimesOut(r))
  /\ \A k \in Commands : WF_vars(CommandTimesOut(k))
  /\ \A s \in Sockets :
       /\ WF_vars(SocketOpens(s)) /\ WF_vars(UnitRefuses(s)) /\ WF_vars(AckAuth(s))
       /\ WF_vars(Unauthorized(s)) /\ WF_vars(Pong(s))
       /\ WF_vars(\E fresh \in BOOLEAN : Stats(s, fresh))

FairSpec == Spec /\ Fairness

-----------------------------------------------------------------------------
(* Properties *)

\* SPEC.md 4.3.3: what is unsettled can still be answered. A command is on
\* the current socket or was reported as failed; a read is there or queued,
\* and on a usable connection it is not queued any more. Only a connect() over
\* a socket leaves a call with neither, until the new connection ends as well.
AnswersCanArrive ==
  /\ client.commands \subseteq client.wire \cup client.left
  /\ client.reads \subseteq client.queue \cup client.wire \cup client.left
  /\ client.ready => client.queue \cap client.reads = {}

\* SPEC.md 4.3.3: a read is queued and re-sent. connect() discards the socket
\* of a client that is connecting or restarting, and what was sent on it.
\* False of the code: WsClientReconnect.cfg finds the behavior.
ReadsAreResent == client.reads \subseteq client.queue \cup client.wire

\* SPEC.md 4.3.9: no request is sent before the unit has admitted the socket,
\* and a client without a token is not told it was rejected: unless a ping
\* timer that connect() left running pinged the unit without a token.
SilentUntilAdmitted ==
  /\ client.wire # {} => Admitted(client.current) \/ client.blurted
  /\ client.why = "rejected" => client.sentAuth \/ client.blurted

\* SPEC.md 4.3.9: "rejected" is said of a token that was sent, "required" when
\* there was none. False of the code: WsClientRejected.cfg finds the behavior.
RejectedMeansToken == client.why = "rejected" => client.sentAuth

\* Issue #139: a unit that is down is not a unit that refuses. Only the close
\* of a socket that is open leads to "unauthorized", which suspends reconnection:
\* not one that never opened, however the attempts before it ended.
DownIsNotRefused ==
  [][client'.state = "unauthorized" /\ client.state # "unauthorized" =>
       \E s \in Sockets : client.links[s].at = "open"]_vars

\* SPEC.md 4.3.3: a state command leaves in the call that made it, from a
\* live state, and never again.
CommandsNeverReplayed ==
  [][\A k \in Commands :
       k \in client'.wire \ client.wire => k \notin used /\ client.state \in Live]_vars

\* Reconnection is never given up on: once the faults stop, the client is
\* live again, unless the user or a shutdown ended it.
Recovers ==
  <>[](\/ client.state \in Live \/ client.stopped \/ client.state = "unauthorized"
       \/ (client.state = "restarting" /\ client.reason = "shutdown"))

\* A half-open socket is noticed, by the heartbeat, the bound or patience.
SilenceIsNoticed ==
  \A s \in Sockets :
    client.links[s].at = "silent" ~>
      \/ client.links[s].at # "silent"
      \/ client.state = "restarting" /\ client.reason = "shutdown"

\* The client as the rest of the app sees it: see ClientContract.
Waiting == client.reads \cup client.commands
Calls == [id \in Reads \cup Commands |->
            IF id \in Waiting THEN "waiting" ELSE IF id \in used THEN "settled" ELSE "none"]

Contract == INSTANCE ClientContract WITH
  state <- client.state, stopped <- client.stopped, calls <- Calls

\* createWsClient keeps what its callers are promised: states follow one another
\* as SPEC.md 4.3.1 has them, a command outlives its connection only where
\* connect() replaced it, a read outlives everything but close(), a promise that
\* has settled stays settled.
KeepsItsContract == Contract!Spec

\* Every promise of request() and command() settles: by an answer, its time
\* limit, the end of the connection or close().
PromisesSettle == Contract!Settled

=============================================================================
