---------------------------- MODULE WsClientProofs ----------------------------
(***************************************************************************)
(* For any calls, sockets and faults: what ws.ts keeps true of a client,   *)
(* and that every step of it is one its contract allows.                   *)
(*                                                                         *)
(* A function of the source is an operator on the record; for each there   *)
(* is a lemma that says from what kind of client to what kind it leads: Up *)
(* has a connection, Down has none, Sound is either with timers to match.  *)
(***************************************************************************)
EXTENDS WsClient, TLAPS

States == {"offline", "connecting", "restarting", "unauthorized"} \cup Live
Links == [at : {"free", "opening", "open", "silent"}, auth : {"none", "right", "wrong", "told"},
          acked : BOOLEAN, owed : BOOLEAN]
Errors == {"none", "socket_failed", "connect_timeout", "pong_timeout", "unauthorized",
           "frame", "bad_frame", "close"}
Clients ==
  [state : States, stopped : BOOLEAN, current : Sockets \cup {NoSocket},
   sentAuth : BOOLEAN, ready : BOOLEAN, gotStats : BOOLEAN, opened : BOOLEAN,
   refused : BOOLEAN, closes : Nat, reason : {"none", "mode_change", "reboot", "shutdown"},
   why : {"none", "rejected", "required"}, error : Errors,
   backoff : {"off", "visible", "hidden"}, bound : BOOLEAN, patience : BOOLEAN,
   ping : BOOLEAN, pong : BOOLEAN, beating : BOOLEAN,
   reads : SUBSET Reads, queue : SUBSET Reads, commands : SUBSET Commands,
   links : [Sockets -> Links], wire : SUBSET (Reads \cup Commands),
   left : SUBSET (Reads \cup Commands), announced : BOOLEAN, blurted : BOOLEAN]

\* What a refusal says of a client: it had sent a token, or a ping without one,
\* on an open socket.
Based(c) ==
  /\ c \in Clients
  /\ c.refused => (c.sentAuth \/ c.blurted) /\ c.opened
  /\ c.why = "rejected" => c.sentAuth \/ c.blurted

\* With u for "the unit wants a token": the socket has been let in.
In(c, u) == ~u \/ c.links[c.current].acked

\* With a connection. Its only link is the current one; a live state came after
\* the admission, and so did whatever was sent, unless a ping drew the frame that
\* let it go; the unsettled calls are where their answers, or another try, will
\* find them, or connect() left them behind.
Linked(c, u) ==
  /\ Based(c)
  /\ c.current \in Sockets
  /\ \A s \in Sockets \ {c.current} : c.links[s].at = "free"
  /\ ~c.stopped /\ c.backoff = "off"
  /\ c.state \in Live \cup {"connecting", "restarting"}
  /\ c.wire # {} \/ c.ready => In(c, u) \/ c.blurted
  /\ c.state \in Live => In(c, u)
  /\ c.commands \subseteq c.wire \cup c.left
  /\ c.reads \subseteq c.queue \cup c.wire \cup c.left
  /\ c.links[c.current].at = "open" => c.opened
  /\ c.opened => c.links[c.current].at # "opening"
  /\ c.links[c.current].auth \in {"right", "wrong"} => c.sentAuth
Up(c, u) == Linked(c, u) /\ (c.ready => c.queue \cap c.reads = {})

\* Without one: nothing beats, nothing is in flight, every read is queued.
Down(c) ==
  /\ Based(c)
  /\ c.current = NoSocket
  /\ \A s \in Sockets : c.links[s].at = "free"
  /\ ~c.ready /\ ~c.ping /\ ~c.pong
  /\ c.wire = {} /\ c.commands = {} /\ c.reads \subseteq c.queue

\* On the way from one to the other: connect() has discarded the socket, and
\* what is not queued is left behind.
Loose(c) ==
  /\ Based(c)
  /\ \A s \in Sockets : c.links[s].at = "free"
  /\ c.commands \subseteq c.left /\ c.reads \subseteq c.queue \cup c.left

\* No socket but the current one has its handlers.
Single(c) == Based(c) /\ \A s \in Sockets \ {c.current} : c.links[s].at = "free"

\* Which timers run in which state.
Timed(c) ==
  /\ c.bound => c.state = "connecting" /\ ~c.gotStats
  /\ c.patience => c.state = "restarting"
  /\ c.backoff = "visible" => c.state \in {"offline", "connecting"}
  /\ c.backoff = "hidden" => c.state = "restarting"
  /\ c.stopped => c.state = "offline" /\ c.backoff = "off"

Sound(c, u) ==
  /\ Timed(c)
  /\ Up(c, u) \/ (Down(c) /\ c.state \notin Live)

IInv ==
  /\ Sound(client, required)
  /\ token \in {"none", "right", "wrong"} /\ required \in BOOLEAN
  /\ Waiting \subseteq used

-----------------------------------------------------------------------------
(* Teardown, and the states without a connection *)

\* Two clients that agree on all but the state, the timers and the last error.
Kin(c, d) ==
  /\ d.stopped = c.stopped /\ d.current = c.current /\ d.sentAuth = c.sentAuth
  /\ d.ready = c.ready /\ d.gotStats = c.gotStats /\ d.opened = c.opened
  /\ d.refused = c.refused /\ d.reason = c.reason /\ d.why = c.why
  /\ d.reads = c.reads /\ d.queue = c.queue /\ d.commands = c.commands
  /\ d.links = c.links /\ d.wire = c.wire /\ d.backoff = c.backoff /\ d.bound = c.bound
  /\ d.left = c.left /\ d.blurted = c.blurted

LEMMA SetStateKin ==
  ASSUME NEW c \in Clients, NEW next \in States
  PROVE  LET e == SetState(c, next)
         IN  /\ e \in Clients /\ Kin(c, e) /\ e.state = next
             /\ e.patience => c.patience /\ next = "restarting"
             /\ next \notin Live => (e.ping => c.ping) /\ (e.pong => c.pong)
  <1> DEFINE p == c.patience /\ next = "restarting"
             d == [c EXCEPT !.state = next, !.patience = p]
             f == [d EXCEPT !.error = "none"]
  <1>1. p \in BOOLEAN /\ (p => c.patience /\ next = "restarting")
    BY DEF Clients
  <1>2. /\ d \in Clients /\ Kin(c, d) /\ d.state = next /\ d.patience = p
        /\ d.ping = c.ping /\ d.pong = c.pong
    <2> HIDE DEF p
    <2> QED
      BY <1>1 DEF Clients, Kin
  <1>3. /\ f \in Clients /\ Kin(c, f) /\ f.state = next /\ f.patience = p
    <2> HIDE DEF d
    <2> QED
      BY <1>2 DEF Clients, Kin, Errors
  <1> HIDE DEF p, f, d
  <1>4. \A x \in Clients :
          /\ Disarm(x) \in Clients /\ Kin(x, Disarm(x)) /\ Disarm(x).state = x.state
          /\ Disarm(x).patience = x.patience /\ ~Disarm(x).ping /\ ~Disarm(x).pong
    <2> TAKE x \in Clients
    <2>1. Disarm(x) \in Clients
      BY DEF Disarm, Clients
    <2> QED
      BY <2>1 DEF Disarm, Clients, Kin
  <1>5. \A x \in Clients :
          /\ Arm(x) \in Clients /\ Kin(x, Arm(x)) /\ Arm(x).state = x.state
          /\ Arm(x).patience = x.patience
    <2> TAKE x \in Clients
    <2>1. CASE x.beating
      BY <2>1 DEF Arm, Kin
    <2>2. CASE ~x.beating
      <3>1. Arm(x) = [x EXCEPT !.beating = TRUE, !.ping = TRUE]
        BY <2>2 DEF Arm
      <3>2. Arm(x) \in Clients
        BY <3>1 DEF Clients
      <3> QED
        BY <3>1, <3>2 DEF Clients, Kin
    <2> QED
      BY <2>1, <2>2
  <1>6. SetState(c, next) = IF next \in Live THEN IF c.state \in Live THEN Arm(d) ELSE Arm(f)
                            ELSE IF c.state \in Live THEN Disarm(d) ELSE d
    BY DEF SetState, p, d, f
  <1> QED
    BY <1>1, <1>2, <1>3, <1>4, <1>5, <1>6 DEF Kin

-----------------------------------------------------------------------------
(* Teardown *)

\* What the timers and the callers see of a client.
Alike(c, d) ==
  /\ d.state = c.state /\ d.stopped = c.stopped /\ d.reads = c.reads
  /\ d.bound = c.bound /\ d.patience = c.patience /\ d.backoff = c.backoff
  /\ d.gotStats = c.gotStats /\ d.sentAuth = c.sentAuth /\ d.opened = c.opened
  /\ d.refused = c.refused /\ d.reason = c.reason /\ d.blurted = c.blurted

LEMMA DisarmTyped ==
  ASSUME NEW c \in Clients
  PROVE  Disarm(c) \in Clients
  BY DEF Disarm, Clients

\* rejectInFlightCommands and requeueUnresolvedReads.
LEMMA LostKept ==
  ASSUME NEW c \in Clients
  PROVE  /\ Lost(c) \in Clients /\ Alike(c, Lost(c))
         /\ Lost(c).links = c.links /\ Lost(c).why = c.why
         /\ Lost(c).current = NoSocket /\ ~Lost(c).ready /\ ~Lost(c).ping /\ ~Lost(c).pong
         /\ Lost(c).wire = {} /\ Lost(c).commands = {} /\ Lost(c).queue = c.reads
  <1>1. Disarm(c) \in Clients
    BY DisarmTyped
  <1>2. Lost(c) \in Clients
    <2> DEFINE e == Disarm(c)
    <2>1. e \in Clients /\ c.reads \in SUBSET Reads
      BY <1>1 DEF Clients
    <2> HIDE DEF e
    <2>2. [e EXCEPT !.commands = {}, !.queue = c.reads, !.wire = {}, !.left = {},
                    !.announced = FALSE, !.current = NoSocket, !.ready = FALSE] \in Clients
      BY <2>1 DEF Clients
    <2> QED
      BY <2>2 DEF Lost, e
  <1>3. Alike(c, Lost(c)) /\ Lost(c).links = c.links /\ Lost(c).why = c.why
    BY <1>1 DEF Lost, Disarm, Alike, Clients
  <1>4. /\ Lost(c).current = NoSocket /\ ~Lost(c).ready /\ ~Lost(c).ping /\ ~Lost(c).pong
        /\ Lost(c).wire = {} /\ Lost(c).commands = {} /\ Lost(c).queue = c.reads
    BY <1>1 DEF Lost, Disarm, Clients
  <1> QED
    BY <1>2, <1>3, <1>4

LEMMA LostDown ==
  ASSUME NEW c, Based(c), \A s \in Sockets : c.links[s].at = "free"
  PROVE  Down(Lost(c)) /\ Alike(c, Lost(c))
  BY LostKept DEF Down, Based, Alike

\* The handlers are unhooked: no link is left.
LEMMA DiscardCut ==
  ASSUME NEW c, Single(c)
  PROVE  /\ Based(Discard(c)) /\ Alike(c, Discard(c))
         /\ \A s \in Sockets : Discard(c).links[s].at = "free"
         /\ Discard(c).commands = c.commands /\ Discard(c).queue = c.queue
         /\ Discard(c).left = c.left
  <1>1. CASE c.current = NoSocket
    BY <1>1, WsClientAssumption DEF Discard, Single, Alike
  <1>2. CASE c.current # NoSocket
    <2>1. c \in Clients /\ Based(c) /\ c.current \in Sockets
      BY <1>2 DEF Single, Based, Clients
    <2>2. c.links \in [Sockets -> Links] /\ \A s \in Sockets \ {c.current} : c.links[s].at = "free"
      BY <2>1 DEF Single, Clients
    <2> DEFINE f == [c.links EXCEPT ![c.current] = FreeLink]
    <2>3. f \in [Sockets -> Links] /\ \A s \in Sockets : f[s].at = "free"
      BY <2>1, <2>2 DEF FreeLink, Links
    <2>4. Discard(c) = [c EXCEPT !.links = f]
      BY <1>2 DEF Discard
    <2> HIDE DEF f
    <2>5. Discard(c) \in Clients
      BY <2>1, <2>3, <2>4 DEF Clients
    <2>6. /\ Alike(c, Discard(c)) /\ Discard(c).links = f /\ Discard(c).why = c.why
          /\ Discard(c).commands = c.commands /\ Discard(c).queue = c.queue
          /\ Discard(c).left = c.left
      BY <2>1, <2>4 DEF Alike, Clients
    <2> QED
      BY <2>1, <2>3, <2>5, <2>6 DEF Based, Alike
  <1> QED
    BY <1>1, <1>2

LEMMA CutDown ==
  ASSUME NEW c, Single(c)
  PROVE  Down(Lost(Discard(c))) /\ Alike(c, Lost(Discard(c)))
  BY DiscardCut, LostDown DEF Alike

-----------------------------------------------------------------------------
(* The states without a connection *)

\* setState keeps a client without a connection what it is.
LEMMA SetStateDown ==
  ASSUME NEW c, Down(c), NEW next \in States \ Live
  PROVE  Down(SetState(c, next))
  BY SetStateKin DEF Down, Based, Kin

LEMMA OfflineSound ==
  ASSUME NEW c, NEW u, Down(c), ~c.stopped, ~c.bound
  PROVE  LET d == EnterOffline(c)
         IN  /\ Sound(d, u) /\ Down(d) /\ d.state = "offline"
             /\ ~d.stopped /\ d.reads = c.reads
  <1> DEFINE e == SetState(c, "offline")
             d == [e EXCEPT !.backoff = "visible"]
  <1>1. "offline" \in States \ Live
    BY DEF States, Live
  <1>2. Down(e) /\ e \in Clients /\ Kin(c, e) /\ e.state = "offline" /\ ~e.patience
    BY <1>1, SetStateDown, SetStateKin DEF Down, Based
  <1> HIDE DEF e
  <1>3. d \in Clients
    BY <1>2 DEF Clients
  <1>4. /\ d.backoff = "visible" /\ ~d.patience /\ Kin([c EXCEPT !.backoff = "visible"], d)
        /\ d.state = "offline" /\ d.ping = e.ping /\ d.pong = e.pong
    BY <1>2 DEF Clients, Kin, Down, Based
  <1>5. Down(d) /\ d.bound = c.bound /\ d.stopped = c.stopped /\ d.reads = c.reads
    BY <1>2, <1>3 DEF Clients, Kin, Down, Based
  <1>6. Timed(d)
    BY <1>4, <1>5 DEF Timed
  <1> QED
    BY <1>4, <1>5, <1>6 DEF EnterOffline, Sound, Live, e

LEMMA UnauthorizedSound ==
  ASSUME NEW c, NEW u, NEW why \in {"rejected", "required"}, Down(c), ~c.stopped, ~c.bound,
         why = "rejected" => c.sentAuth \/ c.blurted
  PROVE  LET d == EnterUnauthorized(c, why)
         IN  /\ Sound(d, u) /\ Down(d) /\ d.state = "unauthorized"
             /\ ~d.stopped /\ d.reads = c.reads
  <1> DEFINE e == [c EXCEPT !.backoff = "off", !.why = why]
             d == SetState(e, "unauthorized")
  <1>1. e \in Clients
    BY DEF Clients, Down, Based
  <1>2. /\ Down(e) /\ e.backoff = "off" /\ ~e.bound /\ ~e.stopped /\ e.reads = c.reads
    BY <1>1 DEF Clients, Down, Based
  <1> HIDE DEF e
  <1>3. "unauthorized" \in States \ Live
    BY DEF States, Live
  <1>4. Down(d) /\ Kin(e, d) /\ d.state = "unauthorized" /\ ~d.patience
    BY <1>1, <1>2, <1>3, SetStateDown, SetStateKin
  <1> HIDE DEF d
  <1> QED
    BY <1>2, <1>4 DEF EnterUnauthorized, Sound, Timed, Kin, Live, e, d

\* close(): whatever there was, nothing is waiting any more.
LEMMA ClosedSound ==
  ASSUME NEW c, NEW u, Single(c)
  PROVE  LET d == Closed(c)
         IN  /\ Sound(d, u) /\ Down(d) /\ d.state = "offline" /\ d.stopped /\ d.reads = {}
  <1> DEFINE b == Lost(Discard(c))
             e == [b EXCEPT !.stopped = TRUE, !.backoff = "off", !.patience = FALSE,
                            !.bound = FALSE, !.reads = {}, !.queue = {}, !.why = "none"]
             d == SetState(e, "offline")
  <1>1. Down(b)
    BY CutDown
  <1> HIDE DEF b
  <1>2. e \in Clients
    BY <1>1 DEF Down, Based, Clients
  <1>3. Down(e) /\ e.stopped /\ e.backoff = "off" /\ ~e.bound /\ ~e.patience /\ e.reads = {}
    BY <1>1, <1>2 DEF Down, Based, Clients
  <1> HIDE DEF e
  <1>4. "offline" \in States \ Live
    BY DEF States, Live
  <1>5. Down(d) /\ Kin(e, d) /\ d.state = "offline" /\ ~d.patience
    BY <1>2, <1>3, <1>4, SetStateDown, SetStateKin
  <1> HIDE DEF d
  <1> QED
    BY <1>3, <1>5 DEF Closed, Sound, Timed, Kin, Live, b, e, d

-----------------------------------------------------------------------------
(* beginConnect *)

\* Ready to connect: in the open, or behind the announcement of a restart.
Idle(c, visible) ==
  /\ Loose(c) /\ ~c.stopped
  /\ ~visible => c.state = "restarting" /\ ~c.bound
  /\ c.patience => c.state = "restarting"

LEMMA PrepareLoose ==
  ASSUME NEW c, NEW visible \in BOOLEAN, Idle(c, visible)
  PROVE  LET d == Prepare(c, visible)
         IN  /\ Loose(d) /\ (Down(c) => Down(d)) /\ d.commands = c.commands /\ ~d.ready
             /\ ~d.opened /\ ~d.stopped /\ d.backoff = "off" /\ d.reads = c.reads
             /\ d.state = IF visible THEN "connecting" ELSE "restarting"
             /\ (d.bound => visible) /\ (d.patience => ~visible) /\ ~d.gotStats
             /\ ~d.refused /\ d.why = "none"
  <1> DEFINE e == [c EXCEPT !.backoff = "off", !.sentAuth = FALSE, !.ready = FALSE,
                            !.gotStats = FALSE, !.opened = FALSE, !.refused = FALSE,
                            !.why = "none", !.blurted = FALSE]
             f == SetState(e, "connecting")
             g == [f EXCEPT !.bound = TRUE]
  <1>1. e \in Clients
    BY DEF Idle, Loose, Based, Clients
  <1>2. /\ Loose(e) /\ (Down(c) => Down(e)) /\ e.commands = c.commands /\ ~e.ready /\ ~e.opened
        /\ ~e.stopped /\ e.backoff = "off" /\ e.reads = c.reads /\ ~e.gotStats
        /\ ~e.refused /\ e.why = "none" /\ e.state = c.state /\ e.bound = c.bound
        /\ e.patience = c.patience
    BY <1>1 DEF Idle, Loose, Down, Based, Clients
  <1>3. Prepare(c, visible) = IF visible THEN g ELSE e
    BY DEF Prepare
  <1> HIDE DEF e
  <1>4. "connecting" \in States \ Live
    BY DEF States, Live
  <1>5. /\ Loose(f) /\ (Down(e) => Down(f)) /\ Kin(e, f) /\ f.state = "connecting"
        /\ ~f.patience /\ f \in Clients
    <2>1. Kin(e, f) /\ f.state = "connecting" /\ ~f.patience /\ f \in Clients
      BY <1>1, <1>4, SetStateKin
    <2>2. Down(e) => Down(f)
      BY <1>4, SetStateDown
    <2> QED
      BY <1>2, <2>1, <2>2 DEF Loose, Based, Kin
  <1> HIDE DEF f
  <1>6. g \in Clients
    BY <1>5 DEF Clients
  <1>7. /\ Loose(g) /\ (Down(f) => Down(g)) /\ g.commands = f.commands /\ g.ready = f.ready
        /\ g.opened = f.opened /\ g.stopped = f.stopped /\ g.backoff = f.backoff /\ g.reads = f.reads
        /\ g.state = f.state /\ g.patience = f.patience /\ g.gotStats = f.gotStats
        /\ g.refused = f.refused /\ g.why = f.why
    BY <1>5, <1>6 DEF Loose, Down, Based, Clients
  <1> HIDE DEF g
  <1> QED
    BY <1>2, <1>3, <1>5, <1>7 DEF Idle, Kin

LEMMA BeginSound ==
  ASSUME NEW c, NEW u, NEW visible \in BOOLEAN, Idle(c, visible)
  PROVE  LET d == Begin(c, visible)
         IN  /\ Sound(d, u) /\ ~d.stopped /\ d.reads = c.reads /\ d.commands = c.commands
             /\ d.wire = {}
             /\ d.state = IF visible THEN "connecting" ELSE "restarting"
  <1> DEFINE e == Prepare(c, visible)
             s == CHOOSE s \in Sockets : s \notin Attached(e)
             f == [e.links EXCEPT ![s] = [FreeLink EXCEPT !.at = "opening"]]
             d == [e EXCEPT !.current = s, !.wire = {}, !.announced = FALSE, !.links = f]
  <1>1. /\ Loose(e) /\ e.commands = c.commands /\ ~e.ready /\ ~e.opened /\ ~e.stopped /\ e.backoff = "off" /\ e.reads = c.reads
        /\ e.state = IF visible THEN "connecting" ELSE "restarting"
        /\ (e.bound => visible) /\ (e.patience => ~visible) /\ ~e.gotStats
        /\ ~e.refused /\ e.why = "none"
    BY PrepareLoose
  <1>2. Begin(c, visible) = [e EXCEPT !.current = s, !.wire = {}, !.announced = FALSE,
                               !.links[s] = [FreeLink EXCEPT !.at = "opening"]]
    BY DEF Begin
  <1> HIDE DEF e
  <1>3. s \in Sockets
    <2>1. \A t \in Sockets : t \notin Attached(e)
      BY <1>1 DEF Loose, Attached
    <2>2. \E t \in Sockets : t \notin Attached(e)
      BY <2>1, WsClientAssumption
    <2> QED
      BY <2>2
  <1> HIDE DEF s
  <1>4. e \in Clients /\ e.links \in [Sockets -> Links] /\ s # NoSocket
    BY <1>1, <1>3, WsClientAssumption DEF Loose, Based, Clients
  <1>5. /\ f \in [Sockets -> Links] /\ f[s].at = "opening" /\ f[s].auth = "none"
        /\ ~f[s].acked /\ ~f[s].owed /\ \A t \in Sockets \ {s} : f[t].at = "free"
    BY <1>1, <1>3, <1>4 DEF FreeLink, Links, Loose
  <1>6. Begin(c, visible) = d
    BY <1>2, <1>4
  <1> HIDE DEF f
  <1>7. d \in Clients
    BY <1>3, <1>4, <1>5 DEF Clients
  <1>8. /\ d.current = s /\ d.wire = {} /\ d.links = f
        /\ d.stopped = e.stopped /\ d.backoff = e.backoff /\ d.reads = e.reads /\ d.queue = e.queue
        /\ d.state = e.state /\ d.bound = e.bound /\ d.patience = e.patience
        /\ d.gotStats = e.gotStats /\ d.refused = e.refused /\ d.why = e.why
        /\ d.ready = e.ready /\ d.opened = e.opened /\ d.left = e.left
        /\ d.commands = e.commands
    BY <1>4 DEF Clients
  <1> HIDE DEF d
  <1>9. Based(d) /\ Timed(d)
    BY <1>1, <1>7, <1>8 DEF Based, Timed
  <1>10. Linked(d, u)
    <2>1. /\ ~d.ready /\ ~d.opened /\ d.commands \subseteq d.left
          /\ d.reads \subseteq d.queue \cup d.left
      BY <1>1, <1>8 DEF Loose
    <2>2. d.state \in {"connecting", "restarting"} /\ d.state \notin Live
      BY <1>1, <1>8 DEF Live
    <2> QED
      BY <2>1, <2>2, <1>1, <1>3, <1>5, <1>8, <1>9 DEF Linked
  <1> QED
    BY <1>1, <1>6, <1>8, <1>9, <1>10 DEF Sound, Up, Loose

LEMMA BeginThrowsSound ==
  ASSUME NEW c, NEW u, NEW visible \in BOOLEAN, Idle(c, visible), Down(c)
  PROVE  LET d == BeginThrows(c, visible)
         IN  /\ Sound(d, u) /\ ~d.stopped /\ d.reads = c.reads /\ d.commands = {} /\ d.wire = {}
             /\ d.state = IF visible THEN "connecting" ELSE "restarting"
  <1> DEFINE e == Prepare(c, visible)
             b == IF visible THEN "visible" ELSE "hidden"
             d == [e EXCEPT !.error = "socket_failed", !.bound = FALSE, !.backoff = b]
  <1>1. /\ Down(e) /\ Loose(e) /\ ~e.stopped /\ e.backoff = "off" /\ e.reads = c.reads
        /\ e.state = IF visible THEN "connecting" ELSE "restarting"
        /\ (e.bound => visible) /\ (e.patience => ~visible) /\ ~e.gotStats
        /\ ~e.refused /\ e.why = "none"
    BY PrepareLoose
  <1>2. BeginThrows(c, visible) = d
    BY DEF BeginThrows
  <1> HIDE DEF e
  <1>3. b \in {"visible", "hidden"}
    OBVIOUS
  <1>4. d \in Clients
    <2>1. e \in Clients
      BY <1>1 DEF Down, Based
    <2> HIDE DEF b
    <2>2. "socket_failed" \in Errors
      BY DEF Errors
    <2> QED
      BY <1>3, <2>1, <2>2 DEF Clients
  <1>5. /\ Down(d) /\ d.stopped = e.stopped /\ d.reads = e.reads /\ d.state = e.state
        /\ d.patience = e.patience /\ ~d.bound /\ d.backoff = b
    <2> HIDE DEF b
    <2> QED
      BY <1>1, <1>4 DEF Down, Based, Clients
  <1> HIDE DEF d
  <1>6. Timed(d)
    BY <1>1, <1>5 DEF Timed
  <1> QED
    BY <1>1, <1>2, <1>5, <1>6 DEF Sound, Live, Down

\* connect(), when createSocket throws: the session closes the client.
LEMMA PreparedClosed ==
  ASSUME NEW c, NEW u, Idle(c, TRUE)
  PROVE  LET d == Closed([Prepare(c, TRUE) EXCEPT !.bound = FALSE])
         IN  /\ Sound(d, u) /\ Down(d) /\ d.state = "offline" /\ d.stopped /\ d.reads = {}
  <1> DEFINE e == Prepare(c, TRUE)
             d == [e EXCEPT !.bound = FALSE]
  <1>1. Loose(e)
    BY PrepareLoose
  <1> HIDE DEF e
  <1>2. d \in Clients
    BY <1>1 DEF Loose, Based, Clients
  <1>3. Single(d)
    BY <1>1, <1>2 DEF Loose, Single, Based, Clients
  <1> QED
    BY <1>3, ClosedSound DEF e

-----------------------------------------------------------------------------
(* Frames *)

\* A client that has only sent or queued reads meanwhile.
Carried(c, d) ==
  /\ Alike(c, d) /\ d.commands = c.commands /\ d.current = c.current /\ d.links = c.links
  /\ d.left = c.left /\ d.wire \subseteq c.wire \cup Reads

\* flushQueue, the one way a read that waited gets out: on a usable connection.
LEMMA FlushUp ==
  ASSUME NEW c, NEW u, Linked(c, u)
  PROVE  Up(Flush(c), u) /\ Carried(c, Flush(c))
  <1>1. CASE ~c.ready
    BY <1>1 DEF Flush, Up, Carried, Alike
  <1>2. CASE c.ready
    <2> DEFINE w == c.wire \cup (c.queue \cap c.reads)
               d == [c EXCEPT !.wire = w, !.queue = {}]
    <2>1. c \in Clients /\ c.current # NoSocket
      BY WsClientAssumption DEF Linked, Based
    <2>2. Flush(c) = d
      BY <1>2, <2>1 DEF Flush
    <2>3. /\ w \in SUBSET (Reads \cup Commands) /\ w \subseteq c.wire \cup Reads
          /\ c.wire \subseteq w /\ c.reads \subseteq w \cup c.left
      BY <2>1 DEF Clients, Linked
    <2> HIDE DEF w
    <2>4. d \in Clients
      BY <2>1, <2>3 DEF Clients
    <2>5. /\ Carried(c, d) /\ d.wire = w /\ d.queue = {} /\ d.ready = c.ready /\ d.why = c.why
      BY <2>1, <2>3 DEF Carried, Alike, Clients
    <2> HIDE DEF d
    <2>6. Based(d)
      BY <2>4, <2>5 DEF Linked, Based, Carried, Alike
    <2>7. Linked(d, u)
      BY <1>2, <2>3, <2>5, <2>6 DEF Linked, Carried, Alike, In
    <2> QED
      BY <2>2, <2>5, <2>7 DEF Up
  <1> QED
    BY <1>1, <1>2

\* The proof of admission that any frame is to a client without a token.
LEMMA SeenUp ==
  ASSUME NEW c, NEW u, Up(c, u), In(c, u) \/ c.sentAuth \/ c.blurted
  PROVE  Up(Seen(c), u) /\ Carried(c, Seen(c))
  <1>1. CASE c.ready \/ c.sentAuth
    BY <1>1 DEF Seen, Carried, Alike
  <1>2. CASE ~c.ready /\ ~c.sentAuth
    <2> DEFINE d == [c EXCEPT !.ready = TRUE]
    <2>1. c \in Clients /\ (In(c, u) \/ c.blurted) /\ Linked(c, u)
      BY <1>2 DEF Up, Linked, Based
    <2>2. d \in Clients
      BY <2>1 DEF Clients
    <2>3. /\ Carried(c, d) /\ d.wire = c.wire /\ d.queue = c.queue /\ d.ready /\ d.why = c.why
      BY <2>1 DEF Carried, Alike, Clients
    <2>4. Seen(c) = Flush(d)
      BY <1>2 DEF Seen
    <2> HIDE DEF d
    <2>5. Based(d)
      BY <2>1, <2>2, <2>3 DEF Linked, Based, Carried, Alike
    <2>6. Linked(d, u)
      BY <2>1, <2>3, <2>5 DEF Linked, Carried, Alike, In
    <2>7. Up(Flush(d), u) /\ Carried(d, Flush(d))
      BY <2>6, FlushUp
    <2> QED
      BY <2>3, <2>4, <2>7 DEF Carried, Alike
  <1> QED
    BY <1>1, <1>2

\* handleStats: the first one ends "connecting" and its bound.
LEMMA StatsUp ==
  ASSUME NEW c, NEW u, NEW fresh \in BOOLEAN, Up(c, u), Timed(c), In(c, u)
  PROVE  LET d == HandleStats(c, fresh)
         IN  /\ Sound(d, u) /\ Up(d, u) /\ d.state = IF fresh THEN "connected" ELSE "degraded"
             /\ d.stopped = c.stopped /\ d.reads = c.reads /\ d.commands = c.commands
             /\ d.wire = c.wire
  <1> DEFINE b == c.bound /\ c.gotStats
             n == IF c.gotStats THEN c.closes ELSE 0
             e == [c EXCEPT !.gotStats = TRUE, !.closes = n, !.bound = b]
             next == IF fresh THEN "connected" ELSE "degraded"
             d == SetState(e, next)
  <1>1. c \in Clients /\ c.state \in Live \cup {"connecting", "restarting"} /\ ~c.stopped
    BY DEF Up, Linked, Based
  <1>2. b = FALSE /\ n \in Nat
    BY <1>1 DEF Timed, Clients
  <1>3. HandleStats(c, fresh) = d
    BY <1>1 DEF HandleStats
  <1>4. next \in Live /\ next \in States /\ next \notin {"connecting", "restarting"}
    BY DEF Live, States
  <1> HIDE DEF b, n, next
  <1>5. e \in Clients
    BY <1>1, <1>2 DEF Clients
  <1>6. /\ ~e.bound /\ e.stopped = c.stopped /\ e.current = c.current /\ e.sentAuth = c.sentAuth
        /\ e.ready = c.ready /\ e.opened = c.opened /\ e.refused = c.refused /\ e.why = c.why
        /\ e.reads = c.reads /\ e.queue = c.queue /\ e.commands = c.commands
        /\ e.links = c.links /\ e.wire = c.wire /\ e.backoff = c.backoff
        /\ e.left = c.left /\ e.blurted = c.blurted
    BY <1>1, <1>2 DEF Clients
  <1> HIDE DEF e
  <1>7. d \in Clients /\ Kin(e, d) /\ d.state = next /\ ~d.patience
    BY <1>4, <1>5, SetStateKin
  <1> HIDE DEF d
  <1>8. Based(d) /\ ~d.bound /\ d.stopped = c.stopped /\ d.reads = c.reads
        /\ d.commands = c.commands /\ d.wire = c.wire /\ d.links = c.links /\ d.current = c.current
    BY <1>6, <1>7 DEF Up, Linked, Based, Kin
  <1>9. Timed(d)
    BY <1>1, <1>4, <1>6, <1>7, <1>8 DEF Timed, Up, Linked, Kin
  <1>10. Linked(d, u)
    BY <1>1, <1>4, <1>6, <1>7, <1>8 DEF Up, Linked, Kin, In
  <1>11. d.ready => d.queue \cap d.reads = {}
    BY <1>6, <1>7 DEF Up, Kin
  <1> QED
    BY <1>3, <1>7, <1>8, <1>9, <1>10, <1>11 DEF Sound, Up, next

-----------------------------------------------------------------------------
(* What the contract sees *)

\* Types of the calls, for every step below.
LEMMA CallsTyped ==
  ASSUME IInv
  PROVE  /\ client.reads \subseteq Reads /\ client.commands \subseteq Commands
         /\ client.wire \subseteq Reads \cup Commands /\ Waiting \subseteq Reads \cup Commands
         /\ client.state \in States /\ client.stopped \in BOOLEAN
  BY DEF IInv, Sound, Up, Linked, Down, Based, Clients, Waiting

LEMMA NothingSeen ==
  ASSUME client'.state = client.state, client'.stopped = client.stopped,
         Waiting' = Waiting, used' = used
  PROVE  UNCHANGED Contract!vars
  BY DEF Contract!vars, Calls

\* A transition: reads stay, commands stay only where the contract has them.
LEMMA MoveSeen ==
  ASSUME IInv, ~client.stopped, client'.stopped = client.stopped,
         client'.state \in Contract!After(client.state), used' = used,
         client'.reads = client.reads,
         client'.commands = IF Contract!HoldsCommands(client'.state) THEN client.commands ELSE {}
  PROVE  Contract!Next
  <1> DEFINE next == client'.state
  <1>1. next \in Contract!After(client.state) /\ Waiting \subseteq used
    BY DEF IInv
  <1>2. Calls' = IF Contract!HoldsCommands(next) THEN Calls ELSE Contract!Settle(Commands)
    <2>1. CASE Contract!HoldsCommands(next)
      BY <2>1 DEF Calls, Waiting
    <2>2. CASE ~Contract!HoldsCommands(next)
      <3>1. Waiting' = client.reads
        BY <2>2 DEF Waiting
      <3>2. client.reads \cap Commands = {}
        BY CallsTyped, WsClientAssumption
      <3> QED
        BY <1>1, <2>2, <3>1, <3>2, CallsTyped DEF Calls, Contract!Settle, Waiting
    <2> QED
      BY <2>1, <2>2
  <1>3. Contract!Moves(next)
    BY <1>1, <1>2 DEF Contract!Moves
  <1> QED
    BY <1>1, <1>3 DEF Contract!Next

\* The connection ends while the unit restarts, or under a new attempt.
LEMMA DropSeen ==
  ASSUME IInv, client.state \in {"restarting", "connecting"}, client'.state = client.state,
         client'.stopped = client.stopped, used' = used,
         client'.reads = client.reads, client'.commands = {}
  PROVE  Contract!Next
  <1>1. Waiting \subseteq used /\ client.reads \cap Commands = {} /\ Waiting' = client.reads
    BY CallsTyped, WsClientAssumption DEF IInv, Waiting
  <1>2. Calls' = Contract!Settle(Commands)
    BY <1>1, CallsTyped DEF Calls, Contract!Settle, Waiting
  <1> QED
    BY <1>2 DEF Contract!Next, Contract!Drops

\* connect() of a client whose unit restarts.
LEMMA ReconnectSeen ==
  ASSUME IInv, ~client.stopped, client'.stopped = client.stopped, client.state = "restarting",
         client'.state = "connecting", used' = used, Waiting' = Waiting
  PROVE  Contract!Next
  BY DEF Contract!Next, Contract!Reconnects, Calls

LEMMA CloseSeen ==
  ASSUME IInv, client'.state = "offline", client'.stopped, client'.stopped \in BOOLEAN,
         used' = used, Waiting' = {}
  PROVE  Contract!Next
  <1>1. Calls' = Contract!Settle(DOMAIN Calls)
    BY DEF IInv, Calls, Contract!Settle
  <1> QED
    BY <1>1 DEF Contract!Next, Contract!Closes

LEMMA OpenSeen ==
  ASSUME IInv, client.stopped, client.state = "offline",
         client'.stopped \in BOOLEAN, ~client'.stopped, client'.state = "connecting",
         used' = used, Waiting' = Waiting
  PROVE  Contract!Next
  BY CallsTyped DEF Contract!Next, Contract!Opens, Calls

\* An answer or a time limit; one that comes too late is not seen.
LEMMA SettleSeen ==
  ASSUME IInv, NEW id, client'.state = client.state, client'.stopped = client.stopped,
         used' = used, Waiting' = Waiting \ {id}
  PROVE  [Contract!Next]_(Contract!vars)
  <1>1. CASE id \notin Waiting
    BY <1>1, NothingSeen
  <1>2. CASE id \in Waiting
    <2>1. id \in DOMAIN Calls /\ Calls[id] = "waiting" /\ id \in used
      BY <1>2, CallsTyped DEF Calls, IInv
    <2>2. Calls' = Contract!Settle({id})
      BY <2>1, CallsTyped DEF Calls, Contract!Settle
    <2>3. Contract!Settles(id)
      BY <2>1, <2>2 DEF Contract!Settles
    <2> QED
      BY <2>1, <2>3 DEF Contract!Next
  <1> QED
    BY <1>1, <1>2

\* request() and command(): accepted, or a command refused in the call.
LEMMA CallSeen ==
  ASSUME IInv, NEW id \in Reads \cup Commands, id \notin used, used' = used \cup {id},
         client'.state = client.state, client'.stopped = client.stopped,
         Waiting' = IF id \in Reads \/ client.state \in Live THEN Waiting \cup {id} ELSE Waiting
  PROVE  Contract!Next
  <1>1. id \notin Waiting /\ Calls[id] = "none"
    BY DEF IInv, Calls
  <1>2. CASE id \in Reads
    <2>1. Calls' = [Calls EXCEPT ![id] = "waiting"]
      BY <1>1, <1>2 DEF Calls
    <2>2. Contract!Request(id)
      BY <1>1, <1>2, <2>1 DEF Contract!Request
    <2> QED
      BY <1>2, <2>2 DEF Contract!Next
  <1>3. CASE id \in Commands
    <2>1. id \notin Reads
      BY <1>3, WsClientAssumption
    <2>2. Calls' = [Calls EXCEPT ![id] = IF client.state \in Live THEN "waiting" ELSE "settled"]
      BY <1>1, <2>1 DEF Calls
    <2>3. Contract!Command(id)
      BY <1>1, <1>3, <2>2 DEF Contract!Command, Live, Contract!Live
    <2> QED
      BY <1>3, <2>3 DEF Contract!Next
  <1> QED
    BY <1>2, <1>3

-----------------------------------------------------------------------------
(* The steps *)

\* The action properties, of one step.
Unreplayed ==
  \A k \in Commands : k \in client'.wire \ client.wire => k \notin used /\ client.state \in Live
Unrefused ==
  client'.state = "unauthorized" /\ client.state # "unauthorized" =>
    \E s \in Sockets : client.links[s].at = "open"

\* What every step keeps, and what it shows to the contract.
Step ==
  /\ IInv'
  /\ [Contract!Next]_(Contract!vars)
  /\ Unreplayed /\ Unrefused

LEMMA Grounds ==
  ASSUME IInv
  PROVE  /\ client \in Clients /\ Timed(client) /\ Sound(client, required)
         /\ Up(client, required) \/ (Down(client) /\ client.state \notin Live)
         /\ Waiting \subseteq used /\ required \in BOOLEAN
         /\ NoSocket \notin Sockets
  BY WsClientAssumption DEF IInv, Sound, Up, Linked, Down, Based

\* Up and Down look at these.
Same(c, d) ==
  /\ d.refused = c.refused /\ d.sentAuth = c.sentAuth /\ d.opened = c.opened /\ d.why = c.why
  /\ d.current = c.current /\ d.links = c.links /\ d.stopped = c.stopped
  /\ d.state = c.state /\ d.wire = c.wire /\ d.ready = c.ready /\ d.ping = c.ping
  /\ d.left = c.left /\ d.blurted = c.blurted /\ d.pong = c.pong /\ d.commands = c.commands /\ d.reads = c.reads /\ d.queue = c.queue

LEMMA SameKept ==
  ASSUME NEW c, NEW d \in Clients, NEW u, Same(c, d)
  PROVE  /\ Up(c, u) /\ d.backoff = "off" => Up(d, u)
         /\ Down(c) => Down(d)
  BY DEF Same, Up, Linked, Down, Based, In

LEMMA RebuildSound ==
  ASSUME NEW c, NEW visible \in BOOLEAN, Idle(c, visible), Down(c), Rebuild(c, visible)
  PROVE  /\ Sound(client', required) /\ ~client'.stopped /\ client'.reads = c.reads
         /\ client'.commands = {} /\ client'.wire = {}
         /\ client'.state = IF visible THEN "connecting" ELSE "restarting"
  BY BeginSound, BeginThrowsSound DEF Rebuild, Down

\* A client that Sound describes is one, whatever its connection.
LEMMA SoundTyped ==
  ASSUME NEW c, NEW u, Sound(c, u)
  PROVE  c \in Clients /\ c.stopped \in BOOLEAN
  BY DEF Sound, Up, Linked, Down, Based, Clients

LEMMA BackoffStep ==
  ASSUME IInv, BackoffFires
  PROVE  Step
  <1> DEFINE c == [client EXCEPT !.backoff = "off"]
             visible == client.backoff = "visible"
  <1>1. client \in Clients /\ Timed(client) /\ Down(client) /\ client.backoff \in {"visible", "hidden"}
    BY Grounds DEF BackoffFires, Up, Linked, Clients
  <1>2. c \in Clients /\ Same(client, c) /\ c.bound = client.bound /\ c.patience = client.patience
    BY <1>1 DEF Clients, Same
  <1>3. Rebuild(c, visible) /\ UNCHANGED <<required, token, used>>
    BY DEF BackoffFires
  <1>0. visible <=> client.backoff = "visible"
    OBVIOUS
  <1> HIDE DEF c
  <1>4. Idle(c, visible) /\ Down(c) /\ c.reads = client.reads
    <2>1. Down(c)
      BY <1>1, <1>2, SameKept
    <2>2. Loose(c)
      BY <1>2, <2>1 DEF Down, Loose
    <2>3. /\ c.state = client.state /\ c.stopped = client.stopped /\ c.reads = client.reads
      BY <1>2 DEF Same
    <2>4. ~client.stopped /\ (client.patience => client.state = "restarting")
      BY <1>1 DEF Timed
    <2>5. ~visible => client.state = "restarting" /\ ~client.bound
      BY <1>0, <1>1 DEF Timed
    <2> QED
      BY <1>2, <2>1, <2>2, <2>3, <2>4, <2>5 DEF Idle
  <1>5. visible \in BOOLEAN
    OBVIOUS
  <1> HIDE DEF visible
  <1>6. /\ Sound(client', required) /\ ~client'.stopped /\ client'.reads = client.reads
        /\ client'.commands = {} /\ client'.wire = {}
        /\ client'.state = IF visible THEN "connecting" ELSE "restarting"
    BY <1>3, <1>4, <1>5, RebuildSound
  <1>7. client'.stopped = client.stopped /\ client.commands = {} /\ ~client.stopped
    BY <1>1, <1>6, SoundTyped DEF Timed, Clients, Down
  <1>8. Waiting' = Waiting /\ IInv'
    BY <1>3, <1>6, <1>7 DEF IInv, Waiting
  <1>9. [Contract!Next]_(Contract!vars)
    <2>1. CASE client'.state = client.state
      BY <1>3, <1>7, <1>8, <2>1, NothingSeen
    <2>2. CASE client'.state # client.state
      <3>1. client.state = "offline" /\ client'.state = "connecting"
        BY <1>1, <1>6, <2>2 DEF Timed, visible
      <3> QED
        BY <1>3, <1>6, <1>7, <3>1, MoveSeen DEF Contract!After, Contract!HoldsCommands, Contract!Live
    <2> QED
      BY <2>1, <2>2
  <1> QED
    BY <1>6, <1>8, <1>9 DEF Step, Unreplayed, Unrefused

\* A timer that gives a connection up.
LEMMA GivenUpStep ==
  ASSUME IInv, NEW c, Up(c, required) \/ Down(c), ~c.bound, c.reads = client.reads,
         client.state \in {"connecting", "restarting"}, ~client.stopped, c.stopped = client.stopped,
         client' = EnterOffline(Lost(Discard(c))), UNCHANGED <<required, token, used>>
  PROVE  Step
  <1> DEFINE b == Lost(Discard(c))
  <1>1. Down(b) /\ ~b.stopped /\ ~b.bound /\ b.reads = client.reads
    BY CutDown, WsClientAssumption DEF Alike, Single, Up, Linked, Down
  <1> HIDE DEF b
  <1>2. /\ Sound(client', required) /\ Down(client') /\ client'.state = "offline"
        /\ ~client'.stopped /\ client'.reads = client.reads
    BY <1>1, OfflineSound DEF b
  <1>3. client'.stopped = client.stopped /\ client'.commands = {} /\ client'.wire = {}
    BY <1>2, Grounds, SoundTyped DEF Down, Clients
  <1>4. IInv'
    BY <1>2, <1>3 DEF IInv, Waiting
  <1>5. Contract!Next
    BY <1>2, <1>3, MoveSeen DEF Contract!After, Contract!HoldsCommands, Contract!Live
  <1> QED
    BY <1>2, <1>3, <1>4, <1>5 DEF Step, Unreplayed, Unrefused

LEMMA BoundStep ==
  ASSUME IInv, BoundFires
  PROVE  Step
  <1> DEFINE c == [client EXCEPT !.bound = FALSE, !.error = "connect_timeout"]
  <1>1. client \in Clients /\ client.state = "connecting" /\ ~client.stopped
    BY Grounds DEF BoundFires, Timed
  <1>2. /\ c \in Clients /\ Same(client, c) /\ ~c.bound /\ c.backoff = client.backoff
    BY <1>1 DEF Clients, Same, Errors
  <1>3. client' = EnterOffline(Lost(Discard(c))) /\ UNCHANGED <<required, token, used>>
    BY DEF BoundFires
  <1> HIDE DEF c
  <1>4. Up(c, required) \/ Down(c)
    BY <1>2, Grounds, SameKept DEF Up, Linked
  <1> QED
    BY <1>1, <1>2, <1>3, <1>4, GivenUpStep DEF Same

LEMMA PatienceStep ==
  ASSUME IInv, PatienceFires
  PROVE  Step
  <1> DEFINE c == [client EXCEPT !.patience = FALSE, !.backoff = "off"]
  <1>1. client \in Clients /\ client.state = "restarting" /\ ~client.stopped /\ ~client.bound
    BY Grounds DEF PatienceFires, Timed
  <1>2. c \in Clients /\ Same(client, c) /\ c.bound = client.bound /\ c.backoff = "off"
    BY <1>1 DEF Clients, Same
  <1>3. client' = EnterOffline(Lost(Discard(c))) /\ UNCHANGED <<required, token, used>>
    BY DEF PatienceFires
  <1> HIDE DEF c
  <1>4. Up(c, required) \/ Down(c)
    BY <1>2, Grounds, SameKept
  <1> QED
    BY <1>1, <1>2, <1>3, <1>4, GivenUpStep DEF Same

\* A step that leaves what the contract sees alone.
LEMMA UnseenStep ==
  ASSUME IInv, Sound(client', required), client'.state = client.state,
         client'.stopped = client.stopped, client'.reads = client.reads,
         client'.commands = client.commands, client'.wire \subseteq client.wire \cup Reads,
         UNCHANGED <<required, used>>, token' \in {"none", "right", "wrong"}
  PROVE  Step
  <1>1. Waiting' = Waiting /\ IInv'
    BY DEF IInv, Waiting
  <1>2. UNCHANGED Contract!vars
    BY <1>1, NothingSeen
  <1>3. Unreplayed
    BY WsClientAssumption DEF Unreplayed
  <1> QED
    BY <1>1, <1>2, <1>3 DEF Step, Unrefused

LEMMA PingStep ==
  ASSUME IInv, PingFires
  PROVE  Step
  <1> DEFINE link == client.links[client.current]
             heard == link.at = "open"
             lawful == Admitted(client.current) \/ link.auth # "none"
             owed == link.owed \/ (heard /\ lawful)
             blurted == client.blurted \/ (heard /\ ~lawful)
             f == [client.links EXCEPT ![client.current].owed = owed]
             d == [client EXCEPT !.ping = FALSE, !.pong = TRUE, !.links = f, !.blurted = blurted]
  <1>1. /\ client \in Clients /\ Up(client, required)
        /\ client.current \in Sockets /\ client.current # NoSocket
    BY Grounds DEF PingFires, Up, Linked, Down
  <1>2. client.links \in [Sockets -> Links]
    BY <1>1 DEF Clients
  <1>3. client' = d /\ UNCHANGED <<required, token, used>>
    BY <1>1, <1>2 DEF PingFires
  <1>4. owed \in BOOLEAN /\ blurted \in BOOLEAN /\ (client.blurted => blurted)
    BY <1>1, <1>2 DEF Links, Clients
  <1> HIDE DEF owed, blurted
  <1>5. /\ f \in [Sockets -> Links] /\ f[client.current].at = client.links[client.current].at
        /\ f[client.current].acked = client.links[client.current].acked
        /\ f[client.current].auth = client.links[client.current].auth
        /\ \A s \in Sockets \ {client.current} : f[s] = client.links[s]
    BY <1>1, <1>2, <1>4 DEF Links
  <1> HIDE DEF f
  <1>6. d \in Clients
    BY <1>1, <1>4, <1>5 DEF Clients
  <1>7. /\ d.links = f /\ d.blurted = blurted
        /\ Kin([client EXCEPT !.links = f, !.blurted = blurted], d)
        /\ d.state = client.state /\ d.patience = client.patience
    BY <1>1 DEF Clients, Kin
  <1> HIDE DEF d
  <1>8. Timed(d) /\ Based(d) /\ d.current = client.current
    BY <1>1, <1>4, <1>6, <1>7, Grounds DEF Timed, Based, Kin, Clients, Up, Linked
  <1>9. In(d, required) <=> In(client, required)
    BY <1>1, <1>5, <1>7, <1>8 DEF In
  <1>10. Linked(d, required) /\ (d.ready => d.queue \cap d.reads = {})
    BY <1>1, <1>4, <1>5, <1>7, <1>8, <1>9 DEF Up, Linked, Kin, Clients
  <1>11. /\ d.stopped = client.stopped /\ d.reads = client.reads /\ d.wire = client.wire
         /\ d.commands = client.commands
    BY <1>1, <1>7 DEF Kin, Clients
  <1> QED
    BY <1>3, <1>7, <1>8, <1>10, <1>11, UnseenStep DEF Sound, Up, IInv

LEMMA PongTimeoutStep ==
  ASSUME IInv, PongFires
  PROVE  Step
  <1> DEFINE a == [client EXCEPT !.pong = FALSE, !.error = "pong_timeout"]
             c == Lost(Discard(a))
  <1>1. /\ client \in Clients /\ Up(client, required) /\ Timed(client)
        /\ client.state \in Live \cup {"connecting", "restarting"} /\ ~client.stopped
    BY Grounds DEF PongFires, Up, Linked, Down
  <1>2. /\ a \in Clients /\ Same([client EXCEPT !.pong = FALSE], a) /\ a.backoff = client.backoff
        /\ a.patience = client.patience /\ a.state = client.state /\ a.stopped = client.stopped
        /\ a.reads = client.reads
    BY <1>1 DEF Clients, Same, Errors
  <1>3. Up(a, required)
    BY <1>1, <1>2 DEF Up, Linked, Based, In, Same, Clients
  <1>4. UNCHANGED <<required, token, used>> /\ (Rebuild(c, TRUE) \/ client' = Begin(c, TRUE))
    BY DEF PongFires
  <1> HIDE DEF a
  <1>5. Idle(c, TRUE) /\ Down(c) /\ c.reads = client.reads
    <2>1. Single(a)
      BY <1>3 DEF Up, Linked, Single
    <2> QED
      BY <1>1, <1>2, <2>1, CutDown DEF Idle, Down, Loose, Alike, Timed
  <1> HIDE DEF c
  <1>6. /\ Sound(client', required) /\ ~client'.stopped /\ client'.reads = client.reads
        /\ client'.commands = {} /\ client'.wire = {} /\ client'.state = "connecting"
    BY <1>4, <1>5, RebuildSound, BeginSound DEF Down
  <1>7. client'.stopped = client.stopped
    BY <1>1, <1>6, SoundTyped DEF Clients
  <1>8. IInv'
    BY <1>4, <1>6, Grounds DEF IInv, Waiting
  <1>9. Contract!Next
    <2>1. CASE client.state = "connecting"
      BY <1>4, <1>6, <1>7, <2>1, DropSeen
    <2>2. CASE client.state # "connecting"
      BY <1>1, <1>4, <1>6, <1>7, <2>2, MoveSeen
         DEF Contract!After, Contract!HoldsCommands, Contract!Live, Live
    <2> QED
      BY <2>1, <2>2
  <1> QED
    BY <1>6, <1>8, <1>9 DEF Step, Unreplayed, Unrefused

\* The time limits.
LEMMA ReadLimitStep ==
  ASSUME IInv, NEW r \in Reads, ReadTimesOut(r)
  PROVE  Step
  <1> DEFINE d == [client EXCEPT !.reads = @ \ {r}, !.queue = @ \ {r}]
  <1>1. client' = d /\ UNCHANGED <<required, token, used>> /\ client \in Clients
    BY Grounds DEF ReadTimesOut
  <1>2. d \in Clients
    BY <1>1 DEF Clients
  <1>3. /\ d.reads = client.reads \ {r} /\ d.queue = client.queue \ {r}
        /\ Same([client EXCEPT !.reads = d.reads, !.queue = d.queue], d)
        /\ d.state = client.state /\ d.stopped = client.stopped /\ d.commands = client.commands
        /\ d.backoff = client.backoff /\ d.bound = client.bound /\ d.patience = client.patience
        /\ d.gotStats = client.gotStats /\ d.wire = client.wire
    BY <1>1 DEF Clients, Same
  <1> HIDE DEF d
  <1>4. Timed(d) /\ Based(d)
    BY <1>1, <1>2, <1>3, Grounds DEF Timed, Based, Same, Up, Linked, Down, Clients
  <1>5. Up(client, required) => Up(d, required)
    BY <1>1, <1>3, <1>4 DEF Up, Linked, In, Same, Clients
  <1>6. Down(client) => Down(d)
    BY <1>1, <1>3, <1>4 DEF Down, Same, Clients
  <1>7. Sound(d, required)
    BY <1>3, <1>4, <1>5, <1>6, Grounds DEF Sound
  <1>8. Waiting' = Waiting \ {r}
    BY <1>1, <1>3, CallsTyped, WsClientAssumption DEF Waiting
  <1>9. IInv'
    BY <1>1, <1>7, <1>8 DEF IInv
  <1>10. [Contract!Next]_(Contract!vars)
    BY <1>1, <1>3, <1>8, SettleSeen
  <1> QED
    BY <1>1, <1>3, <1>9, <1>10 DEF Step, Unreplayed, Unrefused

LEMMA CommandLimitStep ==
  ASSUME IInv, NEW k \in Commands, CommandTimesOut(k)
  PROVE  Step
  <1> DEFINE d == [client EXCEPT !.commands = @ \ {k}]
  <1>1. client' = d /\ UNCHANGED <<required, token, used>> /\ client \in Clients
    BY Grounds DEF CommandTimesOut
  <1>2. d \in Clients
    BY <1>1 DEF Clients
  <1>3. /\ d.commands = client.commands \ {k}
        /\ Same([client EXCEPT !.commands = d.commands], d)
        /\ d.state = client.state /\ d.stopped = client.stopped /\ d.reads = client.reads
        /\ d.backoff = client.backoff /\ d.bound = client.bound /\ d.patience = client.patience
        /\ d.gotStats = client.gotStats /\ d.wire = client.wire
    BY <1>1 DEF Clients, Same
  <1> HIDE DEF d
  <1>4. Timed(d) /\ Based(d)
    BY <1>1, <1>2, <1>3, Grounds DEF Timed, Based, Same, Up, Linked, Down, Clients
  <1>5. Up(client, required) => Up(d, required)
    BY <1>1, <1>3, <1>4 DEF Up, Linked, In, Same, Clients
  <1>6. Down(client) => Down(d)
    BY <1>1, <1>3, <1>4 DEF Down, Same, Clients
  <1>7. Sound(d, required)
    BY <1>3, <1>4, <1>5, <1>6, Grounds DEF Sound
  <1>8. Waiting' = Waiting \ {k}
    BY <1>1, <1>3, CallsTyped, WsClientAssumption DEF Waiting
  <1>9. IInv'
    BY <1>1, <1>7, <1>8 DEF IInv
  <1>10. [Contract!Next]_(Contract!vars)
    BY <1>1, <1>3, <1>8, SettleSeen
  <1> QED
    BY <1>1, <1>3, <1>9, <1>10 DEF Step, Unreplayed, Unrefused

\* In any state: what was on the socket that it discards is left behind.
LEMMA ConnectStep ==
  ASSUME IInv, Connect
  PROVE  Step
  <1> DEFINE c == [client EXCEPT !.stopped = FALSE, !.backoff = "off"]
             left == Discard(c).left \cup ((c.reads \cup c.commands) \ c.queue)
             d == [Discard(c) EXCEPT !.patience = FALSE, !.left = left]
  <1>1. client \in Clients /\ UNCHANGED <<required, token, used>> /\ Timed(client)
    BY Grounds DEF Connect
  <1>2. /\ c \in Clients /\ ~c.stopped /\ c.backoff = "off" /\ c.reads = client.reads
        /\ c.commands = client.commands /\ c.queue = client.queue /\ c.left = client.left
        /\ Same([client EXCEPT !.stopped = FALSE], c) /\ c.bound = client.bound
        /\ c.patience = client.patience /\ c.gotStats = client.gotStats
    BY <1>1 DEF Clients, Same
  <1>3. CASE client.state \in Live
    <2>1. client' = c
      BY <1>3 DEF Connect
    <2>2. Up(client, required)
      BY <1>3, Grounds
    <2>3. client.stopped = FALSE /\ client.backoff = "off"
      BY <2>2 DEF Up, Linked, Based, Clients
    <2>4. Same(client, c)
      BY <1>1, <2>3 DEF Clients, Same
    <2> HIDE DEF c
    <2>5. Sound(c, required)
      BY <1>1, <1>2, <2>2, <2>3, <2>4, SameKept DEF Sound, Timed, Same
    <2> QED
      BY <1>1, <2>1, <2>4, <2>5, UnseenStep DEF Same, IInv
  <1>4. CASE client.state \notin Live
    <2>1. \/ client' = Begin(d, TRUE)
          \/ client' = Closed([Prepare(d, TRUE) EXCEPT !.bound = FALSE])
      BY <1>4 DEF Connect
    <2>2. Single(c)
      <3>1. Single(client)
        BY Grounds DEF Up, Linked, Down, Single
      <3> QED
        BY <1>1, <1>2, <3>1 DEF Single, Based, Same, Clients
    <2> HIDE DEF c
    <2>3. /\ Based(Discard(c)) /\ Alike(c, Discard(c))
          /\ \A s \in Sockets : Discard(c).links[s].at = "free"
          /\ Discard(c).commands = c.commands /\ Discard(c).queue = c.queue
          /\ Discard(c).left = c.left
      BY <2>2, DiscardCut
    <2>4. left \in SUBSET (Reads \cup Commands) /\ c.commands \subseteq left
          /\ c.reads \subseteq c.queue \cup left
      BY <1>2, <2>3, WsClientAssumption DEF Clients
    <2> HIDE DEF left
    <2>5. d \in Clients
      BY <2>3, <2>4 DEF Based, Clients
    <2>6. /\ d.left = left /\ ~d.patience /\ ~d.stopped /\ d.reads = client.reads
          /\ d.commands = client.commands /\ Loose(d)
      BY <1>2, <2>3, <2>4, <2>5 DEF Based, Clients, Alike, Loose
    <2> HIDE DEF d
    <2>7. Idle(d, TRUE)
      BY <2>6 DEF Idle
    <2>8. CASE client' = Begin(d, TRUE)
      <3>1. /\ Sound(client', required) /\ ~client'.stopped /\ client'.reads = client.reads
            /\ client'.commands = client.commands /\ client'.wire = {}
            /\ client'.state = "connecting"
        BY <2>6, <2>7, <2>8, BeginSound
      <3>2. Waiting' = Waiting /\ IInv'
        BY <1>1, <3>1, Grounds DEF Waiting, IInv
      <3>3. [Contract!Next]_(Contract!vars)
        <4>1. CASE client.stopped
          BY <1>1, <3>1, <3>2, <4>1, OpenSeen, SoundTyped DEF Timed
        <4>2. CASE ~client.stopped /\ client.state \in {"offline", "unauthorized"}
          <5>1. client.commands = {} /\ client'.stopped = client.stopped
            BY <1>1, <3>1, <4>2, Grounds, SoundTyped DEF Up, Linked, Down, Clients, Live
          <5> QED
            BY <1>1, <3>1, <3>2, <4>2, <5>1, MoveSeen
               DEF Contract!After, Contract!HoldsCommands, Contract!Live
        <4>3. CASE ~client.stopped /\ client.state = "restarting"
          BY <1>1, <3>1, <3>2, <4>3, ReconnectSeen, SoundTyped DEF Clients
        <4>4. CASE ~client.stopped /\ client.state = "connecting"
          BY <1>1, <3>1, <3>2, <4>4, NothingSeen, SoundTyped DEF Clients
        <4> QED
          BY <1>1, <1>4, <4>1, <4>2, <4>3, <4>4 DEF Clients, States
      <3> QED
        BY <3>1, <3>2, <3>3 DEF Step, Unreplayed, Unrefused
    <2>9. CASE client' = Closed([Prepare(d, TRUE) EXCEPT !.bound = FALSE])
      <3>1. /\ Sound(client', required) /\ Down(client') /\ client'.state = "offline"
            /\ client'.stopped /\ client'.reads = {}
        BY <2>7, <2>9, PreparedClosed
      <3>2. Waiting' = {} /\ client'.wire = {} /\ IInv'
        BY <1>1, <3>1 DEF Waiting, Down, IInv
      <3>3. Contract!Next
        BY <1>1, <3>1, <3>2, CloseSeen, SoundTyped
      <3> QED
        BY <3>1, <3>2, <3>3 DEF Step, Unreplayed, Unrefused
    <2> QED
      BY <2>1, <2>8, <2>9
  <1> QED
    BY <1>3, <1>4

LEMMA CloseStep ==
  ASSUME IInv, Close
  PROVE  Step
  <1>1. client' = Closed(client) /\ UNCHANGED <<required, token, used>>
    BY DEF Close
  <1>2. /\ Sound(client', required) /\ Down(client') /\ client'.state = "offline"
        /\ client'.stopped /\ client'.reads = {}
    BY <1>1, Grounds, ClosedSound DEF Up, Linked, Down, Single
  <1>3. Waiting' = {} /\ client'.wire = {} /\ IInv'
    BY <1>1, <1>2 DEF Waiting, Down, IInv
  <1>4. Contract!Next
    BY <1>1, <1>2, <1>3, CloseSeen, SoundTyped
  <1> QED
    BY <1>2, <1>3, <1>4 DEF Step, Unreplayed, Unrefused

LEMMA TokenStep ==
  ASSUME IInv, ChangeToken
  PROVE  Step
  BY UnseenStep, Grounds DEF ChangeToken

\* request(), on a usable connection or ahead of the next one.
LEMMA RequestStep ==
  ASSUME IInv, NEW r \in Reads, Request(r)
  PROVE  Step
  <1> DEFINE c == [client EXCEPT !.reads = @ \cup {r}, !.queue = @ \cup {r}]
  <1>1. /\ client' = Flush(c) /\ r \notin used /\ used' = used \cup {r}
        /\ UNCHANGED <<required, token>> /\ client \in Clients
    BY Grounds DEF Request
  <1>2. c \in Clients
    BY <1>1 DEF Clients
  <1>3. /\ c.reads = client.reads \cup {r} /\ c.queue = client.queue \cup {r}
        /\ Same([client EXCEPT !.reads = c.reads, !.queue = c.queue], c)
        /\ c.state = client.state /\ c.stopped = client.stopped /\ c.commands = client.commands
        /\ c.backoff = client.backoff /\ c.bound = client.bound /\ c.patience = client.patience
        /\ c.gotStats = client.gotStats /\ c.wire = client.wire
    BY <1>1 DEF Clients, Same
  <1> HIDE DEF c
  <1>4. Timed(c) /\ Based(c)
    BY <1>1, <1>2, <1>3, Grounds DEF Timed, Based, Same, Up, Linked, Down, Clients
  <1>5. Up(client, required) => Linked(c, required)
    BY <1>1, <1>3, <1>4 DEF Up, Linked, In, Same, Clients
  <1>6. Down(client) => Down(c)
    BY <1>1, <1>3, <1>4 DEF Down, Same, Clients
  <1>7. Sound(client', required) /\ Carried(c, client')
    <2>1. CASE Up(client, required)
      <3>1. Up(client', required) /\ Carried(c, client')
        BY <1>1, <1>5, <2>1, FlushUp
      <3> QED
        BY <1>4, <3>1 DEF Sound, Timed, Carried, Alike
    <2>2. CASE Down(client) /\ client.state \notin Live
      <3>1. Down(c) /\ Flush(c) = c
        BY <1>6, <2>2 DEF Flush, Down
      <3> QED
        BY <1>1, <1>3, <1>4, <2>2, <3>1 DEF Sound, Carried, Alike
    <2> QED
      BY <2>1, <2>2, Grounds
  <1>8. /\ client'.state = client.state /\ client'.stopped = client.stopped
        /\ client'.wire \subseteq client.wire \cup Reads /\ Waiting' = Waiting \cup {r}
    BY <1>3, <1>7 DEF Carried, Alike, Waiting
  <1>9. IInv' /\ Unreplayed
    BY <1>1, <1>7, <1>8, WsClientAssumption DEF IInv, Unreplayed
  <1>10. Contract!Next
    BY <1>1, <1>8, CallSeen
  <1> QED
    BY <1>8, <1>9, <1>10 DEF Step, Unrefused

\* command(): sent in the call, or refused.
LEMMA CommandStep ==
  ASSUME IInv, NEW k \in Commands, Command(k)
  PROVE  Step
  <1> DEFINE d == [client EXCEPT !.commands = @ \cup {k}, !.wire = @ \cup {k}]
  <1>1. /\ k \notin used /\ used' = used \cup {k} /\ k \notin Reads
        /\ UNCHANGED <<required, token>> /\ client \in Clients
    BY Grounds, WsClientAssumption DEF Command
  <1>2. CASE client.state \in Live
    <2>1. Up(client, required) /\ client.current # NoSocket /\ In(client, required)
      BY <1>2, Grounds DEF Up, Linked
    <2>2. client' = d
      BY <1>2, <2>1 DEF Command
    <2>3. d \in Clients
      BY <1>1 DEF Clients
    <2>4. /\ d.commands = client.commands \cup {k} /\ d.wire = client.wire \cup {k}
          /\ Same([client EXCEPT !.commands = d.commands, !.wire = d.wire], d)
          /\ d.state = client.state /\ d.stopped = client.stopped /\ d.reads = client.reads
          /\ d.backoff = client.backoff /\ d.bound = client.bound /\ d.patience = client.patience
          /\ d.gotStats = client.gotStats
      BY <1>1 DEF Clients, Same
    <2> HIDE DEF d
    <2>5. Timed(d) /\ Based(d)
      BY <1>1, <2>1, <2>3, <2>4, Grounds DEF Timed, Based, Same, Up, Linked, Clients
    <2>6. Up(d, required)
      BY <1>1, <1>2, <2>1, <2>4, <2>5 DEF Up, Linked, In, Same, Clients
    <2>7. Waiting' = Waiting \cup {k}
      BY <2>2, <2>4 DEF Waiting
    <2>8. IInv' /\ Unreplayed
      BY <1>1, <1>2, <2>2, <2>4, <2>5, <2>6, <2>7 DEF IInv, Unreplayed, Sound
    <2>9. Contract!Next
      BY <1>1, <1>2, <2>2, <2>4, <2>7, CallSeen
    <2> QED
      BY <2>2, <2>4, <2>8, <2>9 DEF Step, Unrefused
  <1>3. CASE client.state \notin Live
    <2>1. client' = client
      BY <1>3 DEF Command
    <2>2. Waiting' = Waiting
      BY <2>1 DEF Waiting
    <2>3. IInv' /\ Unreplayed
      BY <1>1, <2>1, <2>2 DEF IInv, Unreplayed
    <2>4. Contract!Next
      BY <1>1, <1>3, <2>1, <2>2, CallSeen
    <2> QED
      BY <2>1, <2>3, <2>4 DEF Step, Unrefused
  <1> QED
    BY <1>2, <1>3

\* A frame is heard on the current socket of a client that is not closed.
LEMMA Hearing ==
  ASSUME IInv, NEW s \in Sockets, client.links[s].at \in {"opening", "open", "silent"}
  PROVE  /\ Up(client, required) /\ s = client.current /\ ~client.stopped
         /\ client \in Clients /\ Timed(client)
         /\ client.links \in [Sockets -> Links] /\ client.links[s] \in Links
         /\ client.state \in Live \cup {"connecting", "restarting"}
         /\ Admitted(s) <=> In(client, required)
  <1>1. Up(client, required) /\ client \in Clients /\ Timed(client)
    BY Grounds DEF Down
  <1>2. s = client.current
    BY <1>1 DEF Up, Linked
  <1> QED
    BY <1>1, <1>2 DEF Up, Linked, Clients, Admitted, In

\* Carried changes nothing that the timers look at.
LEMMA CarriedTimed ==
  ASSUME NEW c, NEW d, Carried(c, d), Timed(c)
  PROVE  Timed(d)
  BY DEF Carried, Alike, Timed

LEMMA StatsStep ==
  ASSUME IInv, NEW s \in Sockets, NEW fresh \in BOOLEAN, Stats(s, fresh)
  PROVE  Step
  <1> DEFINE c == Seen(client)
  <1>1. /\ client' = HandleStats(c, fresh) /\ UNCHANGED <<required, token, used>>
        /\ Hears(s) /\ Admitted(s)
    BY DEF Stats
  <1>2. /\ Up(client, required) /\ In(client, required) /\ Timed(client) /\ ~client.stopped
        /\ client.state \in Live \cup {"connecting", "restarting"}
    BY <1>1, Hearing DEF Hears
  <1>3. Up(c, required) /\ Carried(client, c) /\ Timed(c)
    BY <1>2, SeenUp, CarriedTimed
  <1> HIDE DEF c
  <1>4. In(c, required)
    BY <1>2, <1>3 DEF In, Carried
  <1>5. /\ Sound(client', required) /\ client'.state \in Live
        /\ client'.stopped = c.stopped /\ client'.reads = c.reads
        /\ client'.commands = c.commands /\ client'.wire = c.wire
    BY <1>1, <1>3, <1>4, StatsUp DEF Live
  <1>6. /\ client'.stopped = client.stopped /\ client'.reads = client.reads
        /\ client'.commands = client.commands /\ client'.wire \subseteq client.wire \cup Reads
    BY <1>3, <1>5 DEF Carried, Alike
  <1>7. IInv' /\ Unreplayed
    BY <1>1, <1>5, <1>6, Grounds, WsClientAssumption DEF IInv, Waiting, Unreplayed
  <1>8. client'.state \in Contract!After(client.state) /\ Contract!HoldsCommands(client'.state)
    BY <1>2, <1>5 DEF Contract!After, Contract!HoldsCommands, Contract!Live, Live
  <1>9. Contract!Next
    BY <1>1, <1>2, <1>6, <1>8, MoveSeen
  <1> QED
    BY <1>5, <1>7, <1>9 DEF Step, Unrefused, Live

LEMMA PushStep ==
  ASSUME IInv, NEW s \in Sockets, Push(s)
  PROVE  Step
  <1>1. client' = Seen(client) /\ UNCHANGED <<required, token, used>> /\ Hears(s) /\ Admitted(s)
    BY DEF Push
  <1>2. Up(client, required) /\ In(client, required) /\ Timed(client)
    BY <1>1, Hearing DEF Hears
  <1>3. Up(client', required) /\ Carried(client, client') /\ Timed(client')
    BY <1>1, <1>2, SeenUp, CarriedTimed
  <1> QED
    BY <1>1, <1>3, UnseenStep DEF Sound, Carried, Alike, IInv

LEMMA BadFrameStep ==
  ASSUME IInv, NEW s \in Sockets, BadFrame(s)
  PROVE  Step
  <1> DEFINE d == [client EXCEPT !.error = "bad_frame"]
  <1>1. client' = d /\ UNCHANGED <<required, token, used>> /\ Hears(s)
    BY DEF BadFrame
  <1>2. Up(client, required) /\ Timed(client) /\ client \in Clients
    BY <1>1, Hearing DEF Hears
  <1>3. d \in Clients
    BY <1>2 DEF Clients, Errors
  <1>4. /\ Same(client, d) /\ d.bound = client.bound /\ d.patience = client.patience
        /\ d.backoff = client.backoff /\ d.gotStats = client.gotStats
    BY <1>2 DEF Clients, Same
  <1> HIDE DEF d
  <1>5. Sound(d, required)
    BY <1>2, <1>3, <1>4, SameKept DEF Sound, Timed, Same, Up, Linked
  <1> QED
    BY <1>1, <1>4, <1>5, UnseenStep DEF Same, IInv

LEMMA RestartingStep ==
  ASSUME IInv, NEW s \in Sockets, NEW reason \in {"mode_change", "reboot", "shutdown"},
         Restarting(s, reason)
  PROVE  Step
  <1> DEFINE c == Seen(client)
             a == [c EXCEPT !.reason = reason, !.bound = FALSE]
             b == SetState(a, "restarting")
             p == reason # "shutdown"
             d == [b EXCEPT !.patience = p, !.announced = TRUE]
  <1>1. /\ client' = HandleRestarting(c, reason) /\ UNCHANGED <<required, token, used>>
        /\ Hears(s) /\ Admitted(s)
    BY DEF Restarting
  <1>2. /\ Up(client, required) /\ In(client, required) /\ Timed(client) /\ ~client.stopped
        /\ client.state \in Live \cup {"connecting", "restarting"}
    BY <1>1, Hearing DEF Hears
  <1>3. Up(c, required) /\ Carried(client, c) /\ Timed(c)
    BY <1>2, SeenUp, CarriedTimed
  <1>4. client' = d
    BY <1>1 DEF HandleRestarting
  <1> HIDE DEF c
  <1>5. c \in Clients /\ c.backoff = "off" /\ c.stopped = client.stopped /\ c.stopped = FALSE
    BY <1>2, <1>3 DEF Up, Linked, Based, Carried, Alike, Clients
  <1>6. a \in Clients
    BY <1>5 DEF Clients
  <1>7. /\ ~a.bound /\ Same(c, a) /\ a.backoff = c.backoff
    BY <1>5 DEF Same, Clients
  <1> HIDE DEF a
  <1>8. Up(a, required)
    BY <1>3, <1>5, <1>6, <1>7, SameKept
  <1>9. "restarting" \in States \ Live
    BY DEF States, Live
  <1>10. b \in Clients /\ Kin(a, b) /\ b.state = "restarting" /\ (b.ping => a.ping) /\ (b.pong => a.pong)
    BY <1>6, <1>9, SetStateKin
  <1> HIDE DEF b
  <1>11. p \in BOOLEAN
    OBVIOUS
  <1> HIDE DEF p
  <1>12. d \in Clients
    BY <1>10, <1>11 DEF Clients
  <1>13. Same(b, d) /\ d.backoff = b.backoff /\ d.bound = b.bound
    BY <1>10 DEF Same, Clients
  <1> HIDE DEF d
  <1>14. Timed(d)
    BY <1>5, <1>7, <1>10, <1>13 DEF Timed, Same, Kin
  <1>15. Up(b, required)
    BY <1>8, <1>10 DEF Up, Linked, Based, In, Kin, Live
  <1>16. Up(d, required)
    BY <1>5, <1>7, <1>10, <1>12, <1>13, <1>15, SameKept DEF Kin
  <1>17. /\ d.state = "restarting" /\ d.stopped = client.stopped /\ d.reads = client.reads
         /\ d.commands = client.commands /\ d.wire \subseteq client.wire \cup Reads
    BY <1>3, <1>7, <1>10, <1>13 DEF Same, Kin, Carried, Alike
  <1>18. Sound(d, required)
    BY <1>14, <1>16 DEF Sound
  <1>19. CASE client.state = "restarting"
    BY <1>1, <1>4, <1>17, <1>18, <1>19, UnseenStep DEF IInv
  <1>20. CASE client.state # "restarting"
    <2>1. IInv' /\ Unreplayed
      BY <1>1, <1>4, <1>17, <1>18, Grounds, WsClientAssumption DEF IInv, Waiting, Unreplayed
    <2>2. client'.state \in Contract!After(client.state) /\ Contract!HoldsCommands(client'.state)
      BY <1>2, <1>4, <1>17, <1>20 DEF Contract!After, Contract!HoldsCommands, Contract!Live, Live
    <2>3. Contract!Next
      BY <1>1, <1>2, <1>4, <1>17, <2>2, MoveSeen
    <2> QED
      BY <1>4, <1>17, <2>1, <2>3 DEF Step, Unrefused
  <1> QED
    BY <1>19, <1>20

\* A pong on the current socket, which the client pinged: it has been let in.
LEMMA PongStep ==
  ASSUME IInv, NEW s \in Sockets, Pong(s)
  PROVE  Step
  <1> DEFINE c == Seen(client)
             f == [c.links EXCEPT ![s].owed = FALSE]
             d == [c EXCEPT !.pong = FALSE, !.ping = TRUE, !.links = f]
  <1>1. /\ client' = [c EXCEPT !.pong = FALSE, !.ping = TRUE, !.links[s].owed = FALSE]
        /\ UNCHANGED <<required, token, used>> /\ Hears(s) /\ Admitted(s)
    BY DEF Pong
  <1>2. /\ Up(client, required) /\ Timed(client) /\ s = client.current
    BY <1>1, Hearing DEF Hears
  <1>3. In(client, required)
    BY <1>1, Hearing DEF Hears
  <1>4. Up(c, required) /\ Carried(client, c) /\ Timed(c)
    BY <1>2, <1>3, SeenUp, CarriedTimed
  <1> HIDE DEF c
  <1>5. c \in Clients /\ c.links \in [Sockets -> Links] /\ s = c.current /\ In(c, required)
    BY <1>2, <1>3, <1>4 DEF Up, Linked, Based, Carried, Alike, Clients, In
  <1>6. client' = d
    BY <1>1, <1>5
  <1>7. /\ f \in [Sockets -> Links] /\ f[s].at = c.links[s].at /\ ~f[s].owed
        /\ f[s].acked = c.links[s].acked /\ f[s].auth = c.links[s].auth
        /\ \A t \in Sockets \ {s} : f[t] = c.links[t]
    BY <1>5 DEF Links
  <1> HIDE DEF f
  <1>8. d \in Clients
    BY <1>5, <1>7 DEF Clients
  <1>9. /\ d.links = f /\ ~d.pong /\ d.ping /\ Alike(c, d) /\ d.current = c.current
        /\ d.ready = c.ready /\ d.why = c.why /\ d.queue = c.queue /\ d.commands = c.commands
        /\ d.wire = c.wire /\ d.left = c.left
    BY <1>5 DEF Clients, Alike
  <1> HIDE DEF d
  <1>10. Based(d) /\ Timed(d)
    BY <1>4, <1>8, <1>9 DEF Up, Linked, Based, Timed, Alike
  <1>11. In(d, required)
    BY <1>5, <1>7, <1>9 DEF In
  <1>12. Up(d, required)
    BY <1>4, <1>5, <1>7, <1>9, <1>10, <1>11 DEF Up, Linked, Alike
  <1> QED
    BY <1>1, <1>4, <1>6, <1>9, <1>10, <1>12, UnseenStep DEF Sound, Carried, Alike, IInv

LEMMA AckStep ==
  ASSUME IInv, NEW s \in Sockets, AckAuth(s)
  PROVE  Step
  <1> DEFINE c == Seen(client)
             f == [c.links EXCEPT ![s].acked = TRUE]
             d == [c EXCEPT !.ready = TRUE, !.links = f]
  <1>1. /\ client' = Flush([c EXCEPT !.ready = TRUE, !.links[s].acked = TRUE])
        /\ UNCHANGED <<required, token, used>> /\ Hears(s)
        /\ client.links[s].auth \in {"right", "wrong"}
    BY DEF AckAuth
  <1>2. /\ Up(client, required) /\ Timed(client) /\ s = client.current
    BY <1>1, Hearing DEF Hears
  <1>3. client.sentAuth
    BY <1>1, <1>2 DEF Up, Linked
  <1>4. Up(c, required) /\ Carried(client, c) /\ Timed(c)
    BY <1>2, <1>3, SeenUp, CarriedTimed
  <1> HIDE DEF c
  <1>5. c \in Clients /\ c.links \in [Sockets -> Links] /\ s = c.current
    BY <1>2, <1>4 DEF Up, Linked, Based, Carried, Clients
  <1>6. client' = Flush(d)
    BY <1>1, <1>5
  <1>7. /\ f \in [Sockets -> Links] /\ f[s].at = c.links[s].at /\ f[s].owed = c.links[s].owed
        /\ f[s].acked /\ f[s].auth = c.links[s].auth
        /\ \A t \in Sockets \ {s} : f[t] = c.links[t]
    BY <1>5 DEF Links
  <1> HIDE DEF f
  <1>8. d \in Clients
    BY <1>5, <1>7 DEF Clients
  <1>9. /\ d.links = f /\ Alike(c, d) /\ d.current = c.current /\ d.ping = c.ping
        /\ d.left = c.left /\ d.why = c.why /\ d.queue = c.queue /\ d.commands = c.commands
        /\ d.wire = c.wire
    BY <1>5 DEF Clients, Alike
  <1> HIDE DEF d
  <1>10. Based(d) /\ Timed(d)
    BY <1>4, <1>8, <1>9 DEF Up, Linked, Based, Timed, Alike
  <1>11. In(d, required)
    BY <1>5, <1>7, <1>9 DEF In
  <1>12. Linked(d, required)
    BY <1>4, <1>5, <1>7, <1>9, <1>10, <1>11 DEF Up, Linked, Alike
  <1>13. Up(client', required) /\ Carried(d, client')
    BY <1>6, <1>12, FlushUp
  <1>14. Timed(client')
    BY <1>10, <1>13, CarriedTimed
  <1> QED
    BY <1>1, <1>4, <1>9, <1>13, <1>14, UnseenStep DEF Sound, Carried, Alike, IInv

\* A refusal: of a token, or of a ping sent without one.
LEMMA UnauthorizedStep ==
  ASSUME IInv, NEW s \in Sockets, Unauthorized(s)
  PROVE  Step
  <1> DEFINE c == Seen(client)
             f == [c.links EXCEPT ![s].auth = "told"]
             d == [c EXCEPT !.refused = TRUE, !.error = "unauthorized", !.links = f]
  <1>1. /\ client' = [c EXCEPT !.refused = TRUE, !.error = "unauthorized",
                               !.links[s].auth = "told"]
        /\ UNCHANGED <<required, token, used>> /\ Hears(s)
        /\ required /\ ~client.links[s].acked
        /\ client.links[s].auth = "wrong" \/ client.wire # {} \/ client.blurted
    BY DEF Unauthorized
  <1>2. /\ Up(client, required) /\ Timed(client) /\ s = client.current
    BY <1>1, Hearing DEF Hears
  <1>3. (client.sentAuth \/ client.blurted) /\ client.opened
    BY <1>1, <1>2 DEF Up, Linked, In, Hears
  <1>4. Up(c, required) /\ Carried(client, c) /\ Timed(c)
    BY <1>2, <1>3, SeenUp, CarriedTimed
  <1> HIDE DEF c
  <1>5. c \in Clients /\ c.links \in [Sockets -> Links] /\ s = c.current
    BY <1>2, <1>4 DEF Up, Linked, Based, Carried, Clients
  <1>6. client' = d
    BY <1>1, <1>5
  <1>7. /\ f \in [Sockets -> Links] /\ f[s].at = c.links[s].at /\ f[s].owed = c.links[s].owed
        /\ f[s].acked = c.links[s].acked /\ f[s].auth = "told"
        /\ \A t \in Sockets \ {s} : f[t] = c.links[t]
    BY <1>5 DEF Links
  <1> HIDE DEF f
  <1>8. d \in Clients
    BY <1>5, <1>7 DEF Clients, Errors
  <1>9. /\ d.links = f /\ Alike([c EXCEPT !.refused = TRUE], d) /\ d.current = c.current
        /\ d.left = c.left /\ d.why = c.why /\ d.queue = c.queue
        /\ d.commands = c.commands /\ d.wire = c.wire /\ d.ready = c.ready
    BY <1>5 DEF Clients, Alike
  <1>10. /\ d.state = c.state /\ d.stopped = c.stopped /\ d.reads = c.reads /\ d.bound = c.bound
         /\ d.patience = c.patience /\ d.backoff = c.backoff /\ d.gotStats = c.gotStats
         /\ d.sentAuth = c.sentAuth /\ d.opened = c.opened /\ d.blurted = c.blurted
    BY <1>5, <1>9 DEF Alike, Clients
  <1> HIDE DEF d
  <1>11. Based(d) /\ Timed(d)
    BY <1>3, <1>4, <1>8, <1>9, <1>10 DEF Up, Linked, Based, Timed, Carried, Alike
  <1>12. In(d, required) <=> In(c, required)
    BY <1>5, <1>7, <1>9 DEF In
  <1>13. Up(d, required)
    BY <1>4, <1>5, <1>7, <1>9, <1>10, <1>11, <1>12 DEF Up, Linked
  <1> QED
    BY <1>1, <1>4, <1>6, <1>9, <1>10, <1>11, <1>13, UnseenStep DEF Sound, Carried, Alike, IInv

LEMMA AnswerStep ==
  ASSUME IInv, NEW s \in Sockets, NEW id \in Reads \cup Commands, Answer(s, id)
  PROVE  Step
  <1> DEFINE c == Seen(client)
  <1>1. PICK error \in {client.error, "frame"} :
          client' = [c EXCEPT !.reads = @ \ {id}, !.commands = @ \ {id}, !.error = error]
    BY DEF Answer
  <1>2. UNCHANGED <<required, token, used>> /\ Hears(s) /\ Admitted(s)
    BY DEF Answer
  <1> DEFINE d == [c EXCEPT !.reads = @ \ {id}, !.commands = @ \ {id}, !.error = error]
  <1>3. Up(client, required) /\ In(client, required) /\ Timed(client) /\ client \in Clients
    BY <1>2, Hearing DEF Hears
  <1>4. Up(c, required) /\ Carried(client, c) /\ Timed(c) /\ c \in Clients
    BY <1>3, SeenUp, CarriedTimed DEF Up, Linked, Based
  <1>5. error \in Errors
    BY <1>3 DEF Errors, Clients
  <1> HIDE DEF c
  <1>6. d \in Clients
    BY <1>4, <1>5 DEF Clients
  <1>7. /\ d.reads = c.reads \ {id} /\ d.commands = c.commands \ {id}
        /\ Same([c EXCEPT !.reads = d.reads, !.commands = d.commands], d)
        /\ d.state = c.state /\ d.stopped = c.stopped
        /\ d.backoff = c.backoff /\ d.bound = c.bound /\ d.patience = c.patience
        /\ d.gotStats = c.gotStats /\ d.wire = c.wire
    BY <1>4 DEF Clients, Same
  <1> HIDE DEF d
  <1>8. Timed(d) /\ Based(d)
    BY <1>4, <1>6, <1>7 DEF Timed, Based, Same, Up, Linked, Clients
  <1>9. Up(d, required)
    BY <1>4, <1>7, <1>8 DEF Up, Linked, In, Same, Clients
  <1>10. /\ Waiting' = Waiting \ {id} /\ client' = d
         /\ d.state = client.state /\ d.stopped = client.stopped
         /\ d.wire \subseteq client.wire \cup Reads
    BY <1>1, <1>4, <1>7 DEF Waiting, Carried, Alike, d
  <1>11. IInv' /\ Unreplayed
    BY <1>2, <1>8, <1>9, <1>10, Grounds, WsClientAssumption DEF IInv, Sound, Unreplayed
  <1>12. [Contract!Next]_(Contract!vars)
    BY <1>2, <1>10, SettleSeen
  <1> QED
    BY <1>10, <1>11, <1>12 DEF Step, Unrefused

-----------------------------------------------------------------------------
(* Sockets *)

LEMMA OpensStep ==
  ASSUME IInv, NEW s \in Sockets, SocketOpens(s)
  PROVE  Step
  <1> DEFINE b == client.sentAuth \/ token # "none"
             f == [client.links EXCEPT ![s].at = "open", ![s].auth = token]
             d == [client EXCEPT !.opened = TRUE, !.sentAuth = b, !.links = f]
  <1>1. /\ client' = [client EXCEPT !.opened = TRUE, !.sentAuth = @ \/ token # "none",
                                    !.links[s].at = "open", !.links[s].auth = token]
        /\ UNCHANGED <<required, token, used>>
    BY DEF SocketOpens
  <1>2. /\ Up(client, required) /\ Timed(client) /\ s = client.current /\ client \in Clients
        /\ client.links \in [Sockets -> Links]
    BY Hearing DEF SocketOpens
  <1>3. client' = d
    BY <1>1, <1>2
  <1>4. /\ f \in [Sockets -> Links] /\ f[s].at = "open" /\ f[s].owed = client.links[s].owed
        /\ f[s].acked = client.links[s].acked /\ f[s].auth = token
        /\ \A t \in Sockets \ {s} : f[t] = client.links[t]
    BY <1>2 DEF Links, IInv
  <1>5. b \in BOOLEAN /\ (client.sentAuth => b) /\ (token # "none" => b)
    BY <1>2 DEF Clients
  <1> HIDE DEF f, b
  <1>6. d \in Clients
    BY <1>2, <1>4, <1>5 DEF Clients
  <1>7. /\ d.links = f /\ d.sentAuth = b /\ d.opened
        /\ d.refused = client.refused /\ d.why = client.why
        /\ d.current = client.current /\ d.stopped = client.stopped
        /\ d.state = client.state /\ d.wire = client.wire /\ d.ready = client.ready
        /\ d.left = client.left /\ d.blurted = client.blurted /\ d.commands = client.commands
        /\ d.reads = client.reads /\ d.queue = client.queue
        /\ d.backoff = client.backoff /\ d.bound = client.bound /\ d.patience = client.patience
        /\ d.gotStats = client.gotStats
    BY <1>2 DEF Clients
  <1> HIDE DEF d
  <1>8. Based(d) /\ Timed(d)
    BY <1>2, <1>5, <1>6, <1>7 DEF Up, Linked, Based, Timed
  <1>9. In(d, required) <=> In(client, required)
    BY <1>2, <1>4, <1>7 DEF In
  <1>10. Up(d, required)
    BY <1>2, <1>4, <1>5, <1>7, <1>8, <1>9 DEF Up, Linked
  <1> QED
    BY <1>1, <1>3, <1>7, <1>8, <1>10, UnseenStep DEF Sound, IInv

LEMMA SilentStep ==
  ASSUME IInv, NEW s \in Sockets, FallsSilent(s)
  PROVE  Step
  <1> DEFINE f == [client.links EXCEPT ![s].at = "silent", ![s].owed = FALSE]
             d == [client EXCEPT !.links = f]
  <1>1. /\ client' = [client EXCEPT !.links[s].at = "silent", !.links[s].owed = FALSE]
        /\ UNCHANGED <<required, token, used>>
    BY DEF FallsSilent
  <1>2. /\ Up(client, required) /\ Timed(client) /\ s = client.current /\ client \in Clients
        /\ client.links \in [Sockets -> Links]
    BY Hearing DEF FallsSilent
  <1>3. client' = d
    BY <1>1, <1>2
  <1>4. /\ f \in [Sockets -> Links] /\ f[s].at = "silent" /\ ~f[s].owed
        /\ f[s].acked = client.links[s].acked /\ f[s].auth = client.links[s].auth
        /\ \A t \in Sockets \ {s} : f[t] = client.links[t]
    <2> DEFINE g == [client.links[s] EXCEPT !.at = "silent", !.owed = FALSE]
    <2>1. client.links[s] \in Links
      BY <1>2
    <2>2. /\ g \in Links /\ g.at = "silent" /\ ~g.owed
          /\ g.acked = client.links[s].acked /\ g.auth = client.links[s].auth
      BY <2>1 DEF Links
    <2>3. f = [client.links EXCEPT ![s] = g]
      BY <1>2
    <2> HIDE DEF g
    <2> QED
      BY <1>2, <2>2, <2>3
  <1> HIDE DEF f
  <1>5. d \in Clients
    BY <1>2, <1>4 DEF Clients
  <1>6. /\ d.links = f /\ d.refused = client.refused /\ d.why = client.why /\ d.sentAuth = client.sentAuth
        /\ d.opened = client.opened /\ d.current = client.current /\ d.stopped = client.stopped
        /\ d.state = client.state /\ d.wire = client.wire /\ d.ready = client.ready
        /\ d.left = client.left /\ d.blurted = client.blurted /\ d.commands = client.commands
        /\ d.reads = client.reads /\ d.queue = client.queue
        /\ d.backoff = client.backoff /\ d.bound = client.bound /\ d.patience = client.patience
        /\ d.gotStats = client.gotStats
    BY <1>2 DEF Clients, Same
  <1> HIDE DEF d
  <1>7. Based(d) /\ Timed(d)
    BY <1>2, <1>5, <1>6 DEF Up, Linked, Based, Timed
  <1>8. In(d, required) <=> In(client, required)
    BY <1>2, <1>4, <1>6 DEF In
  <1>9. Up(d, required)
    BY <1>2, <1>4, <1>6, <1>7, <1>8 DEF Up, Linked
  <1> QED
    BY <1>1, <1>3, <1>6, <1>7, <1>9, UnseenStep DEF Sound, IInv

\* What handleClose decides, for any code: restarting stays, everything else is
\* offline or unauthorized, and the latter only after a socket that opened.
LEMMA AfterCloseSound ==
  ASSUME NEW c, NEW u, NEW code \in {1006, 1008}, Down(c), Timed(c), ~c.bound, ~c.stopped,
         c.backoff = "off", c.state \in Live \cup {"connecting", "restarting"},
         code = 1008 => c.opened
  PROVE  LET d == AfterClose(c, code)
         IN  /\ Sound(d, u) /\ Down(d) /\ ~d.stopped /\ d.reads = c.reads
             /\ IF c.state = "restarting" THEN d.state = "restarting"
                ELSE d.state = "offline" \/ (d.state = "unauthorized" /\ c.opened)
  <1> DEFINE d == AfterClose(c, code)
             Good(e) == /\ Sound(e, u) /\ Down(e) /\ ~e.stopped /\ e.reads = c.reads
                        /\ e.state = "offline" \/ (e.state = "unauthorized" /\ c.opened)
  <1>1. c \in Clients
    BY DEF Down, Based
  <1>2. CASE c.state = "restarting"
    <2> DEFINE e == [c EXCEPT !.backoff = "hidden"]
    <2>1. d = c \/ d = e
      BY <1>2 DEF AfterClose
    <2>2. e \in Clients
      BY <1>1 DEF Clients
    <2>3. Same(c, e) /\ e.backoff = "hidden" /\ e.bound = c.bound /\ e.patience = c.patience
      BY <1>1 DEF Clients, Same
    <2> HIDE DEF e
    <2>4. Down(e) /\ Timed(e)
      BY <1>2, <2>2, <2>3, SameKept DEF Timed, Same
    <2> HIDE DEF d
    <2>5. Sound(c, u) /\ Sound(e, u) /\ e.state = c.state /\ e.stopped = c.stopped /\ e.reads = c.reads
      BY <1>2, <2>3, <2>4 DEF Sound, Live, Same
    <2> QED
      BY <1>2, <2>1, <2>4, <2>5 DEF d
  <1>3. CASE c.state # "restarting"
    <2> DEFINE z == [c EXCEPT !.closes = 0]
               n == [c EXCEPT !.closes = @ + 1]
    <2>1. /\ z \in Clients /\ Same(c, z) /\ z.bound = c.bound
          /\ n \in Clients /\ Same(c, n) /\ n.bound = c.bound
      BY <1>1 DEF Clients, Same
    <2>2. \/ c.refused /\ d = EnterUnauthorized(c, "rejected")
          \/ code = 1008 /\ d = EnterUnauthorized(c, "required")
          \/ d = EnterOffline(c)
          \/ c.opened /\ d = EnterUnauthorized(z, "required")
          \/ d = EnterOffline(n)
      BY <1>3 DEF AfterClose, Inferred
    <2> HIDE DEF z, n
    <2>3. Down(z) /\ Down(n)
      BY <2>1, SameKept
    <2>4. Good(EnterOffline(c)) /\ Good(EnterOffline(n))
      BY <2>1, <2>3, OfflineSound DEF Same
    <2>5. c.opened => Good(EnterUnauthorized(c, "required")) /\ Good(EnterUnauthorized(z, "required"))
      BY <2>1, <2>3, UnauthorizedSound DEF Same
    <2>6. c.refused => Good(EnterUnauthorized(c, "rejected")) /\ c.opened
      <3>1. c.refused => (c.sentAuth \/ c.blurted) /\ c.opened
        BY DEF Down, Based
      <3> QED
        BY <3>1, UnauthorizedSound
    <2> HIDE DEF d
    <2>7. Good(d)
      <3> HIDE DEF Good
      <3> QED
        BY <2>2, <2>4, <2>5, <2>6
    <2> QED
      BY <1>3, <2>7 DEF d
  <1> QED
    BY <1>2, <1>3

\* The close event of the current socket.
LEMMA CloseEventStep ==
  ASSUME IInv, NEW s \in Sockets, NEW code \in {1006, 1008}, HandleClose(s, code),
         client.links[s].at \in {"opening", "open"},
         code = 1008 => client.opened, UNCHANGED <<required, token, used>>
  PROVE  Step
  <1> DEFINE b == Lost(client)
             f == [b.links EXCEPT ![s] = FreeLink]
             e == IF ~client.stopped /\ client.state # "restarting" /\ ~client.refused
                  THEN "close" ELSE b.error
             c == [b EXCEPT !.bound = FALSE, !.links = f, !.error = e]
  <1>1. /\ Up(client, required) /\ Timed(client) /\ s = client.current /\ client \in Clients
        /\ ~client.stopped /\ client.state \in Live \cup {"connecting", "restarting"}
        /\ client.backoff = "off"
    BY Hearing DEF Up, Linked
  <1>2. /\ b \in Clients /\ Alike(client, b) /\ b.links = client.links /\ b.why = client.why
        /\ b.current = NoSocket /\ ~b.ready /\ ~b.ping /\ ~b.pong
        /\ b.wire = {} /\ b.commands = {} /\ b.queue = client.reads
    BY <1>1, LostKept
  <1>3. client' = AfterClose([b EXCEPT !.bound = FALSE, !.links[s] = FreeLink, !.error =
              IF ~client.stopped /\ client.state # "restarting" /\ ~client.refused
              THEN "close" ELSE @], code)
    BY DEF HandleClose
  <1> HIDE DEF b
  <1>4. client' = AfterClose(c, code)
    BY <1>2, <1>3 DEF Clients
  <1>5. f \in [Sockets -> Links] /\ \A t \in Sockets : f[t].at = "free"
    BY <1>1, <1>2 DEF FreeLink, Links, Clients, Up, Linked
  <1>6. e \in Errors
    BY <1>2 DEF Clients, Errors
  <1> HIDE DEF f, e
  <1>7. c \in Clients
    BY <1>2, <1>5, <1>6 DEF Clients
  <1>8. /\ c.links = f /\ ~c.bound /\ Same([b EXCEPT !.links = f], c)
        /\ c.current = b.current /\ c.ready = b.ready /\ c.ping = b.ping /\ c.pong = b.pong
        /\ c.wire = b.wire /\ c.commands = b.commands /\ c.queue = b.queue /\ c.reads = b.reads
        /\ c.refused = b.refused /\ c.sentAuth = b.sentAuth /\ c.opened = b.opened
        /\ c.why = b.why /\ c.state = b.state /\ c.stopped = b.stopped /\ c.backoff = b.backoff
        /\ c.patience = b.patience /\ c.blurted = b.blurted
    BY <1>2 DEF Clients, Same
  <1> HIDE DEF c
  <1>9. Down(c) /\ Timed(c)
    <2>1. Based(c)
      BY <1>1, <1>2, <1>7, <1>8 DEF Up, Linked, Based, Alike
    <2> QED
      BY <1>1, <1>2, <1>5, <1>8, <2>1 DEF Down, Timed, Alike
  <1>10. /\ c.state = client.state /\ ~c.stopped /\ c.backoff = "off" /\ c.opened = client.opened
         /\ c.reads = client.reads
    BY <1>1, <1>2, <1>8 DEF Alike
  <1>11. /\ Sound(client', required) /\ Down(client') /\ ~client'.stopped
         /\ client'.reads = client.reads
         /\ IF client.state = "restarting" THEN client'.state = "restarting"
            ELSE client'.state = "offline" \/ (client'.state = "unauthorized" /\ client.opened)
    BY <1>1, <1>4, <1>8, <1>9, <1>10, AfterCloseSound
  <1>12. /\ client'.stopped = client.stopped /\ client'.commands = {} /\ client'.wire = {}
    BY <1>1, <1>11, SoundTyped DEF Down, Clients
  <1>13. IInv' /\ Unreplayed /\ Unrefused
    <2>1. client.opened => client.links[s].at = "open"
      BY <1>1 DEF Up, Linked
    <2> QED
      BY <1>11, <1>12, <2>1, Grounds DEF IInv, Waiting, Unreplayed, Unrefused
  <1>14. Contract!Next
    <2>1. CASE client.state = "restarting"
      BY <1>11, <1>12, <2>1, DropSeen
    <2>2. CASE client.state # "restarting"
      <3>1. client'.state \in Contract!After(client.state) /\ ~Contract!HoldsCommands(client'.state)
        BY <1>1, <1>11, <2>2 DEF Contract!After, Contract!HoldsCommands, Contract!Live, Live
      <3> QED
        BY <1>1, <1>11, <1>12, <3>1, MoveSeen
    <2> QED
      BY <2>1, <2>2
  <1> QED
    BY <1>13, <1>14 DEF Step

\* A refusal that arrives, or loses its code.
LEMMA RefusesStep ==
  ASSUME IInv, NEW s \in Sockets, UnitRefuses(s)
  PROVE  Step
  <1>1. PICK code \in {1006, 1008} : HandleClose(s, code)
    BY DEF UnitRefuses
  <1>2. client.links[s].at = "open" /\ UNCHANGED <<required, token, used>>
    BY DEF UnitRefuses, Hears
  <1>3. client.opened
    BY <1>2, Hearing DEF Up, Linked
  <1> QED
    BY <1>1, <1>2, <1>3, CloseEventStep

LEMMA FailsStep ==
  ASSUME IInv, NEW s \in Sockets, SocketFails(s)
  PROVE  Step
  BY CloseEventStep DEF SocketFails

-----------------------------------------------------------------------------
(* The theorems *)

LEMMA Initially == Init => IInv /\ Contract!Init
  <1> SUFFICES ASSUME Init PROVE IInv /\ Contract!Init
    OBVIOUS
  <1>1. [s \in Sockets |-> FreeLink] \in [Sockets -> Links]
    BY DEF FreeLink, Links
  <1>2. client \in Clients
    BY <1>1 DEF Init, Clients, States, Errors
  <1>3. Down(client) /\ Timed(client) /\ client.state \notin Live
    BY <1>2 DEF Init, Down, Based, Timed, FreeLink, Live
  <1>4. IInv
    BY <1>3 DEF Init, IInv, Sound, Waiting
  <1>5. Contract!Init
    BY DEF Init, Contract!Init, Calls, Waiting
  <1> QED
    BY <1>4, <1>5

LEMMA EveryStep == IInv /\ [Next]_vars => Step
  <1> SUFFICES ASSUME IInv, [Next]_vars PROVE Step
    OBVIOUS
  <1>1. CASE UNCHANGED vars
    <2>1. Sound(client', required)
      BY <1>1, Grounds DEF vars
    <2> QED
      BY <1>1, <2>1, UnseenStep DEF vars, IInv
  <1>2. CASE Caller
    BY <1>2, ConnectStep, CloseStep, TokenStep, RequestStep, CommandStep DEF Caller
  <1>3. CASE Timers
    BY <1>3, BackoffStep, BoundStep, PatienceStep, PingStep, PongTimeoutStep, ReadLimitStep,
       CommandLimitStep DEF Timers
  <1>4. ASSUME NEW s \in Sockets, Frame(s)
        PROVE  Step
    BY <1>4, StatsStep, RestartingStep, PushStep, PongStep, AckStep, UnauthorizedStep,
       BadFrameStep, AnswerStep DEF Frame
  <1>5. ASSUME NEW s \in Sockets, Socket(s)
        PROVE  Step
    BY <1>5, OpensStep, RefusesStep, FailsStep, SilentStep DEF Socket
  <1> QED
    BY <1>1, <1>2, <1>3, <1>4, <1>5 DEF Next

LEMMA Invariant == Spec => []IInv
  <1>1. IInv /\ [Next]_vars => IInv'
    BY EveryStep DEF Step
  <1> QED
    BY <1>1, Initially, PTL DEF Spec

\* Whatever calls are made and however the connections end, a command that is
\* unsettled is on the current socket or was reported, and a read is there or
\* queued for the next, or connect() left them on the socket it replaced.
THEOREM NothingIsForgotten == Spec => []AnswersCanArrive
  <1>1. IInv => AnswersCanArrive
    BY DEF IInv, Sound, Up, Linked, Down, AnswersCanArrive
  <1> QED
    BY <1>1, Invariant, PTL

\* For any unit and any token: no request leaves before the unit has let the
\* socket in, and only a token that was sent is called rejected, unless a ping of
\* a connection that connect() replaced went out without one.
THEOREM AdmittedFirst == Spec => []SilentUntilAdmitted
  <1>1. IInv => SilentUntilAdmitted
    BY DEF IInv, Sound, Up, Linked, Down, Based, In, Admitted, SilentUntilAdmitted
  <1> QED
    BY <1>1, Invariant, PTL

\* A command leaves in the call that made it, from a live state: no queue, flush
\* or new connection sends it again.
THEOREM CommandsOnce == Spec => CommandsNeverReplayed
  <1>1. IInv /\ [Next]_vars =>
          [\A k \in Commands :
             k \in client'.wire \ client.wire => k \notin used /\ client.state \in Live]_vars
    BY EveryStep DEF Step, Unreplayed
  <1> QED
    BY <1>1, Invariant, PTL DEF Spec, CommandsNeverReplayed

\* Only the close of an open socket takes a client to "unauthorized": a unit that
\* is down is retried for ever, whatever codes its closes carry.
THEOREM OnlyARefusalSuspends == Spec => DownIsNotRefused
  <1>1. IInv /\ [Next]_vars =>
          [client'.state = "unauthorized" /\ client.state # "unauthorized" =>
             \E s \in Sockets : client.links[s].at = "open"]_vars
    BY EveryStep DEF Step, Unrefused
  <1> QED
    BY <1>1, Invariant, PTL DEF Spec, DownIsNotRefused

\* The client implements its contract: every callback of ws.ts is a step that
\* ClientContract allows, or one its users cannot see.
THEOREM ClientImplementsContract == Spec => KeepsItsContract
  <1>1. Init => Contract!Init
    BY Initially
  <1>2. IInv /\ [Next]_vars => [Contract!Next]_(Contract!vars)
    BY EveryStep DEF Step
  <1> QED
    BY <1>1, <1>2, Invariant, PTL DEF Spec, KeepsItsContract, Contract!Spec
=============================================================================
