------------------------------ MODULE Controls ------------------------------
(***************************************************************************)
(* frontend/src/lib/controls.ts on top of session.ts and the stores: the   *)
(* armed and the pending control, how a request ends, and what the page    *)
(* says of it, while the session replaces its client under it.  Each       *)
(* client is a ClientContract; a rejected promise reaches its handler      *)
(* later, possibly after the client that made it is gone.                  *)
(***************************************************************************)
EXTENDS Naturals, FiniteSets

CONSTANTS
  Kinds,        \* controls offered, out of "mode", "pasv", "reboot", "shutdown"
  MaxConfirms,  \* bound: commands sent
  MaxClients,   \* bound: clients the session builds
  MaxDrops      \* bound: how often the connection takes a turn away from being live

ASSUME ControlsAssumption ==
  /\ Kinds \subseteq {"mode", "pasv", "reboot", "shutdown"}
  /\ {MaxConfirms, MaxClients, MaxDrops} \subseteq Nat

Tokens == 1 .. MaxConfirms
NoClient == 0
None == "none"

VARIABLES
  client, built,    \* currentClient(), and how many there have been
  conn, stopped, calls,  \* the current client: its ClientContract
  stats,            \* the stats store: what it says of the mode and of PASV
  ui,               \* armed, pending, lastMessage, lastKnownClient
  sent,             \* nextConfirmToken
  rejections,       \* rejected promises whose handler has yet to run
  drops,
  owner, failed     \* history: the client and kind of each token; rejected ones

vars == <<client, built, conn, stopped, calls, stats, ui, sent, rejections, drops, owner, failed>>

Contract == INSTANCE ClientContract
              WITH Reads <- {}, Commands <- Tokens, state <- conn

\* stats.set(null), and what a frame may carry: a null mode is to every test
\* here what MANUAL is.
NoStats == [mode |-> None, pasv |-> FALSE]
Frames == [mode : {"AUTO", "PASV", "MANUAL"}, pasv : BOOLEAN]

\* ui.pending: a token, 0 for null; the count of frames seen since.
\* ui.message: per control the token a sentence is about, and which one.
NoMessage == [token |-> 0, why |-> None]
Reset(known) == [armed |-> None, pending |-> 0, kind |-> None, target |-> None, seen |-> 0,
                 message |-> [id \in Kinds |-> NoMessage], known |-> known]
Ended(u) == [u EXCEPT !.pending = 0, !.kind = None, !.target = None, !.seen = 0]

-----------------------------------------------------------------------------
(* controls.ts: what a notification does.  cl, cn and st are the client, the *)
(* connection and the stats the subscribers read at that moment.             *)

AutoOrPasv(st) == st.mode \in {"AUTO", "PASV"}

\* isControlAvailable: visible and not disabled.
Available(u, id, cn, st) ==
  /\ cn \in Contract!Live /\ u.pending = 0
  /\ id = "pasv" => st.pasv /\ AutoOrPasv(st)

\* render: a client not seen before resets everything; then the disarming.
Rendered(u, cl, cn, st) ==
  LET v == IF cl = u.known THEN u ELSE Reset(cl)
  IN  IF v.armed # None /\ ~Available(v, v.armed, cn, st) THEN [v EXCEPT !.armed = None] ELSE v

Confirmed(u, st) == u.kind = "pasv" /\ st.mode = u.target

\* Mutant of Abandoned: for ever waiting for the confirmation.
NeverAbandoned(u) == u

Abandoned(u) ==
  IF u.seen >= 2
  THEN Ended([u EXCEPT !.message[u.kind] = [token |-> u.pending, why |-> "abandoned"]])
  ELSE u

\* stats.subscribe
OnStats(u, cl, cn, st) ==
  Rendered(CASE u.pending = 0    -> u
             [] Confirmed(u, st) -> Ended(u)
             [] OTHER            -> Abandoned([u EXCEPT !.seen = IF @ < 2 THEN @ + 1 ELSE @]),
           cl, cn, st)

\* connection.subscribe
OnConnection(u, cl, cn, st) ==
  Rendered(IF u.pending # 0 /\ cn = "restarting" /\ u.kind # "pasv" THEN Ended(u) ELSE u,
           cl, cn, st)

\* resetStores: the store tells nobody when it was null already.
OnReset(u, cl, cn, st) == IF st = NoStats THEN u ELSE OnStats(u, cl, cn, NoStats)

\* The promises a step of the client rejects.
Rejects(ks) == rejections' = rejections \cup ks /\ failed' = failed \cup ks
Newly == {k \in Tokens : calls[k] = "waiting" /\ calls'[k] = "settled"}

-----------------------------------------------------------------------------
(* The owner *)

\* requestControl
Arm(id) ==
  /\ Available(ui, id, conn, stats)
  /\ ui' = Rendered([ui EXCEPT !.armed = id, !.message[id] = NoMessage], client, conn, stats)
  /\ UNCHANGED <<client, built, conn, stopped, calls, stats, sent, rejections, drops, owner, failed>>

Cancel ==
  /\ ui.armed # None
  /\ ui' = Rendered([ui EXCEPT !.armed = None], client, conn, stats)
  /\ UNCHANGED <<client, built, conn, stopped, calls, stats, sent, rejections, drops, owner, failed>>

\* confirmControl: what PASV asks for is what its label names at that moment.
Confirm ==
  /\ ui.armed # None /\ ui.pending = 0 /\ client # NoClient /\ sent < MaxConfirms
  /\ LET token == sent + 1
         target == IF ui.armed # "pasv" THEN None ELSE IF stats.mode = "PASV" THEN "AUTO" ELSE "PASV"
     IN  /\ sent' = token
         /\ Contract!Command(token)
         /\ owner' = [owner EXCEPT ![token] = [client |-> client, kind |-> ui.armed]]
         /\ ui' = Rendered([ui EXCEPT !.armed = None, !.pending = token, !.kind = ui.armed,
                                      !.target = target, !.seen = 0], client, conn, stats)
         /\ Rejects({k \in {token} : calls'[k] = "settled"})
  /\ UNCHANGED <<client, built, stats, drops>>

\* Mutant of Rejected: settled by the kind of the request alone.
RejectedByKind(k) ==
  /\ k \in rejections
  /\ rejections' = rejections \ {k}
  /\ ui' = IF ui.kind # owner[k].kind THEN ui
           ELSE Rendered(Ended([ui EXCEPT !.message[owner[k].kind] =
                                            [token |-> ui.pending, why |-> "failed"]]),
                         client, conn, stats)
  /\ UNCHANGED <<client, built, conn, stopped, calls, stats, sent, drops, owner, failed>>

\* send().catch: the sentence goes to the entry the call made, if it is still
\* the pending one.
Rejected(k) ==
  /\ k \in rejections
  /\ rejections' = rejections \ {k}
  /\ ui' = IF ui.pending # k THEN ui
           ELSE Rendered(Ended([ui EXCEPT !.message[owner[k].kind] =
                                            [token |-> ui.pending, why |-> "failed"]]),
                         client, conn, stats)
  /\ UNCHANGED <<client, built, conn, stopped, calls, stats, sent, drops, owner, failed>>

-----------------------------------------------------------------------------
(* The client, by its contract *)

\* The unit answers the command, or it does not and the call times out.
Settles(k, ok) ==
  /\ Contract!Settles(k)
  /\ Rejects(IF ok THEN {} ELSE {k})
  /\ UNCHANGED <<client, built, stats, ui, sent, drops, owner>>

\* A transition of its own. Refused, the stores are emptied after it.
Changes(next) ==
  /\ client # NoClient /\ next \notin Contract!Live
  /\ LET away == next # "connecting" \/ conn \in Contract!Live
     IN  IF away THEN drops < MaxDrops /\ drops' = drops + 1 ELSE UNCHANGED drops
  /\ Contract!Moves(next)
  /\ Rejects(Newly)
  /\ LET told == OnConnection(ui, client, next, stats)
     IN  IF next = "unauthorized"
         THEN stats' = NoStats /\ ui' = OnReset(told, client, next, stats)
         ELSE ui' = told /\ UNCHANGED stats
  /\ UNCHANGED <<client, built, sent, owner>>

\* A stats frame: the store first, then the state it leads to, live whichever
\* of the two.
Frame(st, next) ==
  /\ client # NoClient /\ next \in Contract!Live
  /\ conn \in Contract!Live \cup {"connecting", "restarting"}
  /\ \/ Contract!Moves(next)
     \/ next = conn /\ UNCHANGED <<conn, stopped, calls>>
  /\ Rejects(Newly)
  /\ stats' = st
  /\ ui' = OnConnection(OnStats(ui, client, conn, st), client, next, st)
  /\ UNCHANGED <<client, built, sent, drops, owner>>

-----------------------------------------------------------------------------
(* session.ts *)

\* teardown and resetStores: the stores are detached, the client closed and
\* forgotten, and the data dropped, in that order.
TornDown(u) ==
  LET detached == OnConnection(u, client, "offline", stats)
  IN  OnReset(detached, NoClient, "offline", stats)

\* release: pagehide, or the session's stop.
Release ==
  /\ client # NoClient
  /\ ui' = TornDown(ui) /\ client' = NoClient /\ stats' = NoStats
  /\ Contract!Closes /\ Rejects(Newly)
  /\ UNCHANGED <<built, sent, drops, owner>>

\* rebuild for a new host, or resume: connectStores seeds the connection
\* before client is assigned, connect() notifies after it.
Seeded ==
  OnConnection(IF client = NoClient THEN ui ELSE TornDown(ui), NoClient, "offline", NoStats)

Rebuild ==
  /\ built < MaxClients
  /\ ui' = OnConnection(Seeded, built + 1, "connecting", NoStats)
  /\ built' = built + 1 /\ client' = built + 1 /\ stats' = NoStats
  /\ conn' = "connecting" /\ stopped' = FALSE /\ calls' = Contract!Settle(Tokens)
  /\ Rejects(Newly)
  /\ UNCHANGED <<sent, drops, owner>>

\* connect() throws: the stores are detached again, the client closed and
\* forgotten.
RebuildFails ==
  /\ built < MaxClients
  /\ ui' = OnConnection(Seeded, built + 1, "offline", NoStats)
  /\ built' = built + 1 /\ client' = NoClient /\ stats' = NoStats
  /\ Contract!Closes /\ Rejects(Newly)
  /\ UNCHANGED <<sent, drops, owner>>

-----------------------------------------------------------------------------
Init ==
  /\ client = NoClient /\ built = 0
  /\ Contract!Init
  /\ stats = NoStats /\ ui = Reset(NoClient)
  /\ sent = 0 /\ rejections = {} /\ drops = 0
  /\ owner = [k \in Tokens |-> [client |-> NoClient, kind |-> None]] /\ failed = {}

AnyFrame == \E st \in Frames, next \in Contract!Live : Frame(st, next)
Settling == \E k \in Tokens, ok \in BOOLEAN : Settles(k, ok)
Handling == \E k \in Tokens : Rejected(k)
Connecting == Changes("connecting")

Next ==
  \/ \E id \in Kinds : Arm(id)
  \/ Cancel \/ Confirm
  \/ Handling \/ Settling \/ AnyFrame
  \/ \E next \in {"offline", "connecting", "unauthorized", "restarting"} : Changes(next)
  \/ Release \/ Rebuild \/ RebuildFails

Spec == Init /\ [][Next]_vars

\* The client settles every call and reconnects (WsClient: its timers, and
\* Recovers), the unit sends stats on every tick, promise handlers run.
FairSpec ==
  /\ Spec /\ WF_vars(Settling) /\ WF_vars(Handling) /\ WF_vars(AnyFrame)
  /\ WF_vars(Connecting)

-----------------------------------------------------------------------------
(* Properties *)

\* Whatever is on screen is about the unit on screen, and true: the armed and
\* pending controls and the sentences belong to the current client, and a
\* request is called failed only when its own command was.
ShownForItsOwn ==
  /\ ui.pending # 0 /\ client # NoClient => owner[ui.pending].client = client
  /\ ui.armed # None => client # NoClient /\ ui.known = client
  /\ \A id \in Kinds :
       LET m == ui.message[id]
       IN  /\ m.token # 0 /\ client # NoClient => owner[m.token].client = client
           /\ m.why = "failed" => m.token \in failed

\* No control stays pending on a unit the app is talking to: the request is
\* confirmed, fails or is abandoned, unless the owner has to act first.
PendingEnds ==
  (ui.pending # 0) ~> (ui.pending = 0 \/ client = NoClient \/ conn = "unauthorized")

=============================================================================
