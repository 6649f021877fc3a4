--------------------------- MODULE ClientContract ---------------------------
(***************************************************************************)
(* What the app relies on in a client of frontend/src/lib/ws.ts, and all it *)
(* can see of one: the connection state, and the promises of request() and *)
(* command(). There are no sockets, timers or queues here; WsClient is the *)
(* module that has them, and is shown to implement this one.               *)
(***************************************************************************)
EXTENDS Naturals

CONSTANTS Reads, Commands

VARIABLES
  state,    \* what state() returns
  stopped,  \* closed, or not connected yet
  calls     \* the promise of each call: "none", "waiting" or "settled"

vars == <<state, stopped, calls>>

Live == {"connected", "degraded"}

\* The states that may follow another one.
After(from) ==
  CASE from = "offline"      -> {"connecting"}
    [] from = "connecting"   -> Live \cup {"offline", "unauthorized", "restarting"}
    [] from \in Live         -> Live \cup {"connecting", "offline", "unauthorized", "restarting"}
    [] from = "restarting"   -> Live \cup {"connecting", "offline"}
    [] from = "unauthorized" -> {"connecting"}

\* A command in flight does not outlive the end of a connection; only these
\* states have one, or may still be told its end.
HoldsCommands(s) == s \in Live \cup {"restarting"}

Settle(ids) == [id \in DOMAIN calls |->
                  IF id \in ids /\ calls[id] = "waiting" THEN "settled" ELSE calls[id]]

-----------------------------------------------------------------------------
Init == state = "offline" /\ stopped = TRUE /\ calls = [id \in Reads \cup Commands |-> "none"]

\* request(): accepted in every state.
Request(r) ==
  /\ r \in Reads /\ calls[r] = "none"
  /\ calls' = [calls EXCEPT ![r] = "waiting"]
  /\ UNCHANGED <<state, stopped>>

\* command(): refused at once on a client that is not live.
Command(k) ==
  /\ k \in Commands /\ calls[k] = "none"
  /\ calls' = [calls EXCEPT ![k] = IF state \in Live THEN "waiting" ELSE "settled"]
  /\ UNCHANGED <<state, stopped>>

\* An answer, an error or the time limit.
Settles(id) ==
  /\ calls[id] = "waiting"
  /\ calls' = Settle({id})
  /\ UNCHANGED <<state, stopped>>

\* A transition by itself. Reads survive it.
Moves(next) ==
  /\ ~stopped /\ next \in After(state) /\ state' = next
  /\ calls' = IF HoldsCommands(next) THEN calls ELSE Settle(Commands)
  /\ UNCHANGED stopped

\* The connection ends while the unit restarts, or under a new attempt.
Drops ==
  /\ state \in {"restarting", "connecting"} /\ calls' = Settle(Commands)
  /\ UNCHANGED <<state, stopped>>

\* connect() of a client whose unit restarts: what is in flight is not told,
\* and waits for the next end of a connection, or for its time limit.
Reconnects ==
  /\ ~stopped /\ state = "restarting" /\ state' = "connecting"
  /\ UNCHANGED <<stopped, calls>>

Opens ==
  /\ stopped = TRUE /\ stopped' = FALSE /\ state = "offline" /\ state' = "connecting"
  /\ UNCHANGED calls

\* close(), or a first socket that cannot be created: nothing stays waiting.
Closes ==
  /\ state' = "offline" /\ stopped' = TRUE
  /\ calls' = Settle(DOMAIN calls)

Next ==
  \/ \E r \in Reads : Request(r)
  \/ \E k \in Commands : Command(k)
  \/ \E id \in DOMAIN calls : Settles(id)
  \/ \E next \in After(state) : Moves(next)
  \/ Drops \/ Reconnects \/ Opens \/ Closes

Spec == Init /\ [][Next]_vars

\* Every promise settles, whatever the connection does.
Settled == \A id \in Reads \cup Commands : calls[id] = "waiting" ~> calls[id] = "settled"
=============================================================================
