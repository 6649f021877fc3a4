----------------------------- MODULE Listeners -----------------------------
(***************************************************************************)
(* Listeners of plugin/companion.py: the reconciliation pass that the      *)
(* background thread runs, the teardown that on_unload runs, the lock and  *)
(* the flag between them, and the asyncio loop the WSS servers live on.    *)
(* The host's addresses, and other programs on the two ports, change on    *)
(* their own.  A pass and a teardown are workers; each wait of theirs is a *)
(* step, so that the loop and the host run in between.                     *)
(***************************************************************************)
EXTENDS Naturals, FiniteSets

CONSTANTS
  IPs,        \* addresses of the host that match bind_addresses
  Kinds,      \* the listeners whose port is valid, out of "http" and "ws"
  MaxFlaps,   \* bound: how often an address comes or goes
  MaxFaults,  \* bound: failed enumerations, thread starts, calls, foreign binds
  MaxSlow     \* bound: waits on the loop that time out

ASSUME ListenersAssumption ==
  /\ Kinds \subseteq {"http", "ws"}
  /\ MaxFlaps \in Nat /\ MaxFaults \in Nat /\ MaxSlow \in Nat

VARIABLES
  local,     \* the host's addresses
  taken,     \* ports another program holds, as <<kind, ip>>
  bound,     \* keys of _bound
  http,      \* per address: "none", "bound" (not yet served) or "serving"
  ws,        \* addresses a WSS server listens on
  abandoned, \* start() coroutines whose waiter has given up
  closing,   \* close() coroutines whose waiter has given up
  loop,      \* the asyncio loop: "none" yet, "running" or "closed"
  lock,      \* _lock: "free" or its holder
  stopped,   \* _stopped
  job,       \* per worker: its step, the address it is at, what is left to do
  flaps, faults, slow,
  absent     \* history: bound addresses the host has been without

hostVars  == <<local, taken>>
loopVars  == <<ws, abandoned, closing, loop>>
bounds    == <<flaps, faults, slow>>
vars == <<hostVars, bound, http, loopVars, lock, stopped, job, bounds, absent>>

Workers == {"pass", "stop"}

\* at: the step. ip: the address in hand. close, want: addresses to close,
\* and to open unless they are bound.
Step(w, at) == job' = [job EXCEPT ![w].at = at]
Idle == [at |-> "idle", ip |-> {}, close |-> {}, want |-> {}]

InHand(w, at, ip) == job[w].at = at /\ ip \in job[w].ip

-----------------------------------------------------------------------------
(* The host *)

AddressComes(ip) ==
  /\ ip \notin local /\ flaps < MaxFlaps
  /\ local' = local \cup {ip} /\ flaps' = flaps + 1
  /\ UNCHANGED <<taken, bound, http, loopVars, lock, stopped, job, faults, slow, absent>>

AddressGoes(ip) ==
  /\ ip \in local /\ flaps < MaxFlaps
  /\ local' = local \ {ip} /\ flaps' = flaps + 1
  /\ absent' = absent \cup {ip}
  /\ UNCHANGED <<taken, bound, http, loopVars, lock, stopped, job, faults, slow>>

\* Free(kind, ip): no socket of the plugin holds the port.
Free(kind, ip) == IF kind = "http" THEN http[ip] = "none" ELSE ip \notin ws

ForeignBinds(kind, ip) ==
  /\ <<kind, ip>> \notin taken /\ Free(kind, ip) /\ faults < MaxFaults
  /\ taken' = taken \cup {<<kind, ip>>} /\ faults' = faults + 1
  /\ UNCHANGED <<local, bound, http, loopVars, lock, stopped, job, flaps, slow, absent>>

ForeignCloses(kind, ip) ==
  /\ <<kind, ip>> \in taken
  /\ taken' = taken \ {<<kind, ip>>}
  /\ UNCHANGED <<local, bound, http, loopVars, lock, stopped, job, bounds, absent>>

\* bind() succeeds: neither EADDRNOTAVAIL nor EADDRINUSE.
Bindable(kind, ip) == ip \in local /\ <<kind, ip>> \notin taken /\ Free(kind, ip)

-----------------------------------------------------------------------------
(* reconcile and stop: the lock and the flag *)

\* The background loop calls reconcile, until on_unload.
CallReconcile ==
  /\ job["pass"].at = "idle" /\ job["stop"].at = "idle"
  /\ Step("pass", "waiting")
  /\ UNCHANGED <<hostVars, bound, http, loopVars, lock, stopped, bounds, absent>>

CallStop ==
  /\ job["stop"].at = "idle"
  /\ Step("stop", "waiting")
  /\ UNCHANGED <<hostVars, bound, http, loopVars, lock, stopped, bounds, absent>>

\* Mutant of EnterPass: a pass that waited for the lock does not look at the
\* flag.
EnterPassBlindly ==
  /\ job["pass"].at = "waiting" /\ lock = "free"
  /\ lock' = "pass" /\ Step("pass", "enumerate")
  /\ UNCHANGED <<hostVars, bound, http, loopVars, stopped, bounds, absent>>

EnterPass ==
  /\ job["pass"].at = "waiting" /\ lock = "free"
  /\ IF stopped
     THEN Step("pass", "idle") /\ UNCHANGED lock
     ELSE lock' = "pass" /\ Step("pass", "enumerate")
  /\ UNCHANGED <<hostVars, bound, http, loopVars, stopped, bounds, absent>>

EnterStop ==
  /\ job["stop"].at = "waiting" /\ lock = "free"
  /\ lock' = "stop" /\ stopped' = TRUE
  /\ job' = [job EXCEPT !["stop"].at = "close", !["stop"].close = bound]
  /\ UNCHANGED <<hostVars, bound, http, loopVars, bounds, absent>>

\* Mutant of EnumerationFails: "observed nothing" read as "nothing there".
EnumerationFailsAsEmpty ==
  /\ job["pass"].at = "enumerate" /\ faults < MaxFaults
  /\ faults' = faults + 1
  /\ job' = [job EXCEPT !["pass"].at = "close", !["pass"].close = bound, !["pass"].want = {}]
  /\ UNCHANGED <<hostVars, bound, http, loopVars, lock, stopped, flaps, slow, absent>>

\* list_local_ipv4 raises: nothing changes, the next pass decides.
EnumerationFails ==
  /\ job["pass"].at = "enumerate" /\ faults < MaxFaults
  /\ faults' = faults + 1
  /\ job' = [job EXCEPT !["pass"] = Idle] /\ lock' = "free"
  /\ UNCHANGED <<hostVars, bound, http, loopVars, stopped, flaps, slow, absent>>

\* Mutant of Enumerate: addresses that are gone stay bound.
EnumerateKeepsGone ==
  /\ job["pass"].at = "enumerate"
  /\ job' = [job EXCEPT !["pass"] = [at |-> "close", ip |-> {}, close |-> {}, want |-> local]]
  /\ UNCHANGED <<hostVars, bound, http, loopVars, lock, stopped, bounds, absent>>

\* select_bind_addresses over what the host reports now.
Enumerate ==
  /\ job["pass"].at = "enumerate"
  /\ job' = [job EXCEPT !["pass"] = [at |-> "close", ip |-> {}, close |-> bound \ local,
                                     want |-> local]]
  /\ UNCHANGED <<hostVars, bound, http, loopVars, lock, stopped, bounds, absent>>

-----------------------------------------------------------------------------
(* _close, by either worker *)

NextClose(w, ip) ==
  /\ job[w].at = "close" /\ ip \in job[w].close
  /\ job' = [job EXCEPT ![w].at = "shutdown http", ![w].ip = {ip}, ![w].close = @ \ {ip}]
  /\ UNCHANGED <<hostVars, bound, http, loopVars, lock, stopped, bounds, absent>>

\* _shutdown_http waits for serve_forever, so a server that was never served
\* would hold the worker for good.
ShutdownHttp(w, ip) ==
  /\ InHand(w, "shutdown http", ip)
  /\ http[ip] = IF "http" \in Kinds THEN "serving" ELSE "none"
  /\ http' = [http EXCEPT ![ip] = "none"]
  /\ Step(w, "shutdown ws")
  /\ UNCHANGED <<hostVars, bound, loopVars, lock, stopped, bounds, absent>>

\* _shutdown_ws: the loop closes the server while the worker waits, or the
\* worker gives up after five seconds and the close stays queued.
ShutdownWs(w, ip, then) ==
  /\ \/ ws' = ws \ {ip} /\ UNCHANGED <<closing, slow>>
     \/ /\ slow < MaxSlow /\ ip \in ws
        /\ slow' = slow + 1 /\ closing' = closing \cup {ip} /\ UNCHANGED ws
  /\ Step(w, then)
  /\ UNCHANGED <<hostVars, bound, http, abandoned, loop, lock, stopped, flaps, faults, absent>>

CloseWs(w, ip) == InHand(w, "shutdown ws", ip) /\ ShutdownWs(w, ip, "pop")

Pop(w, ip) ==
  /\ InHand(w, "pop", ip)
  /\ bound' = bound \ {ip} /\ absent' = absent \ {ip}
  /\ job' = [job EXCEPT ![w].at = "close", ![w].ip = {}]
  /\ UNCHANGED <<hostVars, http, loopVars, lock, stopped, bounds>>

-----------------------------------------------------------------------------
(* _open *)

ClosedAll ==
  /\ job["pass"].at = "close" /\ job["pass"].close = {}
  /\ Step("pass", "open")
  /\ UNCHANGED <<hostVars, bound, http, loopVars, lock, stopped, bounds, absent>>

NextOpen(ip) ==
  /\ job["pass"].at = "open" /\ ip \in job["pass"].want \ bound
  /\ job' = [job EXCEPT !["pass"].at = "bind http", !["pass"].ip = {ip},
                        !["pass"].want = @ \ {ip}]
  /\ UNCHANGED <<hostVars, bound, http, loopVars, lock, stopped, bounds, absent>>

\* _serve_http creates and binds the server, or raises OSError.
BindHttp(ip) ==
  /\ InHand("pass", "bind http", ip)
  /\ \/ /\ "http" \notin Kinds /\ Step("pass", "bind ws") /\ UNCHANGED http
     \/ /\ "http" \in Kinds /\ Bindable("http", ip)
        /\ http' = [http EXCEPT ![ip] = "bound"] /\ Step("pass", "bind ws")
     \/ /\ "http" \in Kinds /\ ~Bindable("http", ip)
        /\ Step("pass", "open") /\ UNCHANGED http
  /\ UNCHANGED <<hostVars, bound, loopVars, lock, stopped, bounds, absent>>

\* _serve_ws: the loop runs start() while the pass waits. After ten seconds
\* TimeoutError, which is an OSError, is taken for a failed bind; the
\* coroutine stays on the loop.
BindWs(ip) ==
  /\ InHand("pass", "bind ws", ip)
  /\ loop' = IF "ws" \in Kinds THEN "running" ELSE loop
  /\ \/ /\ "ws" \notin Kinds
        /\ Step("pass", IF Kinds = {} THEN "open" ELSE "register")
        /\ UNCHANGED <<ws, abandoned, slow>>
     \/ /\ "ws" \in Kinds /\ Bindable("ws", ip)
        /\ ws' = ws \cup {ip} /\ Step("pass", "register")
        /\ UNCHANGED <<abandoned, slow>>
     \/ /\ "ws" \in Kinds /\ ~Bindable("ws", ip)
        /\ Step("pass", "unwind") /\ UNCHANGED <<ws, abandoned, slow>>
     \/ /\ "ws" \in Kinds /\ slow < MaxSlow
        /\ slow' = slow + 1 /\ abandoned' = abandoned \cup {ip}
        /\ Step("pass", "unwind") /\ UNCHANGED ws
  /\ UNCHANGED <<hostVars, bound, http, closing, lock, stopped, flaps, faults, absent>>

\* What _open does not catch: the loop's thread cannot be started, or there is
\* no websockets library. The pass is over, the lock is let go of, and the
\* HTTPS socket is still bound, held by the frames of the traceback.
BindWsRaises(ip) ==
  /\ InHand("pass", "bind ws", ip) /\ "ws" \in Kinds
  /\ faults < MaxFaults /\ faults' = faults + 1
  /\ \/ loop = "none" /\ UNCHANGED loop
     \/ loop' = "running"
  /\ job' = [job EXCEPT !["pass"].at = "raised", !["pass"].want = {}] /\ lock' = "free"
  /\ UNCHANGED <<hostVars, bound, http, ws, abandoned, closing, stopped, flaps, slow, absent>>

\* The caller of reconcile has logged the exception: its traceback goes, the
\* server with it, and Python closes the socket.
DropTraceback(ip) ==
  /\ InHand("pass", "raised", ip)
  /\ http' = [http EXCEPT ![ip] = "none"]
  /\ job' = [job EXCEPT !["pass"] = Idle]
  /\ UNCHANGED <<hostVars, bound, loopVars, lock, stopped, bounds, absent>>

\* Mutants of Unwind: the socket is left bound; shutdown() is called on a
\* server that never served.
UnwindLeavesSocket(ip) ==
  /\ InHand("pass", "unwind", ip)
  /\ Step("pass", "open")
  /\ UNCHANGED <<hostVars, bound, http, loopVars, lock, stopped, bounds, absent>>
UnwindShutsDown(ip) ==
  /\ InHand("pass", "unwind", ip) /\ http[ip] = "serving"
  /\ http' = [http EXCEPT ![ip] = "none"]
  /\ Step("pass", "open")
  /\ UNCHANGED <<hostVars, bound, loopVars, lock, stopped, bounds, absent>>

\* _close_unstarted_http: release the socket without shutdown().
Unwind(ip) ==
  /\ InHand("pass", "unwind", ip)
  /\ http' = [http EXCEPT ![ip] = "none"]
  /\ Step("pass", "open")
  /\ UNCHANGED <<hostVars, bound, loopVars, lock, stopped, bounds, absent>>

RegisterLater(ip) ==
  /\ InHand("pass", "register", ip)
  /\ http' = [http EXCEPT ![ip] = IF "http" \in Kinds THEN "serving" ELSE @]
  /\ Step("pass", "start")
  /\ UNCHANGED <<hostVars, bound, loopVars, lock, stopped, bounds, absent>>

Register(ip) ==
  /\ InHand("pass", "register", ip)
  /\ bound' = bound \cup {ip}
  /\ absent' = IF ip \in local THEN absent \ {ip} ELSE absent
  /\ Step("pass", IF "http" \in Kinds THEN "start" ELSE "open")
  /\ UNCHANGED <<hostVars, http, loopVars, lock, stopped, bounds>>

\* _start_http: the serving thread starts, or cannot and everything unwinds.
StartHttp(ip) ==
  /\ InHand("pass", "start", ip)
  /\ \/ /\ http' = [http EXCEPT ![ip] = "serving"]
        /\ Step("pass", "open")
        /\ UNCHANGED <<bound, faults>>
     \/ /\ faults < MaxFaults /\ faults' = faults + 1
        /\ bound' = bound \ {ip}
        /\ Step("pass", "unwind ws")
        /\ UNCHANGED http
  /\ UNCHANGED <<hostVars, loopVars, lock, stopped, flaps, slow, absent>>

UnwindWs(ip) == InHand("pass", "unwind ws", ip) /\ ShutdownWs("pass", ip, "unwind")

PassEnds ==
  /\ job["pass"].at = "open" /\ job["pass"].want \subseteq bound
  /\ job' = [job EXCEPT !["pass"] = Idle] /\ lock' = "free"
  /\ UNCHANGED <<hostVars, bound, http, loopVars, stopped, bounds, absent>>

-----------------------------------------------------------------------------
(* The asyncio loop, and the end of stop() *)

\* An abandoned start() runs after all; nobody keeps its server.
RunAbandonedStart(ip) ==
  /\ loop = "running" /\ ip \in abandoned
  /\ abandoned' = abandoned \ {ip}
  /\ ws' = IF Bindable("ws", ip) THEN ws \cup {ip} ELSE ws
  /\ UNCHANGED <<hostVars, bound, http, closing, loop, lock, stopped, job, bounds, absent>>

RunLateClose(ip) ==
  /\ loop = "running" /\ ip \in closing
  /\ closing' = closing \ {ip} /\ ws' = ws \ {ip}
  /\ UNCHANGED <<hostVars, bound, http, abandoned, loop, lock, stopped, job, bounds, absent>>

\* stop() has closed everything it knows of and lets go of the lock.
StopReleases ==
  /\ job["stop"].at = "close" /\ job["stop"].close = {}
  /\ lock' = "free" /\ Step("stop", "loop")
  /\ UNCHANGED <<hostVars, bound, http, loopVars, stopped, bounds, absent>>

\* The loop is stopped, joined and closed, with what it held. A loop that has
\* not stopped after two seconds is left to itself.
StopLoop ==
  /\ job["stop"].at = "loop"
  /\ \/ loop' = "closed" /\ ws' = {} /\ abandoned' = {} /\ closing' = {} /\ UNCHANGED slow
     \/ slow < MaxSlow /\ slow' = slow + 1 /\ UNCHANGED loopVars
  /\ Step("stop", "stopped")
  /\ UNCHANGED <<hostVars, bound, http, lock, stopped, flaps, faults, absent>>

-----------------------------------------------------------------------------
Init ==
  /\ local \in SUBSET IPs /\ taken = {}
  /\ bound = {} /\ http = [ip \in IPs |-> "none"]
  /\ ws = {} /\ abandoned = {} /\ closing = {} /\ loop = "none"
  /\ lock = "free" /\ stopped = FALSE
  /\ job = [w \in Workers |-> Idle]
  /\ flaps = 0 /\ faults = 0 /\ slow = 0 /\ absent = {}

Pass ==
  \/ EnterPass \/ Enumerate \/ ClosedAll \/ PassEnds
  \/ \E ip \in IPs :
       \/ NextClose("pass", ip) \/ ShutdownHttp("pass", ip) \/ CloseWs("pass", ip)
       \/ Pop("pass", ip) \/ NextOpen(ip) \/ BindHttp(ip) \/ BindWs(ip) \/ Unwind(ip)
       \/ Register(ip) \/ StartHttp(ip) \/ UnwindWs(ip) \/ DropTraceback(ip)

Stop ==
  \/ EnterStop \/ StopReleases \/ StopLoop
  \/ \E ip \in IPs : \/ NextClose("stop", ip) \/ ShutdownHttp("stop", ip)
                     \/ CloseWs("stop", ip) \/ Pop("stop", ip)

Raises == \E ip \in IPs : BindWsRaises(ip)

Loop == \E ip \in IPs : RunAbandonedStart(ip) \/ RunLateClose(ip)

Host ==
  \E ip \in IPs : \/ AddressComes(ip) \/ AddressGoes(ip)
                  \/ \E kind \in {"http", "ws"} :
                       ForeignBinds(kind, ip) \/ ForeignCloses(kind, ip)

Next == CallReconcile \/ CallStop \/ EnumerationFails \/ Raises \/ Pass \/ Stop \/ Loop \/ Host

Spec == Init /\ [][Next]_vars

\* The background thread keeps calling reconcile, runnable threads run, the
\* lock is granted, the loop runs what is queued. The host, and whether
\* on_unload is ever called, owe nothing.
Fairness ==
  /\ WF_vars(CallReconcile) /\ WF_vars(Loop)
  /\ WF_vars(Pass) /\ WF_vars(Stop) /\ SF_vars(EnterStop)

FairSpec == Spec /\ Fairness

-----------------------------------------------------------------------------
(* Properties *)

Ats == {"idle", "waiting", "enumerate", "close", "shutdown http", "shutdown ws", "pop",
        "open", "bind http", "bind ws", "unwind", "register", "start", "unwind ws",
        "raised", "loop", "stopped"}

\* The variables have the shapes the code gives them.
Job == [at : Ats, ip : SUBSET IPs, close : SUBSET IPs, want : SUBSET IPs]
JobsOK == job \in [Workers -> Job]
StateOK ==
  /\ local \subseteq IPs /\ taken \subseteq {"http", "ws"} \X IPs
  /\ bound \subseteq IPs /\ http \in [IPs -> {"none", "bound", "serving"}]
  /\ ws \subseteq IPs /\ abandoned \subseteq IPs /\ closing \subseteq IPs
  /\ loop \in {"none", "running", "closed"}
  /\ lock \in {"free"} \cup Workers /\ stopped \in BOOLEAN
  /\ flaps \in Nat /\ faults \in Nat /\ slow \in Nat /\ absent \subseteq IPs
TypeOK == StateOK /\ JobsOK

\* SPEC.md 2.15.1: an address that answers requests is one `_bound` names,
\* since connect-src is rendered from it - while opening and while closing.
ServedIsNamed == \A ip \in IPs : http[ip] = "serving" => ip \in bound

\* Between passes every HTTPS socket the plugin holds is on record, so that
\* stop() can find it, and every address on record is really served - whatever
\* failed. What an exception that _open does not catch leaves bound is off the
\* record for as long as the exception is being handled, and no longer.
NoLeakedSockets ==
  lock = "free" =>
    \A ip \in IPs : \/ InHand("pass", "raised", ip)
                    \/ IF ip \in bound THEN "http" \in Kinds => http[ip] = "serving"
                                       ELSE http[ip] = "none"

\* SPEC.md 2.3.1: a teardown always wins. Once stop() has let go of the lock
\* nothing is bound, and no pass that was waiting binds it again. (A socket in
\* the hands of an exception was never served, and goes with it.)
TeardownWins ==
  job["stop"].at \in {"loop", "stopped"} =>
    bound = {} /\ \A ip \in IPs : http[ip] = "none" \/ InHand("pass", "raised", ip)

\* A pass never takes down an address the host has had ever since it was
\* bound, whatever enumerations failed in between.
HealthyStaysBound ==
  [][\A ip \in bound \ bound' : \/ stopped
                                \/ ip \in absent
                                \/ job'["pass"].at = "unwind ws"]_vars

\* When the host settles, the passes converge on the addresses whose ports
\* are free: unless a wait on the loop has timed out, which may leave a WSS
\* server behind that keeps its port (EveryServerOnRecord).
Settled == \/ job["stop"].at # "idle"
           \/ slow > 0
           \/ bound = {ip \in local : \A kind \in Kinds : <<kind, ip>> \notin taken}
Converges == <>[]Settled

\* on_unload returns: whatever failed before, stop() never waits for good.
StopReturns == job["stop"].at = "waiting" ~> job["stop"].at = "stopped"

\* The docstring of _open: a failure is logged, never fatal. A pass that has
\* enumerated lets go of the lock only when every address has had its turn.
\* False of the code: ListenersFatal.cfg finds the behavior.
FailuresAreNotFatal ==
  [][job["pass"].at \in {"open", "bind http", "bind ws", "unwind"} /\ lock' = "free"
       => job["pass"].want \subseteq bound]_vars

\* SPEC.md 2.3.1: a failed bind leaves the address unbound. A start() that
\* overruns its ten seconds comes up later, on nobody's record.
EveryServerOnRecord ==
  lock = "free" => ws \subseteq bound \cup closing
=============================================================================
