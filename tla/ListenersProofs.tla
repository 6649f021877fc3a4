-------------------------- MODULE ListenersProofs --------------------------
(***************************************************************************)
(* For any addresses, listeners and faults: Listeners of companion.py      *)
(* leaks no HTTPS socket, serves no address it does not name, binds        *)
(* nothing after a teardown and takes down no address the host has kept.   *)
(***************************************************************************)
EXTENDS Listeners, TLAPS

Closing == {"close", "shutdown http", "shutdown ws", "pop"}
Opening == {"open", "bind http", "bind ws", "register", "start", "unwind ws", "unwind"}
HalfDone == {"shutdown ws", "pop", "bind ws", "register", "start", "unwind ws", "unwind"}
Outside == {"idle", "waiting", "raised"}

\* Who holds the lock, and that a teardown keeps the passes out for good.
Locking ==
  /\ job["pass"].at \in Outside \cup {"enumerate"} \cup Closing \cup Opening
  /\ job["stop"].at \in (Outside \ {"raised"}) \cup Closing \cup {"loop", "stopped"}
  /\ lock = "pass" <=> job["pass"].at \notin Outside
  /\ lock = "stop" <=> job["stop"].at \in Closing
  /\ stopped <=> job["stop"].at \notin Outside
  /\ stopped => job["pass"].at \in Outside

\* The address in hand, at each step of the worker.
Handled(w) ==
  /\ \A x, y \in job[w].ip : x = y
  /\ job[w].close \subseteq bound
  /\ job[w].at \notin Closing => job[w].close = {}
  /\ job[w].at \in Closing \ {"close"} => job[w].ip \subseteq bound \ job[w].close
  /\ job[w].at \in {"bind http", "bind ws", "register", "unwind ws", "unwind"} =>
       job[w].ip \cap bound = {}
  /\ job[w].at = "start" => "http" \in Kinds /\ job[w].ip \subseteq bound
  /\ job[w].at \in {"shutdown ws", "pop"} => \A ip \in job[w].ip : http[ip] = "none"
  /\ job[w].at \in HalfDone => \A ip \in job[w].ip : http[ip] # "serving"
  /\ job[w].at = "raised" => \A ip \in job[w].ip : ip \notin bound /\ http[ip] # "serving"

\* Every other address is served exactly if it is on record.
AtRest(ip) ==
  IF ip \in bound THEN "http" \in Kinds => http[ip] = "serving" ELSE http[ip] = "none"
InWork(ip) == \E w \in Workers : job[w].at \in HalfDone \cup {"raised"} /\ ip \in job[w].ip

\* What a teardown has still to close is all there is.
Teardown ==
  /\ job["stop"].at \in Closing =>
       bound \subseteq job["stop"].close \cup (IF job["stop"].at = "close" THEN {} ELSE job["stop"].ip)
  /\ job["stop"].at \in {"loop", "stopped"} => bound = {}

\* A pass closes only what the host has been without, and opens nothing else
\* than what it has had since.
Absences ==
  /\ bound \ local \subseteq absent
  /\ job["pass"].close \subseteq absent
  /\ job["pass"].close \cap job["pass"].want = {}
  /\ job["pass"].at \in Closing => job["pass"].ip \cap job["pass"].want = {}
  /\ job["pass"].at \in Closing \ {"close"} => job["pass"].ip \subseteq absent
  /\ job["pass"].at \in Closing \cup Opening => job["pass"].want \subseteq local \cup absent
  /\ job["pass"].at \in {"bind http", "bind ws", "register"} =>
       job["pass"].ip \subseteq local \cup absent

\* The parts of IInv besides the types.
Rest ==
  /\ Locking /\ Teardown /\ Absences
  /\ \A w \in Workers : Handled(w)
  /\ \A ip \in IPs : InWork(ip) \/ AtRest(ip)
  /\ "http" \notin Kinds => \A ip \in IPs : http[ip] = "none"

IInv == TypeOK /\ Rest

USE DEF Workers, Closing, Opening, HalfDone, Outside

-----------------------------------------------------------------------------
(* Typing *)

\* What Step does to the jobs.
LEMMA Stepped ==
  ASSUME JobsOK, NEW w \in Workers, NEW at \in Ats, Step(w, at)
  PROVE  /\ JobsOK'
         /\ job'[w] = [job[w] EXCEPT !.at = at]
         /\ job'[w].at = at /\ job'[w].ip = job[w].ip
         /\ job'[w].close = job[w].close /\ job'[w].want = job[w].want
         /\ \A v \in Workers \ {w} : job'[v] = job[v]
  BY DEF Step, JobsOK, Job

LEMMA TypeInit == Init => TypeOK
<1> SUFFICES ASSUME Init PROVE TypeOK
  OBVIOUS
<1>1. JobsOK  BY DEF Init, Idle, JobsOK, Job, Ats
<1>2. StateOK  BY DEF Init, StateOK
<1> QED  BY <1>1, <1>2 DEF TypeOK

\* The workers' steps and addresses stay what the code gives them.
LEMMA JobsTyped == TypeOK /\ Next => JobsOK'
<1> SUFFICES ASSUME TypeOK, Next PROVE JobsOK'
  OBVIOUS
<1> USE DEF TypeOK
<1>1. CASE UNCHANGED job  BY <1>1 DEF JobsOK
<1>2. CASE EnumerationFails \/ PassEnds
  <2>1. Idle \in Job  BY DEF Idle, Job, Ats
  <2> QED  BY <1>2, <2>1 DEF EnumerationFails, PassEnds, JobsOK
<1>3. CASE Enumerate
  <2>1. [at |-> "close", ip |-> {}, close |-> bound \ local, want |-> local] \in Job
    BY DEF StateOK, Job, Ats
  <2> QED  BY <1>3, <2>1 DEF Enumerate, JobsOK
<1>4. CASE EnterStop
  <2>1. [job["stop"] EXCEPT !.at = "close", !.close = bound] \in Job
    BY DEF StateOK, JobsOK, Job, Ats
  <2>2. job' = [job EXCEPT !["stop"] = [job["stop"] EXCEPT !.at = "close", !.close = bound]]
    BY <1>4 DEF EnterStop, JobsOK
  <2> QED  BY <2>1, <2>2 DEF JobsOK
<1>5. ASSUME NEW w \in Workers, NEW ip \in IPs, NextClose(w, ip) PROVE JobsOK'
  <2>1. [job[w] EXCEPT !.at = "shutdown http", !.ip = {ip}, !.close = @ \ {ip}] \in Job
    BY DEF JobsOK, Job, Ats
  <2> QED  BY <1>5, <2>1 DEF NextClose, JobsOK
<1>6. ASSUME NEW w \in Workers, NEW ip \in IPs, Pop(w, ip) PROVE JobsOK'
  BY <1>6 DEF Pop, JobsOK, Job, Ats
<1>7. ASSUME NEW ip \in IPs, NextOpen(ip) PROVE JobsOK'
  <2>1. [job["pass"] EXCEPT !.at = "bind http", !.ip = {ip}, !.want = @ \ {ip}] \in Job
    BY DEF JobsOK, Job, Ats
  <2> QED  BY <1>7, <2>1 DEF NextOpen, JobsOK
<1>8. ASSUME NEW w \in Workers, NEW at \in Ats, Step(w, at) PROVE JobsOK'
  BY <1>8, Stepped
<1>9. CASE CallReconcile \/ CallStop \/ EnterPass \/ ClosedAll \/ StopReleases \/ StopLoop
  BY <1>8, <1>9 DEF CallReconcile, CallStop, EnterPass, ClosedAll, StopReleases, StopLoop, Ats
<1>10. ASSUME NEW w \in Workers, NEW ip \in IPs, ShutdownHttp(w, ip) \/ CloseWs(w, ip)
       PROVE  JobsOK'
  BY <1>8, <1>10 DEF ShutdownHttp, CloseWs, ShutdownWs, Ats
<1>11. ASSUME NEW ip \in IPs,
              BindHttp(ip) \/ BindWs(ip) \/ Unwind(ip) \/ Register(ip) \/ StartHttp(ip) \/ UnwindWs(ip)
       PROVE  JobsOK'
  BY <1>8, <1>11 DEF BindHttp, BindWs, Unwind, Register, StartHttp, UnwindWs, ShutdownWs, Ats
<1>13. ASSUME NEW ip \in IPs, BindWsRaises(ip) PROVE JobsOK'
  <2>1. [job["pass"] EXCEPT !.at = "raised", !.want = {}] \in Job  BY DEF JobsOK, Job, Ats
  <2>2. job' = [job EXCEPT !["pass"] = [job["pass"] EXCEPT !.at = "raised", !.want = {}]]
    BY <1>13 DEF BindWsRaises, JobsOK
  <2> QED  BY <2>1, <2>2 DEF JobsOK
<1>14. ASSUME NEW ip \in IPs, DropTraceback(ip) PROVE JobsOK'
  <2>1. Idle \in Job  BY DEF Idle, Job, Ats
  <2> QED  BY <1>14, <2>1 DEF DropTraceback, JobsOK
<1>12. Host \/ Loop => UNCHANGED job
  BY DEF Host, Loop, AddressComes, AddressGoes, ForeignBinds, ForeignCloses, RunAbandonedStart,
     RunLateClose
<1> QED  BY <1>1, <1>2, <1>3, <1>4, <1>5, <1>6, <1>7, <1>9, <1>10, <1>11, <1>12, <1>13, <1>14
         DEF Next, Pass, Stop, Raises

\* And so does everything else.
LEMMA StateTyped == TypeOK /\ Next => StateOK'
<1> SUFFICES ASSUME StateOK, Next PROVE StateOK'
  BY DEF TypeOK
<1> USE DEF StateOK, hostVars, loopVars, bounds
<1>1. CASE CallReconcile \/ CallStop \/ EnterPass \/ ClosedAll \/ PassEnds \/ StopReleases
  BY <1>1 DEF CallReconcile, CallStop, EnterPass, ClosedAll, PassEnds, StopReleases
<1>2. CASE EnterStop \/ StopLoop \/ Enumerate \/ EnumerationFails
  <2>1. CASE EnterStop  BY <2>1 DEF EnterStop
  <2>2. CASE Enumerate \/ EnumerationFails  BY <2>2 DEF Enumerate, EnumerationFails
  <2>3. CASE StopLoop
    <3>1. /\ loop' \in {"none", "running", "closed"} /\ slow' \in Nat
          /\ ws' \subseteq IPs /\ abandoned' \subseteq IPs /\ closing' \subseteq IPs
      BY <2>3 DEF StopLoop
    <3> QED  BY <2>3, <3>1 DEF StopLoop
  <2> QED  BY <1>2, <2>1, <2>2, <2>3
<1>3. ASSUME NEW w \in Workers, NEW ip \in IPs, NEW then, ShutdownWs(w, ip, then)
      PROVE  StateOK'
  <2>1. ws' \subseteq IPs /\ closing' \subseteq IPs /\ slow' \in Nat
    BY <1>3 DEF ShutdownWs
  <2> QED  BY <1>3, <2>1 DEF ShutdownWs
<1>4. ASSUME NEW w \in Workers, NEW ip \in IPs,
             NextClose(w, ip) \/ ShutdownHttp(w, ip) \/ CloseWs(w, ip) \/ Pop(w, ip)
      PROVE  StateOK'
  <2>1. CASE NextClose(w, ip)  BY <2>1 DEF NextClose
  <2>2. CASE ShutdownHttp(w, ip)  BY <2>2 DEF ShutdownHttp
  <2>3. CASE CloseWs(w, ip)  BY <1>3, <2>3 DEF CloseWs
  <2>4. CASE Pop(w, ip)  BY <2>4 DEF Pop
  <2> QED  BY <1>4, <2>1, <2>2, <2>3, <2>4
<1>5. ASSUME NEW ip \in IPs, NextOpen(ip) \/ BindHttp(ip) \/ BindWs(ip) \/ Unwind(ip)
      PROVE  StateOK'
  <2>1. CASE NextOpen(ip)  BY <2>1 DEF NextOpen
  <2>2. CASE BindHttp(ip)  BY <2>2 DEF BindHttp
  <2>3. CASE BindWs(ip)
    <3>1. loop' \in {"none", "running", "closed"}  BY <2>3 DEF BindWs
    <3>2. slow' = slow \/ slow' = slow + 1  BY <2>3, Zenon DEF BindWs
    <3>3. ws' \subseteq IPs /\ abandoned' \subseteq IPs  BY <2>3 DEF BindWs
    <3>4. UNCHANGED <<local, taken, bound, http, closing, lock, stopped, flaps, faults, absent>>
      BY <2>3 DEF BindWs
    <3>5. slow' \in Nat  BY <3>2
    <3> QED  BY <3>1, <3>3, <3>4, <3>5
  <2>4. CASE Unwind(ip)  BY <2>4 DEF Unwind
  <2> QED  BY <1>5, <2>1, <2>2, <2>3, <2>4
<1>6. ASSUME NEW ip \in IPs, Register(ip) \/ StartHttp(ip) \/ UnwindWs(ip)
      PROVE  StateOK'
  <2>1. CASE Register(ip)  BY <2>1 DEF Register
  <2>2. CASE StartHttp(ip)
    <3>1. http' \in [IPs -> {"none", "bound", "serving"}]  BY <2>2 DEF StartHttp
    <3>2. bound' \subseteq bound  BY <2>2 DEF StartHttp
    <3>3. faults' = faults \/ faults' = faults + 1  BY <2>2, Zenon DEF StartHttp
    <3>4. UNCHANGED <<local, taken, loopVars, lock, stopped, flaps, slow, absent>>
      BY <2>2 DEF StartHttp
    <3>5. faults' \in Nat  BY <3>3
    <3> QED  BY <3>1, <3>2, <3>4, <3>5
  <2>3. CASE UnwindWs(ip)  BY <1>3, <2>3 DEF UnwindWs
  <2> QED  BY <1>6, <2>1, <2>2, <2>3
<1>7. CASE Loop
  BY <1>7 DEF Loop, RunAbandonedStart, RunLateClose
<1>8. CASE Host
  <2> SUFFICES ASSUME NEW ip \in IPs, NEW kind \in {"http", "ws"},
                      \/ AddressComes(ip) \/ AddressGoes(ip)
                      \/ ForeignBinds(kind, ip) \/ ForeignCloses(kind, ip)
               PROVE  StateOK'
    BY <1>8 DEF Host
  <2>1. CASE AddressComes(ip)  BY <2>1 DEF AddressComes
  <2>2. CASE AddressGoes(ip)  BY <2>2 DEF AddressGoes
  <2>3. CASE ForeignBinds(kind, ip)
    <3>1. <<kind, ip>> \in {"http", "ws"} \X IPs  OBVIOUS
    <3>2. taken' \subseteq {"http", "ws"} \X IPs  BY <2>3, <3>1 DEF ForeignBinds
    <3> QED  BY <2>3, <3>2 DEF ForeignBinds
  <2>4. CASE ForeignCloses(kind, ip)
    <3>1. taken' \subseteq {"http", "ws"} \X IPs  BY <2>4 DEF ForeignCloses
    <3> QED  BY <2>4, <3>1 DEF ForeignCloses
  <2> QED  BY <2>1, <2>2, <2>3, <2>4
<1>9. ASSUME NEW ip \in IPs, BindWsRaises(ip) PROVE StateOK'
  <2>1. loop' \in {"none", "running", "closed"}  BY <1>9 DEF BindWsRaises
  <2>2. faults' \in Nat
    <3>1. faults' = faults + 1  BY <1>9 DEF BindWsRaises
    <3> QED  BY <3>1
  <2>3. /\ lock' = "free"
        /\ UNCHANGED <<hostVars, bound, http, ws, abandoned, closing, stopped, flaps, slow, absent>>
    BY <1>9 DEF BindWsRaises
  <2> QED  BY <2>1, <2>2, <2>3
<1>10. ASSUME NEW ip \in IPs, DropTraceback(ip) PROVE StateOK'
  BY <1>10 DEF DropTraceback
<1> QED
  BY <1>1, <1>2, <1>4, <1>5, <1>6, <1>7, <1>8, <1>9, <1>10 DEF Next, Pass, Stop, Raises

-----------------------------------------------------------------------------
(* Each action keeps the invariant *)

\* A worker that holds the lock is alone: the other has nothing in hand.
LEMMA Alone ==
  ASSUME Rest, NEW w \in Workers, job[w].at \in {"enumerate"} \cup Closing \cup Opening
  PROVE  /\ lock = w
         /\ \A v \in Workers \ {w} :
              job[v].at \notin {"enumerate"} \cup Closing \cup Opening /\ job[v].close = {}
  BY DEF Rest, Locking, Handled

\* Exceptions are the passes'.
LEMMA StopNeverRaises == ASSUME Rest PROVE job["stop"].at # "raised"
  BY DEF Rest, Locking

\* Whatever it does, the other has still nothing in hand: or the pass has an
\* exception in hand, and the teardown only takes down.
LEMMA OtherHandled ==
  ASSUME TypeOK, Rest, NEW w \in Workers, job[w].at \in {"enumerate"} \cup Closing \cup Opening,
         NEW v \in Workers \ {w}, job'[v] = job[v],
         \/ w = "pass"
         \/ bound' \subseteq bound /\ \A ip \in IPs : http'[ip] \in {http[ip], "none"}
  PROVE  Handled(v)'
<1>1. job[v].at \notin {"enumerate"} \cup Closing \cup Opening /\ job[v].close = {}  BY Alone
<1>2. \A x, y \in job[v].ip : x = y  BY DEF Rest, Handled
<1>3. CASE job[v].at = "raised"
  <2>1. v = "pass" /\ w = "stop"  BY <1>3 DEF Rest, Locking
  <2>2. \A ip \in job[v].ip : ip \notin bound /\ http[ip] # "serving"  BY <1>3 DEF Rest, Handled
  <2>3. \A ip \in job[v].ip : ip \notin bound' /\ http'[ip] # "serving"
    <3> SUFFICES ASSUME NEW ip \in job[v].ip PROVE ip \notin bound' /\ http'[ip] # "serving"
      OBVIOUS
    <3>2. ip \in IPs  BY DEF TypeOK, JobsOK, Job
    <3>1. bound' \subseteq bound /\ http'[ip] \in {http[ip], "none"}  BY <2>1, <3>2
    <3> QED  BY <2>2, <3>1
  <2> QED  BY <1>1, <1>2, <1>3, <2>3 DEF Handled
<1>4. CASE job[v].at # "raised"
  BY <1>1, <1>2, <1>4 DEF Handled
<1> QED  BY <1>3, <1>4

LEMMA HostKeeps == ASSUME TypeOK, Rest, Host PROVE Rest'
<1>0. UNCHANGED <<bound, http, lock, stopped, job>>
  BY DEF Host, AddressComes, AddressGoes, ForeignBinds, ForeignCloses
<1>1. /\ bound \ local' \subseteq absent' /\ absent \subseteq absent'
      /\ local \cup absent \subseteq local' \cup absent'
  BY DEF Rest, Absences, Host, AddressComes, AddressGoes, ForeignBinds, ForeignCloses
<1>2. Locking' /\ Teardown'  BY <1>0 DEF Rest, Locking, Teardown
<1>3. Absences'  BY <1>0, <1>1 DEF Rest, Absences
<1>4. \A w \in Workers : Handled(w)'  BY <1>0 DEF Rest, Handled
<1>5. \A ip \in IPs : InWork(ip)' \/ AtRest(ip)'  BY <1>0 DEF Rest, AtRest, InWork
<1> QED  BY <1>0, <1>2, <1>3, <1>4, <1>5 DEF Rest

LEMMA CallsKeep == ASSUME TypeOK, Rest, CallReconcile \/ CallStop PROVE Rest'
<1>0. UNCHANGED <<local, bound, http, lock, stopped, absent>>
  BY DEF CallReconcile, CallStop, hostVars
<1>1. PICK w \in Workers : job[w].at = "idle" /\ Step(w, "waiting")
  BY DEF CallReconcile, CallStop
<1>2. /\ job'[w].at = "waiting" /\ job'[w].ip = job[w].ip
      /\ job'[w].close = job[w].close /\ job'[w].want = job[w].want
      /\ \A v \in Workers \ {w} : job'[v] = job[v]
  BY <1>1, Stepped DEF TypeOK, Ats
<1>3. Locking' /\ Teardown'  BY <1>0, <1>1, <1>2 DEF Rest, Locking, Teardown
<1>4. Absences'  BY <1>0, <1>1, <1>2 DEF Rest, Absences
<1>5. ASSUME NEW v \in Workers PROVE Handled(v)'
  <2>1. CASE v = w
    <3>1. Handled(w)  BY DEF Rest
    <3> QED  BY <1>0, <1>1, <1>2, <2>1, <3>1 DEF Handled
  <2>2. CASE v # w
    <3>1. job'[v] = job[v]  BY <1>2, <2>2
    <3> QED  BY <1>0, <3>1 DEF Rest, Handled
  <2> QED  BY <2>1, <2>2
<1>6. \A ip \in IPs : InWork(ip)' \/ AtRest(ip)'  BY <1>0, <1>1, <1>2 DEF Rest, AtRest, InWork
<1> QED  BY <1>0, <1>3, <1>4, <1>5, <1>6 DEF Rest

LEMMA NextCloseKeeps ==
  ASSUME TypeOK, Rest, NEW w \in Workers, NEW ip \in IPs, NextClose(w, ip)
  PROVE  Rest'
<1>0. UNCHANGED <<local, bound, http, lock, stopped, absent>>
  BY DEF NextClose, hostVars
<1>1. job[w].at = "close" /\ ip \in job[w].close
  BY DEF NextClose
<1>2. /\ job'[w].at = "shutdown http" /\ job'[w].ip = {ip}
      /\ job'[w].close = job[w].close \ {ip} /\ job'[w].want = job[w].want
      /\ \A v \in Workers \ {w} : job'[v] = job[v]
  BY DEF NextClose, TypeOK, JobsOK, Job
<1>3. Locking'  BY <1>0, <1>1, <1>2 DEF Rest, Locking
<1>4. Teardown'  BY <1>0, <1>1, <1>2, Alone DEF Rest, Locking, Teardown
<1>5. Absences'  BY <1>0, <1>1, <1>2 DEF Rest, Absences
<1>6. Handled(w)'
  <2>1. Handled(w)  BY DEF Rest
  <2> QED  BY <1>0, <1>1, <1>2, <2>1 DEF Handled
<1>7. \A v \in Workers \ {w} : Handled(v)'
  BY <1>0, <1>1, <1>2, OtherHandled DEF TypeOK, StateOK
<1>8. \A a \in IPs : InWork(a)' \/ AtRest(a)'
  BY <1>0, <1>1, <1>2 DEF Rest, AtRest, InWork, TypeOK, StateOK
<1> QED  BY <1>0, <1>3, <1>4, <1>5, <1>6, <1>7, <1>8 DEF Rest, TypeOK, StateOK

LEMMA ShutdownHttpKeeps ==
  ASSUME TypeOK, Rest, NEW w \in Workers, NEW ip \in IPs, ShutdownHttp(w, ip)
  PROVE  Rest'
<1>0. UNCHANGED <<local, bound, lock, stopped, absent>> /\ http' = [http EXCEPT ![ip] = "none"]
  BY DEF ShutdownHttp, hostVars
<1>1. job[w].at = "shutdown http" /\ job[w].ip = {ip}
  <2>1. Handled(w)  BY DEF Rest
  <2> QED  BY <2>1 DEF ShutdownHttp, InHand, Handled
<1>2. /\ job'[w].at = "shutdown ws" /\ job'[w].ip = job[w].ip
      /\ job'[w].close = job[w].close /\ job'[w].want = job[w].want
      /\ \A v \in Workers \ {w} : job'[v] = job[v]
  BY Stepped DEF ShutdownHttp, TypeOK, Ats
<1>3. Locking'  BY <1>0, <1>1, <1>2 DEF Rest, Locking
<1>4. Teardown'  BY <1>0, <1>1, <1>2, Alone DEF Rest, Locking, Teardown
<1>5. Absences'  BY <1>0, <1>1, <1>2 DEF Rest, Absences
<1>6. Handled(w)'
  <2>1. job'[w].ip = {ip} /\ http'[ip] = "none"  BY <1>0, <1>1, <1>2 DEF TypeOK, StateOK
  <2>2. job[w].ip \subseteq bound \ job[w].close  BY <1>1 DEF Rest, Handled
  <2> QED  BY <1>0, <1>1, <1>2, <2>1, <2>2 DEF Rest, Handled
<1>7. \A v \in Workers \ {w} : Handled(v)'
  BY <1>0, <1>1, <1>2, OtherHandled DEF TypeOK, StateOK
<1>8. \A a \in IPs : InWork(a)' \/ AtRest(a)'
  BY <1>0, <1>1, <1>2 DEF Rest, AtRest, InWork, TypeOK, StateOK
<1> QED  BY <1>0, <1>3, <1>4, <1>5, <1>6, <1>7, <1>8 DEF Rest, TypeOK, StateOK

LEMMA CloseWsKeeps ==
  ASSUME TypeOK, Rest, NEW w \in Workers, NEW ip \in IPs, CloseWs(w, ip)
  PROVE  Rest'
<1>0. UNCHANGED <<local, bound, http, lock, stopped, absent>>
  BY DEF CloseWs, ShutdownWs, hostVars
<1>1. job[w].at = "shutdown ws" /\ job[w].ip = {ip}
  <2>1. Handled(w)  BY DEF Rest
  <2> QED  BY <2>1 DEF CloseWs, InHand, Handled
<1>2. /\ job'[w].at = "pop" /\ job'[w].ip = job[w].ip
      /\ job'[w].close = job[w].close /\ job'[w].want = job[w].want
      /\ \A v \in Workers \ {w} : job'[v] = job[v]
  BY Stepped DEF CloseWs, ShutdownWs, TypeOK, Ats
<1>3. Locking'  BY <1>0, <1>1, <1>2 DEF Rest, Locking
<1>4. Teardown'  BY <1>0, <1>1, <1>2, Alone DEF Rest, Locking, Teardown
<1>5. Absences'  BY <1>0, <1>1, <1>2 DEF Rest, Absences
<1>6. Handled(w)'
  <2>1. Handled(w)  BY DEF Rest
  <2> QED  BY <1>0, <1>1, <1>2, <2>1 DEF Handled
<1>7. \A v \in Workers \ {w} : Handled(v)'
  BY <1>0, <1>1, <1>2, OtherHandled DEF TypeOK, StateOK
<1>8. \A a \in IPs : InWork(a)' \/ AtRest(a)'
  BY <1>0, <1>1, <1>2 DEF Rest, AtRest, InWork, TypeOK, StateOK
<1> QED  BY <1>0, <1>3, <1>4, <1>5, <1>6, <1>7, <1>8 DEF Rest, TypeOK, StateOK

LEMMA PopKeeps ==
  ASSUME TypeOK, Rest, NEW w \in Workers, NEW ip \in IPs, Pop(w, ip)
  PROVE  Rest'
<1>0. /\ UNCHANGED <<local, http, lock, stopped>>
      /\ bound' = bound \ {ip} /\ absent' = absent \ {ip}
  BY DEF Pop, hostVars
<1>1. job[w].at = "pop" /\ job[w].ip = {ip}
  <2>1. Handled(w)  BY DEF Rest
  <2> QED  BY <2>1 DEF Pop, InHand, Handled
<1>2. /\ job'[w].at = "close" /\ job'[w].ip = {}
      /\ job'[w].close = job[w].close /\ job'[w].want = job[w].want
      /\ \A v \in Workers \ {w} : job'[v] = job[v]
  BY DEF Pop, TypeOK, JobsOK, Job
<1>3. Locking'  BY <1>0, <1>1, <1>2 DEF Rest, Locking
<1>4. Teardown'  BY <1>0, <1>1, <1>2, Alone DEF Rest, Locking, Teardown
<1>5. Absences'
  <2>1. ip \notin job[w].close  BY <1>1 DEF Rest, Handled
  <2>2. CASE w = "pass"  BY <1>0, <1>1, <1>2, <2>1, <2>2 DEF Rest, Absences
  <2>3. CASE w = "stop"
    <3>1. job'["pass"] = job["pass"]  BY <1>2, <2>3
    <3>2. job["pass"].at \notin Closing \cup Opening /\ job["pass"].close = {}  BY <1>1, <2>3, Alone
    <3> QED  BY <1>0, <3>1, <3>2 DEF Rest, Absences
  <2> QED  BY <2>2, <2>3
<1>6. Handled(w)'
  <2>1. Handled(w)  BY DEF Rest
  <2> QED  BY <1>0, <1>1, <1>2, <2>1 DEF Handled
<1>7. \A v \in Workers \ {w} : Handled(v)'
  BY <1>0, <1>1, <1>2, OtherHandled DEF TypeOK, StateOK
<1>8. \A a \in IPs : InWork(a)' \/ AtRest(a)'
  <2>1. \A a \in job[w].ip : a = ip /\ http[a] = "none"  BY <1>1 DEF Rest, Handled
  <2>2. \A a \in IPs \ {ip} : InWork(a)' \/ AtRest(a)
    BY <1>1, <1>2, Alone DEF Rest, InWork
  <2> QED  BY <1>0, <1>1, <2>1, <2>2 DEF AtRest
<1> QED  BY <1>0, <1>3, <1>4, <1>5, <1>6, <1>7, <1>8 DEF Rest, TypeOK, StateOK

LEMMA ClosedAllKeeps ==
  ASSUME TypeOK, Rest, ClosedAll
  PROVE  Rest'
<1>0. UNCHANGED <<local, bound, http, lock, stopped, absent>>
  BY DEF ClosedAll, hostVars
<1>1. job["pass"].at = "close" /\ job["pass"].close = {}
  BY DEF ClosedAll
<1>2. /\ job'["pass"].at = "open" /\ job'["pass"].ip = job["pass"].ip
      /\ job'["pass"].close = job["pass"].close /\ job'["pass"].want = job["pass"].want
      /\ \A v \in Workers \ {"pass"} : job'[v] = job[v]
  BY Stepped DEF ClosedAll, TypeOK, Ats
<1>3. Locking'  BY <1>0, <1>1, <1>2 DEF Rest, Locking
<1>4. Teardown'  BY <1>0, <1>1, <1>2, Alone DEF Rest, Locking, Teardown
<1>5. Absences'  BY <1>0, <1>1, <1>2 DEF Rest, Absences
<1>6. Handled("pass")'
  <2>1. Handled("pass")  BY DEF Rest
  <2> QED  BY <1>0, <1>1, <1>2, <2>1 DEF Handled
<1>7. \A v \in Workers \ {"pass"} : Handled(v)'  BY <1>1, <1>2, OtherHandled
<1>8. \A a \in IPs : InWork(a)' \/ AtRest(a)'
  BY <1>0, <1>1, <1>2 DEF Rest, AtRest, InWork, TypeOK, StateOK
<1> QED  BY <1>0, <1>3, <1>4, <1>5, <1>6, <1>7, <1>8 DEF Rest, TypeOK, StateOK

LEMMA NextOpenKeeps ==
  ASSUME TypeOK, Rest, NEW ip \in IPs, NextOpen(ip)
  PROVE  Rest'
<1>0. UNCHANGED <<local, bound, http, lock, stopped, absent>>
  BY DEF NextOpen, hostVars
<1>1. job["pass"].at = "open" /\ ip \in job["pass"].want \ bound
  BY DEF NextOpen
<1>2. /\ job'["pass"].at = "bind http" /\ job'["pass"].ip = {ip}
      /\ job'["pass"].close = job["pass"].close /\ job'["pass"].want = job["pass"].want \ {ip}
      /\ \A v \in Workers \ {"pass"} : job'[v] = job[v]
  BY DEF NextOpen, TypeOK, JobsOK, Job
<1>3. Locking'  BY <1>0, <1>1, <1>2 DEF Rest, Locking
<1>4. Teardown'  BY <1>0, <1>1, <1>2, Alone DEF Rest, Locking, Teardown
<1>5. Absences'  BY <1>0, <1>1, <1>2 DEF Rest, Absences
<1>6. Handled("pass")'
  <2>1. job["pass"].close = {}  BY <1>1 DEF Rest, Handled
  <2>2. job'["pass"].ip \cap bound' = {}  BY <1>0, <1>1, <1>2
  <2> QED  BY <1>2, <2>1, <2>2 DEF Handled
<1>7. \A v \in Workers \ {"pass"} : Handled(v)'  BY <1>1, <1>2, OtherHandled
<1>8. \A a \in IPs : InWork(a)' \/ AtRest(a)'
  BY <1>0, <1>1, <1>2 DEF Rest, AtRest, InWork, TypeOK, StateOK
<1> QED  BY <1>0, <1>3, <1>4, <1>5, <1>6, <1>7, <1>8 DEF Rest, TypeOK, StateOK

LEMMA BindHttpKeeps ==
  ASSUME TypeOK, Rest, NEW ip \in IPs, BindHttp(ip)
  PROVE  Rest'
<1>0. UNCHANGED <<local, bound, lock, stopped, absent>>
  BY DEF BindHttp, hostVars
<1>1. /\ job["pass"].at = "bind http" /\ job["pass"].ip = {ip}
      /\ \/ http' = http
         \/ "http" \in Kinds /\ http' = [http EXCEPT ![ip] = "bound"] /\ Step("pass", "bind ws")
  <2>1. Handled("pass")  BY DEF Rest
  <2> QED  BY <2>1 DEF BindHttp, InHand, Handled
<1>2. /\ job'["pass"].at \in {"bind ws", "open"} /\ job'["pass"].ip = job["pass"].ip
      /\ job'["pass"].close = job["pass"].close /\ job'["pass"].want = job["pass"].want
      /\ \A v \in Workers \ {"pass"} : job'[v] = job[v]
  BY Stepped DEF BindHttp, TypeOK, Ats
<1>9. http[ip] = "none"
  <2>1. ~InWork(ip)  BY <1>1, Alone, StopNeverRaises DEF InWork
  <2>2. ip \notin bound  BY <1>1 DEF Rest, Handled
  <2> QED  BY <2>1, <2>2 DEF Rest, AtRest
<1>3. Locking'  BY <1>0, <1>1, <1>2 DEF Rest, Locking
<1>4. Teardown'  BY <1>0, <1>1, <1>2, Alone DEF Rest, Locking, Teardown
<1>5. Absences'  BY <1>0, <1>1, <1>2 DEF Rest, Absences
<1>6. Handled("pass")'
  <2>1. job["pass"].close = {} /\ ip \notin bound  BY <1>1 DEF Rest, Handled
  <2>2. \A a \in job'["pass"].ip : http'[a] # "serving"  BY <1>1, <1>2, <1>9 DEF TypeOK, StateOK
  <2>3. job'["pass"].ip = {ip} /\ job'["pass"].close = {} /\ ip \notin bound'
    BY <1>0, <1>1, <1>2, <2>1
  <2> QED  BY <1>2, <2>2, <2>3 DEF Handled
<1>7. \A v \in Workers \ {"pass"} : Handled(v)'  BY <1>1, <1>2, OtherHandled
<1>8. \A a \in IPs : InWork(a)' \/ AtRest(a)'
  <2>1. CASE http' = http
    <3>1. \A a \in IPs : ~InWork(a)  BY <1>1, Alone, StopNeverRaises DEF InWork
    <3> QED  BY <1>0, <2>1, <3>1 DEF Rest, AtRest
  <2>2. CASE "http" \in Kinds /\ http' = [http EXCEPT ![ip] = "bound"] /\ Step("pass", "bind ws")
    <3>1. job'["pass"].at = "bind ws" /\ ip \in job'["pass"].ip  BY <1>1, <2>2, Stepped DEF TypeOK, Ats
    <3>2. \A a \in IPs \ {ip} : AtRest(a)  BY <1>1, Alone, StopNeverRaises DEF Rest, InWork
    <3>3. \A a \in IPs \ {ip} : http'[a] = http[a]  BY <2>2 DEF TypeOK, StateOK
    <3> QED  BY <1>0, <3>1, <3>2, <3>3 DEF InWork, AtRest
  <2> QED  BY <1>1, <2>1, <2>2
<1> QED  BY <1>0, <1>3, <1>4, <1>5, <1>6, <1>7, <1>8, <1>1 DEF Rest, TypeOK, StateOK

LEMMA BindWsKeeps ==
  ASSUME TypeOK, Rest, NEW ip \in IPs, BindWs(ip)
  PROVE  Rest'
<1>0. UNCHANGED <<local, bound, http, lock, stopped, absent>>
  BY DEF BindWs, hostVars
<1>1. /\ job["pass"].at = "bind ws" /\ job["pass"].ip = {ip}
  <2>1. Handled("pass")  BY DEF Rest
  <2> QED  BY <2>1 DEF BindWs, InHand, Handled
<1>2. /\ job'["pass"].at \in {"open", "register", "unwind"} /\ job'["pass"].ip = job["pass"].ip
      /\ job'["pass"].close = job["pass"].close /\ job'["pass"].want = job["pass"].want
      /\ job'["pass"].at = "open" => "http" \notin Kinds
      /\ \A v \in Workers \ {"pass"} : job'[v] = job[v]
  BY Stepped DEF BindWs, TypeOK, Ats
<1>3. Locking'  BY <1>0, <1>1, <1>2 DEF Rest, Locking
<1>4. Teardown'  BY <1>0, <1>1, <1>2, Alone DEF Rest, Locking, Teardown
<1>5. Absences'  BY <1>0, <1>1, <1>2 DEF Rest, Absences
<1>6. Handled("pass")'
  <2>1. Handled("pass")  BY DEF Rest
  <2> QED  BY <1>0, <1>1, <1>2, <2>1 DEF Handled, TypeOK, StateOK
<1>7. \A v \in Workers \ {"pass"} : Handled(v)'  BY <1>1, <1>2, OtherHandled
<1>8. \A a \in IPs : InWork(a)' \/ AtRest(a)'
  BY <1>0, <1>1, <1>2 DEF Rest, AtRest, InWork, TypeOK, StateOK
<1> QED  BY <1>0, <1>3, <1>4, <1>5, <1>6, <1>7, <1>8 DEF Rest, TypeOK, StateOK

LEMMA UnwindKeeps ==
  ASSUME TypeOK, Rest, NEW ip \in IPs, Unwind(ip)
  PROVE  Rest'
<1>0. UNCHANGED <<local, bound, lock, stopped, absent>> /\ http' = [http EXCEPT ![ip] = "none"]
  BY DEF Unwind, hostVars
<1>1. job["pass"].at = "unwind" /\ job["pass"].ip = {ip}
  <2>1. Handled("pass")  BY DEF Rest
  <2> QED  BY <2>1 DEF Unwind, InHand, Handled
<1>2. /\ job'["pass"].at = "open" /\ job'["pass"].ip = job["pass"].ip
      /\ job'["pass"].close = job["pass"].close /\ job'["pass"].want = job["pass"].want
      /\ \A v \in Workers \ {"pass"} : job'[v] = job[v]
  BY Stepped DEF Unwind, TypeOK, Ats
<1>3. Locking'  BY <1>0, <1>1, <1>2 DEF Rest, Locking
<1>4. Teardown'  BY <1>0, <1>1, <1>2, Alone DEF Rest, Locking, Teardown
<1>5. Absences'  BY <1>0, <1>1, <1>2 DEF Rest, Absences
<1>6. Handled("pass")'
  <2>1. Handled("pass")  BY DEF Rest
  <2> QED  BY <1>0, <1>1, <1>2, <2>1 DEF Handled, TypeOK, StateOK
<1>7. \A v \in Workers \ {"pass"} : Handled(v)'  BY <1>1, <1>2, OtherHandled
<1>8. \A a \in IPs : InWork(a)' \/ AtRest(a)'
  <2>1. ip \notin bound  BY <1>1 DEF Rest, Handled
  <2>2. http'[ip] = "none" /\ \A a \in IPs \ {ip} : http'[a] = http[a]  BY <1>0 DEF TypeOK, StateOK
  <2>3. \A a \in IPs \ {ip} : ~InWork(a)  BY <1>1, Alone, StopNeverRaises DEF InWork
  <2> QED  BY <1>0, <2>1, <2>2, <2>3 DEF Rest, AtRest
<1> QED  BY <1>0, <1>3, <1>4, <1>5, <1>6, <1>7, <1>8 DEF Rest, TypeOK, StateOK

LEMMA RegisterKeeps ==
  ASSUME TypeOK, Rest, NEW ip \in IPs, Register(ip)
  PROVE  Rest'
<1>0. /\ UNCHANGED <<local, http, lock, stopped>> /\ bound' = bound \cup {ip}
      /\ absent' = IF ip \in local THEN absent \ {ip} ELSE absent
  BY DEF Register, hostVars
<1>1. job["pass"].at = "register" /\ job["pass"].ip = {ip}
  <2>1. Handled("pass")  BY DEF Rest
  <2> QED  BY <2>1 DEF Register, InHand, Handled
<1>2. /\ job'["pass"].at \in {"start", "open"} /\ job'["pass"].ip = job["pass"].ip
      /\ job'["pass"].close = job["pass"].close /\ job'["pass"].want = job["pass"].want
      /\ job'["pass"].at = "start" <=> "http" \in Kinds
      /\ \A v \in Workers \ {"pass"} : job'[v] = job[v]
  BY Stepped DEF Register, TypeOK, Ats
<1>3. Locking'  BY <1>0, <1>1, <1>2 DEF Rest, Locking
<1>4. Teardown'  BY <1>0, <1>1, <1>2, Alone DEF Rest, Locking, Teardown
<1>5. Absences'
  <2>1. job["pass"].close = {}  BY <1>1 DEF Rest, Handled
  <2> QED  BY <1>0, <1>1, <1>2, <2>1 DEF Rest, Absences
<1>6. Handled("pass")'
  <2>1. Handled("pass")  BY DEF Rest
  <2> QED  BY <1>0, <1>1, <1>2, <2>1 DEF Handled, TypeOK, StateOK
<1>7. \A v \in Workers \ {"pass"} : Handled(v)'  BY <1>1, <1>2, OtherHandled
<1>8. \A a \in IPs : InWork(a)' \/ AtRest(a)'
  BY <1>0, <1>1, <1>2 DEF Rest, AtRest, InWork, TypeOK, StateOK
<1> QED  BY <1>0, <1>3, <1>4, <1>5, <1>6, <1>7, <1>8 DEF Rest, TypeOK, StateOK

LEMMA StartHttpKeeps ==
  ASSUME TypeOK, Rest, NEW ip \in IPs, StartHttp(ip)
  PROVE  Rest'
<1>0. UNCHANGED <<local, lock, stopped, absent>>
  BY DEF StartHttp, hostVars
<1>1. /\ job["pass"].at = "start" /\ job["pass"].ip = {ip}
      /\ \/ http' = [http EXCEPT ![ip] = "serving"] /\ bound' = bound /\ Step("pass", "open")
         \/ http' = http /\ bound' = bound \ {ip} /\ Step("pass", "unwind ws")
  <2>1. Handled("pass")  BY DEF Rest
  <2> QED  BY <2>1 DEF StartHttp, InHand, Handled
<1>2. /\ job'["pass"].at \in {"open", "unwind ws"} /\ job'["pass"].ip = job["pass"].ip
      /\ job'["pass"].close = job["pass"].close /\ job'["pass"].want = job["pass"].want
      /\ \A v \in Workers \ {"pass"} : job'[v] = job[v]
  BY Stepped DEF StartHttp, TypeOK, Ats
<1>9. "http" \in Kinds  BY <1>1 DEF Rest, Handled
<1>3. Locking'  BY <1>0, <1>1, <1>2 DEF Rest, Locking
<1>4. Teardown'  BY <1>0, <1>1, <1>2, Alone DEF Rest, Locking, Teardown
<1>5. Absences'  BY <1>0, <1>1, <1>2 DEF Rest, Absences
<1>6. Handled("pass")'
  <2>1. job["pass"].close = {} /\ http[ip] # "serving"  BY <1>1 DEF Rest, Handled
  <2>2. CASE bound' = bound /\ Step("pass", "open")
    <3>1. job'["pass"].at = "open" /\ job'["pass"].ip = {ip} /\ job'["pass"].close = {}
      BY <1>1, <1>2, <2>1, <2>2, Stepped DEF TypeOK, Ats
    <3> QED  BY <3>1 DEF Handled
  <2>3. CASE http' = http /\ bound' = bound \ {ip} /\ Step("pass", "unwind ws")
    <3>1. job'["pass"].at = "unwind ws" /\ job'["pass"].ip = {ip} /\ job'["pass"].close = {}
      BY <1>1, <1>2, <2>1, <2>3, Stepped DEF TypeOK, Ats
    <3> QED  BY <2>1, <2>3, <3>1 DEF Handled
  <2> QED  BY <1>1, <2>2, <2>3
<1>7. \A v \in Workers \ {"pass"} : Handled(v)'  BY <1>1, <1>2, OtherHandled
<1>8. \A a \in IPs : InWork(a)' \/ AtRest(a)'
  <2>1. \A a \in IPs \ {ip} : AtRest(a)  BY <1>1, Alone, StopNeverRaises DEF Rest, InWork
  <2>2. CASE http' = [http EXCEPT ![ip] = "serving"] /\ bound' = bound
    <3>1. ip \in bound  BY <1>1 DEF Rest, Handled
    <3> QED  BY <2>1, <2>2, <3>1 DEF AtRest, TypeOK, StateOK
  <2>3. CASE http' = http /\ bound' = bound \ {ip} /\ Step("pass", "unwind ws")
    <3>1. job'["pass"].at = "unwind ws" /\ ip \in job'["pass"].ip
      BY <1>1, <1>2, <2>3, Stepped DEF TypeOK, Ats
    <3> QED  BY <2>1, <2>3, <3>1 DEF InWork, AtRest
  <2> QED  BY <1>1, <2>2, <2>3
<1> QED  BY <1>0, <1>3, <1>4, <1>5, <1>6, <1>7, <1>8, <1>9 DEF Rest, TypeOK, StateOK

LEMMA UnwindWsKeeps ==
  ASSUME TypeOK, Rest, NEW ip \in IPs, UnwindWs(ip)
  PROVE  Rest'
<1>0. UNCHANGED <<local, bound, http, lock, stopped, absent>>
  BY DEF UnwindWs, ShutdownWs, hostVars
<1>1. job["pass"].at = "unwind ws" /\ job["pass"].ip = {ip}
  <2>1. Handled("pass")  BY DEF Rest
  <2> QED  BY <2>1 DEF UnwindWs, InHand, Handled
<1>2. /\ job'["pass"].at = "unwind" /\ job'["pass"].ip = job["pass"].ip
      /\ job'["pass"].close = job["pass"].close /\ job'["pass"].want = job["pass"].want
      /\ \A v \in Workers \ {"pass"} : job'[v] = job[v]
  BY Stepped DEF UnwindWs, ShutdownWs, TypeOK, Ats
<1>3. Locking'  BY <1>0, <1>1, <1>2 DEF Rest, Locking
<1>4. Teardown'  BY <1>0, <1>1, <1>2, Alone DEF Rest, Locking, Teardown
<1>5. Absences'  BY <1>0, <1>1, <1>2 DEF Rest, Absences
<1>6. Handled("pass")'
  <2>1. Handled("pass")  BY DEF Rest
  <2> QED  BY <1>0, <1>1, <1>2, <2>1 DEF Handled, TypeOK, StateOK
<1>7. \A v \in Workers \ {"pass"} : Handled(v)'  BY <1>1, <1>2, OtherHandled
<1>8. \A a \in IPs : InWork(a)' \/ AtRest(a)'
  BY <1>0, <1>1, <1>2 DEF Rest, AtRest, InWork, TypeOK, StateOK
<1> QED  BY <1>0, <1>3, <1>4, <1>5, <1>6, <1>7, <1>8 DEF Rest, TypeOK, StateOK

LEMMA BindWsRaisesKeeps ==
  ASSUME TypeOK, Rest, NEW ip \in IPs, BindWsRaises(ip)
  PROVE  Rest'
<1>0. UNCHANGED <<local, bound, http, stopped, absent>> /\ lock' = "free"
  BY DEF BindWsRaises, hostVars
<1>1. job["pass"].at = "bind ws" /\ job["pass"].ip = {ip}
  <2>1. Handled("pass")  BY DEF Rest
  <2> QED  BY <2>1 DEF BindWsRaises, InHand, Handled
<1>2. /\ job'["pass"].at = "raised" /\ job'["pass"].ip = job["pass"].ip
      /\ job'["pass"].close = job["pass"].close /\ job'["pass"].want = {}
      /\ \A v \in Workers \ {"pass"} : job'[v] = job[v]
  BY DEF BindWsRaises, TypeOK, JobsOK, Job
<1>3. Locking'  BY <1>0, <1>1, <1>2, Alone DEF Rest, Locking
<1>4. Teardown'  BY <1>0, <1>1, <1>2, Alone DEF Rest, Locking, Teardown
<1>5. Absences'  BY <1>0, <1>1, <1>2 DEF Rest, Absences
<1>6. Handled("pass")'
  <2>1. Handled("pass")  BY DEF Rest
  <2> QED  BY <1>0, <1>1, <1>2, <2>1 DEF Handled
<1>7. \A v \in Workers \ {"pass"} : Handled(v)'  BY <1>1, <1>2, OtherHandled
<1>8. \A a \in IPs : InWork(a)' \/ AtRest(a)'
  BY <1>0, <1>1, <1>2 DEF Rest, AtRest, InWork, TypeOK, StateOK
<1> QED  BY <1>0, <1>3, <1>4, <1>5, <1>6, <1>7, <1>8 DEF Rest, TypeOK, StateOK

LEMMA DropTracebackKeeps ==
  ASSUME TypeOK, Rest, NEW ip \in IPs, DropTraceback(ip)
  PROVE  Rest'
<1>0. UNCHANGED <<local, bound, lock, stopped, absent>> /\ http' = [http EXCEPT ![ip] = "none"]
  BY DEF DropTraceback, hostVars
<1>1. job["pass"].at = "raised" /\ job["pass"].ip = {ip}
  <2>1. Handled("pass")  BY DEF Rest
  <2> QED  BY <2>1 DEF DropTraceback, InHand, Handled
<1>2. /\ job'["pass"] = Idle
      /\ job'["stop"] = job["stop"]
  BY DEF DropTraceback, TypeOK, JobsOK
<1>9. http'[ip] = "none" /\ \A a \in IPs \ {ip} : http'[a] = http[a]  BY <1>0 DEF TypeOK, StateOK
<1>10. ip \notin bound  BY <1>1 DEF Rest, Handled
<1>3. Locking'
  <2>1. job'["pass"].at = "idle" /\ job'["stop"].at = job["stop"].at  BY <1>2 DEF Idle
  <2>2. lock # "pass"  BY <1>1 DEF Rest, Locking
  <2> QED  BY <1>0, <1>1, <2>1, <2>2 DEF Rest, Locking
<1>4. Teardown'  BY <1>0, <1>1, <1>2 DEF Rest, Locking, Teardown
<1>5. Absences'  BY <1>0, <1>1, <1>2 DEF Rest, Absences, Idle
<1>6. Handled("pass")'  BY <1>2 DEF Handled, Idle
<1>7. Handled("stop")'
  <2>1. Handled("stop") /\ job["stop"].at # "raised"  BY DEF Rest, Locking
  <2>2. \A a \in job["stop"].ip : a \in IPs /\ http'[a] \in {http[a], "none"}
    BY <1>9 DEF TypeOK, JobsOK, Job
  <2>3. job["stop"].at \in {"shutdown ws", "pop"} =>
          \A a \in job["stop"].ip : http'[a] = "none"
    BY <2>1, <2>2 DEF Handled
  <2>4. job["stop"].at \in HalfDone => \A a \in job["stop"].ip : http'[a] # "serving"
    BY <2>1, <2>2 DEF Handled
  <2>5. job["stop"].at # "start"  BY DEF Rest, Locking
  <2> QED  BY <1>0, <1>2, <2>1, <2>3, <2>4, <2>5 DEF Handled
<1>8. \A a \in IPs : InWork(a)' \/ AtRest(a)'
  <2>1. AtRest(ip)'  BY <1>0, <1>9, <1>10 DEF AtRest
  <2>2. ASSUME NEW a \in IPs \ {ip} PROVE InWork(a)' \/ AtRest(a)'
    <3>1. InWork(a) \/ AtRest(a)  BY DEF Rest
    <3>2. CASE InWork(a)  BY <1>1, <1>2, <3>2 DEF InWork
    <3>3. CASE AtRest(a)  BY <1>0, <1>9, <3>3 DEF AtRest
    <3> QED  BY <3>1, <3>2, <3>3
  <2> QED  BY <2>1, <2>2
<1>11. "http" \notin Kinds => \A a \in IPs : http'[a] = "none"  BY <1>9 DEF Rest
<1> QED  BY <1>3, <1>4, <1>5, <1>6, <1>7, <1>8, <1>11 DEF Rest

LEMMA EnumerateKeeps ==
  ASSUME TypeOK, Rest, Enumerate
  PROVE  Rest'
<1>0. UNCHANGED <<local, bound, http, lock, stopped, absent>>
  BY DEF Enumerate, hostVars
<1>1. job["pass"].at = "enumerate"
  BY DEF Enumerate
<1>2. /\ job'["pass"].at = "close" /\ job'["pass"].ip = {}
      /\ job'["pass"].close = bound \ local /\ job'["pass"].want = local
      /\ \A v \in Workers \ {"pass"} : job'[v] = job[v]
  BY DEF Enumerate, TypeOK, JobsOK, Job
<1>3. Locking'  BY <1>0, <1>1, <1>2 DEF Rest, Locking
<1>4. Teardown'  BY <1>0, <1>1, <1>2, Alone DEF Rest, Locking, Teardown
<1>5. Absences'  BY <1>0, <1>1, <1>2 DEF Rest, Absences
<1>6. Handled("pass")'
  <2>1. Handled("pass")  BY DEF Rest
  <2> QED  BY <1>0, <1>1, <1>2, <2>1 DEF Handled
<1>7. \A v \in Workers \ {"pass"} : Handled(v)'  BY <1>1, <1>2, OtherHandled
<1>8. \A a \in IPs : InWork(a)' \/ AtRest(a)'
  BY <1>0, <1>1, <1>2 DEF Rest, AtRest, InWork, TypeOK, StateOK
<1> QED  BY <1>0, <1>3, <1>4, <1>5, <1>6, <1>7, <1>8 DEF Rest, TypeOK, StateOK

LEMMA PassLeaves ==
  ASSUME TypeOK, Rest, EnumerationFails \/ PassEnds
  PROVE  Rest'
<1>0. UNCHANGED <<local, bound, http, stopped, absent>> /\ lock' = "free"
  BY DEF EnumerationFails, PassEnds, hostVars
<1>1. job["pass"].at \in {"enumerate", "open"}
  BY DEF EnumerationFails, PassEnds
<1>2. /\ job'["pass"].at = "idle" /\ job'["pass"].ip = {}
      /\ job'["pass"].close = {} /\ job'["pass"].want = {}
      /\ \A v \in Workers \ {"pass"} : job'[v] = job[v]
  BY DEF EnumerationFails, PassEnds, Idle, TypeOK, JobsOK, Job
<1>3. Locking'  BY <1>0, <1>1, <1>2, Alone DEF Rest, Locking
<1>4. Teardown'  BY <1>0, <1>1, <1>2, Alone DEF Rest, Locking, Teardown
<1>5. Absences'  BY <1>0, <1>1, <1>2 DEF Rest, Absences
<1>6. Handled("pass")'
  <2>1. Handled("pass")  BY DEF Rest
  <2> QED  BY <1>0, <1>1, <1>2, <2>1 DEF Handled
<1>7. \A v \in Workers \ {"pass"} : Handled(v)'  BY <1>1, <1>2, OtherHandled
<1>8. \A a \in IPs : InWork(a)' \/ AtRest(a)'
  BY <1>0, <1>1, <1>2 DEF Rest, AtRest, InWork, TypeOK, StateOK
<1> QED  BY <1>0, <1>3, <1>4, <1>5, <1>6, <1>7, <1>8 DEF Rest, TypeOK, StateOK

LEMMA StopReleasesKeeps ==
  ASSUME TypeOK, Rest, StopReleases
  PROVE  Rest'
<1>0. UNCHANGED <<local, bound, http, stopped, absent>> /\ lock' = "free"
  BY DEF StopReleases, hostVars
<1>1. job["stop"].at = "close" /\ job["stop"].close = {}
  BY DEF StopReleases
<1>2. /\ job'["stop"].at = "loop" /\ job'["stop"].ip = job["stop"].ip
      /\ job'["stop"].close = job["stop"].close /\ job'["stop"].want = job["stop"].want
      /\ \A v \in Workers \ {"stop"} : job'[v] = job[v]
  BY Stepped DEF StopReleases, TypeOK, Ats
<1>3. Locking'  BY <1>0, <1>1, <1>2, Alone DEF Rest, Locking
<1>4. Teardown'  BY <1>0, <1>1, <1>2, Alone DEF Rest, Locking, Teardown
<1>5. Absences'  BY <1>0, <1>1, <1>2 DEF Rest, Absences
<1>6. Handled("stop")'
  <2>1. Handled("stop")  BY DEF Rest
  <2> QED  BY <1>0, <1>1, <1>2, <2>1 DEF Handled
<1>7. \A v \in Workers \ {"stop"} : Handled(v)'  BY <1>0, <1>1, <1>2, OtherHandled
<1>8. \A a \in IPs : InWork(a)' \/ AtRest(a)'
  BY <1>0, <1>1, <1>2 DEF Rest, AtRest, InWork, TypeOK, StateOK
<1> QED  BY <1>0, <1>3, <1>4, <1>5, <1>6, <1>7, <1>8 DEF Rest, TypeOK, StateOK

LEMMA EnterPassKeeps ==
  ASSUME TypeOK, Rest, EnterPass
  PROVE  Rest'
<1>0. UNCHANGED <<local, bound, http, stopped, absent>> /\ lock = "free"
      /\ lock' = IF stopped THEN "free" ELSE "pass"
  BY DEF EnterPass, hostVars
<1>1. job["pass"].at = "waiting"
  BY DEF EnterPass
<1>2. /\ job'["pass"].at = (IF stopped THEN "idle" ELSE "enumerate") /\ job'["pass"].ip = job["pass"].ip
      /\ job'["pass"].close = job["pass"].close /\ job'["pass"].want = job["pass"].want
      /\ \A v \in Workers \ {"pass"} : job'[v] = job[v]
  BY Stepped DEF EnterPass, TypeOK, Ats
<1>3. Locking'  BY <1>0, <1>1, <1>2 DEF Rest, Locking
<1>4. Teardown'  BY <1>0, <1>1, <1>2 DEF Rest, Locking, Teardown
<1>5. Absences'  BY <1>0, <1>1, <1>2 DEF Rest, Absences
<1>6. Handled("pass")'
  <2>1. Handled("pass")  BY DEF Rest
  <2> QED  BY <1>0, <1>1, <1>2, <2>1 DEF Handled
<1>7. Handled("stop")'
  <2>1. job'["stop"] = job["stop"]  BY <1>2
  <2> QED  BY <1>0, <2>1 DEF Rest, Handled
<1>8. \A a \in IPs : InWork(a)' \/ AtRest(a)'
  BY <1>0, <1>1, <1>2 DEF Rest, AtRest, InWork
<1> QED  BY <1>0, <1>3, <1>4, <1>5, <1>6, <1>7, <1>8 DEF Rest

LEMMA EnterStopKeeps ==
  ASSUME TypeOK, Rest, EnterStop
  PROVE  Rest'
<1>0. UNCHANGED <<local, bound, http, absent>>
      /\ lock = "free" /\ lock' = "stop" /\ stopped'
  BY DEF EnterStop, hostVars
<1>1. job["stop"].at = "waiting"
  BY DEF EnterStop
<1>2. /\ job'["stop"].at = "close" /\ job'["stop"].ip = job["stop"].ip
      /\ job'["stop"].close = bound /\ job'["stop"].want = job["stop"].want
      /\ \A v \in Workers \ {"stop"} : job'[v] = job[v]
  BY DEF EnterStop, TypeOK, JobsOK, Job
<1>3. Locking'  BY <1>0, <1>1, <1>2 DEF Rest, Locking
<1>4. Teardown'  BY <1>0, <1>1, <1>2 DEF Rest, Locking, Teardown
<1>5. Absences'  BY <1>0, <1>1, <1>2 DEF Rest, Absences
<1>6. Handled("stop")'
  <2>1. Handled("stop")  BY DEF Rest
  <2> QED  BY <1>0, <1>1, <1>2, <2>1 DEF Handled
<1>7. Handled("pass")'
  <2>1. job'["pass"] = job["pass"]  BY <1>2
  <2> QED  BY <1>0, <2>1 DEF Rest, Handled
<1>8. \A a \in IPs : InWork(a)' \/ AtRest(a)'
  BY <1>0, <1>1, <1>2 DEF Rest, AtRest, InWork
<1> QED  BY <1>0, <1>3, <1>4, <1>5, <1>6, <1>7, <1>8 DEF Rest

LEMMA StopLoopKeeps ==
  ASSUME TypeOK, Rest, StopLoop
  PROVE  Rest'
<1>0. UNCHANGED <<local, bound, http, lock, stopped, absent>>
  BY DEF StopLoop, hostVars
<1>1. job["stop"].at = "loop"
  BY DEF StopLoop
<1>2. /\ job'["stop"].at = "stopped" /\ job'["stop"].ip = job["stop"].ip
      /\ job'["stop"].close = job["stop"].close /\ job'["stop"].want = job["stop"].want
      /\ \A v \in Workers \ {"stop"} : job'[v] = job[v]
  BY Stepped DEF StopLoop, TypeOK, Ats
<1>3. Locking'  BY <1>0, <1>1, <1>2 DEF Rest, Locking
<1>4. Teardown'  BY <1>0, <1>1, <1>2 DEF Rest, Locking, Teardown
<1>5. Absences'  BY <1>0, <1>1, <1>2 DEF Rest, Absences
<1>6. Handled("stop")'
  <2>1. Handled("stop")  BY DEF Rest
  <2> QED  BY <1>0, <1>1, <1>2, <2>1 DEF Handled
<1>7. Handled("pass")'
  <2>1. job'["pass"] = job["pass"]  BY <1>2
  <2> QED  BY <1>0, <2>1 DEF Rest, Handled
<1>8. \A a \in IPs : InWork(a)' \/ AtRest(a)'
  BY <1>0, <1>1, <1>2 DEF Rest, AtRest, InWork
<1> QED  BY <1>0, <1>3, <1>4, <1>5, <1>6, <1>7, <1>8 DEF Rest

LEMMA UntouchedKeeps ==
  ASSUME Rest, UNCHANGED <<local, bound, http, lock, stopped, job, absent>>
  PROVE  Rest'
<1>1. Locking' /\ Teardown'  BY DEF Rest, Locking, Teardown
<1>2. Absences'  BY DEF Rest, Absences
<1>3. \A w \in Workers : Handled(w)'  BY DEF Rest, Handled
<1>4. \A ip \in IPs : InWork(ip)' \/ AtRest(ip)'  BY DEF Rest, AtRest, InWork
<1> QED  BY <1>1, <1>2, <1>3, <1>4 DEF Rest

LEMMA Inductive == IInv /\ [Next]_vars => IInv'
<1> SUFFICES ASSUME TypeOK, Rest, [Next]_vars PROVE TypeOK' /\ Rest'
  BY DEF IInv
<1>1. CASE UNCHANGED vars
  <2>1. Rest'  BY <1>1, UntouchedKeeps DEF vars, hostVars
  <2>2. TypeOK'
    BY <1>1 DEF vars, hostVars, loopVars, bounds, TypeOK, StateOK, JobsOK
  <2> QED  BY <2>1, <2>2
<1>2. CASE Next
  <2>1. TypeOK'  BY <1>2, JobsTyped, StateTyped DEF TypeOK
  <2>2. CASE CallReconcile \/ CallStop \/ EnumerationFails \/ Host
    BY <2>1, <2>2, CallsKeep, PassLeaves, HostKeeps
  <2>3. CASE Pass
    BY <2>1, <2>3, EnterPassKeeps, EnumerateKeeps, ClosedAllKeeps, PassLeaves, NextCloseKeeps,
       ShutdownHttpKeeps, CloseWsKeeps, PopKeeps, NextOpenKeeps, BindHttpKeeps, BindWsKeeps,
       UnwindKeeps, RegisterKeeps, StartHttpKeeps, UnwindWsKeeps, DropTracebackKeeps DEF Pass
  <2>4. CASE Stop
    BY <2>1, <2>4, EnterStopKeeps, StopReleasesKeeps, StopLoopKeeps, NextCloseKeeps, ShutdownHttpKeeps,
       CloseWsKeeps, PopKeeps DEF Stop
  <2>5. CASE Loop
    BY <2>1, <2>5, UntouchedKeeps DEF Loop, RunAbandonedStart, RunLateClose, hostVars
  <2>6. CASE Raises
    BY <2>1, <2>6, BindWsRaisesKeeps DEF Raises
  <2> QED  BY <1>2, <2>1, <2>2, <2>3, <2>4, <2>5, <2>6 DEF Next
<1> QED  BY <1>1, <1>2

LEMMA Initially == Init => IInv
<1> SUFFICES ASSUME Init PROVE IInv
  OBVIOUS
<1> USE DEF Init, Idle
<1>1. Locking /\ Teardown /\ Absences  BY DEF Locking, Teardown, Absences
<1>2. \A w \in Workers : Handled(w)  BY DEF Handled
<1>3. \A ip \in IPs : InWork(ip) \/ AtRest(ip)  BY DEF AtRest
<1>4. "http" \notin Kinds => \A ip \in IPs : http[ip] = "none"  OBVIOUS
<1> QED  BY TypeInit, <1>1, <1>2, <1>3, <1>4 DEF IInv, Rest

-----------------------------------------------------------------------------
(* The properties *)

\* IInv holds of reconcile, stop, the loop and the host together.
THEOREM Invariant == Spec => []IInv
  BY Initially, Inductive, PTL DEF Spec

\* SPEC.md 2.3.1: once a teardown has let go of the lock, nothing is bound
\* and no pass that waited for it binds anything again.
THEOREM TeardownIsFinal == Spec => []TeardownWins
<1>1. IInv => TeardownWins
  <2> SUFFICES ASSUME IInv, job["stop"].at \in {"loop", "stopped"}
               PROVE  /\ bound = {}
                      /\ \A ip \in IPs : http[ip] = "none" \/ InHand("pass", "raised", ip)
    BY DEF TeardownWins
  <2>1. bound = {}  BY DEF IInv, Rest, Teardown
  <2>2. \A ip \in IPs : InWork(ip) => InHand("pass", "raised", ip)
    BY DEF IInv, Rest, Locking, InWork, InHand
  <2> QED  BY <2>1, <2>2 DEF IInv, Rest, AtRest
<1> QED  BY <1>1, Invariant, PTL

\* SPEC.md 2.15.1: an address that answers requests is one _bound names,
\* while opening and while closing.
THEOREM NobodyServedUnnamed == Spec => []ServedIsNamed
<1>1. IInv => ServedIsNamed
  <2> SUFFICES ASSUME IInv, NEW ip \in IPs, http[ip] = "serving" PROVE ip \in bound
    BY DEF ServedIsNamed
  <2>1. CASE InWork(ip)  BY <2>1 DEF IInv, Rest, Handled, InWork
  <2>2. CASE AtRest(ip)  BY <2>2 DEF AtRest
  <2> QED  BY <2>1, <2>2 DEF IInv, Rest
<1> QED  BY <1>1, Invariant, PTL

\* Between passes every HTTPS socket is on record and every address on record
\* is served, whichever binds, starts and enumerations failed before: but for
\* the socket of an exception that is being handled (_open catches OSError).
THEOREM NothingLeaks == Spec => []NoLeakedSockets
<1>1. IInv => NoLeakedSockets
  <2> SUFFICES ASSUME IInv, lock = "free", NEW ip \in IPs, ~InHand("pass", "raised", ip)
               PROVE  AtRest(ip)
    BY DEF NoLeakedSockets, AtRest
  <2>1. ~InWork(ip)  BY DEF IInv, Rest, Locking, InWork, InHand
  <2> QED  BY <2>1 DEF IInv, Rest
<1> QED  BY <1>1, Invariant, PTL

\* A pass takes down no address the host has had ever since it was bound.
THEOREM HealthyKept == Spec => HealthyStaysBound
<1>1. ASSUME IInv, [Next]_vars
      PROVE  [\A ip \in bound \ bound' : \/ stopped
                                         \/ ip \in absent
                                         \/ job'["pass"].at = "unwind ws"]_vars
  <2> SUFFICES ASSUME NEW ip \in bound \ bound', Next, ~stopped
               PROVE  ip \in absent \/ job'["pass"].at = "unwind ws"
    BY <1>1 DEF vars
  <2>1. ip \in IPs  BY <1>1 DEF IInv, TypeOK, StateOK
  <2>2. ASSUME NEW w \in Workers, NEW a \in IPs, Pop(w, a) PROVE ip \in absent
    <3>1. w = "pass" /\ ip = a  BY <1>1, <2>2 DEF IInv, Rest, Locking, Pop, InHand
    <3> QED  BY <1>1, <2>2, <3>1 DEF IInv, Rest, Absences, Pop, InHand
  <2>3. ASSUME NEW a \in IPs, StartHttp(a) PROVE job'["pass"].at = "unwind ws"
    <3>1. Step("pass", "unwind ws")  BY <2>3 DEF StartHttp
    <3> QED  BY <1>1, <3>1, Stepped DEF IInv, TypeOK, Ats
  <2>4. ASSUME NEW a \in IPs, Register(a) PROVE FALSE  BY <2>4 DEF Register
  <2>5. CASE CallReconcile \/ CallStop \/ EnumerationFails \/ Host \/ Loop \/ Raises
    BY <2>5 DEF Raises, BindWsRaises, CallReconcile, CallStop, EnumerationFails, Host, AddressComes, AddressGoes,
       ForeignBinds, ForeignCloses, Loop, RunAbandonedStart, RunLateClose
  <2>6. CASE Stop
    BY <2>2, <2>6 DEF Stop, EnterStop, StopReleases, StopLoop, NextClose, ShutdownHttp, CloseWs,
       ShutdownWs
  <2>7. CASE Pass
    BY <2>2, <2>3, <2>4, <2>7 DEF Pass, EnterPass, Enumerate, ClosedAll, PassEnds, NextClose,
       ShutdownHttp, CloseWs, ShutdownWs, NextOpen, BindHttp, BindWs, Unwind, UnwindWs, DropTraceback
  <2> QED  BY <2>5, <2>6, <2>7 DEF Next
<1> QED  BY <1>1, Invariant, PTL DEF Spec, HealthyStaysBound
=============================================================================
