----------------------------- MODULE Lifecycle -----------------------------
(***************************************************************************)
(* Companion of plugin/companion.py from load to unload: on_loaded reads   *)
(* the configuration and starts the listeners and two threads; _background *)
(* refreshes the caches and reconciles the listeners on a timer of the     *)
(* wall clock; on_unload may come at any moment.  What one pass does to    *)
(* the sockets of an address is module Listeners: here a pass is the lock, *)
(* the teardown flag, the enumeration and the set it leaves bound.         *)
(***************************************************************************)
EXTENDS Binding, FiniteSets

CONSTANTS
  Configs,       \* configurations: [tls, bind, poll, rebind]
  DefaultBind,   \* DEFAULTS["bind_addresses"]
  PollLow, PollHigh, PollDefault,
  RebindLow, RebindHigh, RebindDefault,
  Ifaces,        \* the host's interfaces
  Holdings,      \* what an interface may report: sets of values
  Slow,          \* bound: ticks a refresh, and a pass, can take
  MaxFlaps,      \* bound: changes of what the interfaces report
  MaxFaults,     \* bound: interfaces that stop answering
  MaxBack        \* bound: ticks the wall clock is set back, once

ASSUME LifecycleAssumption ==
  /\ {Slow, MaxFlaps, MaxFaults, MaxBack} \subseteq Nat
  /\ PollLow \in Nat \ {0} /\ PollHigh \in Nat /\ PollDefault \in PollLow .. PollHigh
  /\ RebindLow \in Nat \ {0} /\ RebindHigh \in Nat /\ RebindDefault \in RebindLow .. RebindHigh
  /\ \A value \in {c.poll : c \in Configs} \cup {c.rebind : c \in Configs} :
       value \in {Absent, Junk} \/ (value.n \in Int /\ value = Number(value.n))
  /\ \A option \in {c.bind : c \in Configs} \cup {DefaultBind} :
       option.kind = "list" =>
         \A e \in option.entries : e.kind = "block" => e.a \in Nat /\ e.size \in Nat \ {0}

VARIABLES
  config,     \* options under [main.plugins.companion]
  held,       \* per interface, the values it reports
  failing,    \* interfaces netifaces raises for
  load,       \* on_loaded: its step
  unload,     \* on_unload: its step
  stop,       \* _stop
  ref,        \* _listeners is not None
  selectors, bound, stopped, lock,          \* the Listeners object
  bg,         \* _background: its step, ticks left in it, next_rebind
  poll, rebind,   \* _session_poll_interval, _rebind_interval
  ticker,     \* _stats_ticker: "none", "running" or "done"
  since,      \* history: ticks since the last pass began
  began,      \* history: there was one
  setBack,    \* history: the clock was set back since then
  overtook,   \* history: on_unload found no listeners, on_loaded still ran
  bounds

hostVars == <<held, failing>>
server   == <<selectors, bound, stopped, lock>>
timing   == <<poll, rebind>>
history  == <<since, began, setBack, overtook>>
vars == <<config, hostVars, load, unload, stop, ref, server, bg, timing, ticker, history, bounds>>

\* at: "none", "top", "refresh", "call", "lock", "pass", "wait",
\* "done". left: ticks this step still takes. due: ticks until next_rebind on
\* the wall clock, 0 once it is reached; next: the same for the next_rebind
\* the pass under way will assign.
NoThread == [at |-> "none", left |-> 0, due |-> 0, next |-> 0]
Goes(at) == bg' = [bg EXCEPT !.at = at]

-----------------------------------------------------------------------------
(* The host *)

Report(i, values) ==
  /\ bounds.flaps > 0 /\ held[i] # values
  /\ held' = [held EXCEPT ![i] = values]
  /\ bounds' = [bounds EXCEPT !.flaps = @ - 1]
  /\ UNCHANGED <<config, failing, load, unload, stop, ref, server, bg, timing, ticker, history>>

FailsToRead(i) ==
  /\ bounds.faults > 0 /\ i \notin failing
  /\ failing' = failing \cup {i}
  /\ bounds' = [bounds EXCEPT !.faults = @ - 1]
  /\ UNCHANGED <<config, held, load, unload, stop, ref, server, bg, timing, ticker, history>>

ReadsAgain(i) ==
  /\ i \in failing
  /\ failing' = failing \ {i}
  /\ UNCHANGED <<config, held, load, unload, stop, ref, server, bg, timing, ticker, history, bounds>>

\* A tick passes when the thread is in something that takes time.
Less(n) == IF n = 0 THEN 0 ELSE n - 1
Tick ==
  /\ bg.at \in {"refresh", "pass", "wait"} /\ bg.left > 0
  /\ bg' = [bg EXCEPT !.left = @ - 1, !.due = Less(@), !.next = Less(@)]
  /\ since' = since + 1
  /\ UNCHANGED <<config, hostVars, load, unload, stop, ref, server, timing, ticker,
                 began, setBack, overtook, bounds>>

\* The wall clock is set back: next_rebind is that much further away.
ClockSetBack ==
  /\ bounds.back > 0 /\ bg.at \notin {"none", "done"}
  /\ bg' = [bg EXCEPT !.due = @ + bounds.back, !.next = @ + bounds.back]
  /\ setBack' = TRUE
  /\ bounds' = [bounds EXCEPT !.back = 0]
  /\ UNCHANGED <<config, hostVars, load, unload, stop, ref, server, timing, ticker,
                 since, began, overtook>>

-----------------------------------------------------------------------------
(* Listeners.reconcile and stop *)

\* Mutant of Enumerated: no interface answered, and nothing is raised.
EnumeratedWhatever == TRUE

\* default_list_local_ipv4 raises when there were interfaces and none of them
\* could be read.
Enumerated == Ifaces = {} \/ failing # Ifaces

Local == {a \in UNION {held[i] : i \in Ifaces \ failing} : IsBindable(a)}

\* One pass: addresses no longer selected are closed, selected ones opened
\* unless their bind fails.
Reconciled ==
  IF Enumerated
  THEN LET selected == SelectBindAddresses(Local, selectors)
       IN  \E opened \in SUBSET (selected \ bound) :
             bound' = (bound \cap selected) \cup opened
  ELSE UNCHANGED bound

\* A pass that an exception ends: what is gone has been closed, and not every
\* selected address has been opened. Only an enumeration that raises is caught.
Interrupted ==
  /\ Enumerated /\ Reconciled
  /\ ~(SelectBindAddresses(Local, selectors) \subseteq bound')

\* with self._lock: and the teardown flag under it.
Locks(holder) == lock = "free" /\ ~stopped /\ lock' = holder
TurnedAway == lock = "free" /\ stopped /\ UNCHANGED lock

-----------------------------------------------------------------------------
(* on_loaded *)

LoadBegins ==
  /\ load = "none"
  /\ load' = IF config.tls THEN "build" ELSE "refused"
  /\ UNCHANGED <<config, hostVars, unload, stop, ref, server, bg, timing, ticker, history, bounds>>

Build ==
  /\ load = "build"
  /\ poll' = ClampInterval(config.poll, PollLow, PollHigh, PollDefault, FALSE)
  /\ rebind' = ClampInterval(config.rebind, RebindLow, RebindHigh, RebindDefault, FALSE)
  /\ selectors' = ParseBindAddresses(BindAddressesOption(config.bind, DefaultBind))
  /\ ref' = TRUE
  /\ overtook' = (unload = "done")
  /\ load' = "call"
  /\ UNCHANGED <<config, hostVars, unload, stop, bound, stopped, lock, bg, ticker,
                 since, began, setBack, bounds>>

\* self._listeners.reconcile(): None by now if on_unload ran in between.
LoadCalls ==
  /\ load = "call"
  /\ load' = IF ref THEN "lock" ELSE "failed"
  /\ UNCHANGED <<config, hostVars, unload, stop, ref, server, bg, timing, ticker, history, bounds>>

LoadLocks ==
  /\ load = "lock"
  /\ \/ Locks("load") /\ load' = "pass"
     \/ TurnedAway /\ load' = "spawn"
  /\ UNCHANGED <<config, hostVars, unload, stop, ref, selectors, bound, stopped, bg, timing,
                 ticker, history, bounds>>

LoadPass ==
  /\ load = "pass"
  /\ Reconciled
  /\ lock' = "free" /\ load' = "spawn"
  /\ UNCHANGED <<config, hostVars, unload, stop, ref, selectors, stopped, bg, timing, ticker,
                 history, bounds>>

\* No memory for the thread of the asyncio loop, which _open does not catch:
\* on_loaded raises, and no loop of the plugin starts.
LoadPassRaises ==
  /\ load = "pass" /\ bounds.faults > 0
  /\ Interrupted
  /\ lock' = "free" /\ load' = "failed"
  /\ bounds' = [bounds EXCEPT !.faults = @ - 1]
  /\ UNCHANGED <<config, hostVars, unload, stop, ref, selectors, stopped, bg, timing,
                 ticker, history>>

Spawn ==
  /\ load = "spawn"
  /\ bg' = [NoThread EXCEPT !.at = "top"] /\ ticker' = "running"
  /\ load' = "loaded"
  /\ UNCHANGED <<config, hostVars, unload, stop, ref, server, timing, history, bounds>>

-----------------------------------------------------------------------------
(* _background *)

\* Mutant of Top: the loop does not look at the event.
TopForEver ==
  /\ bg.at = "top"
  /\ \E n \in 0..Slow : bg' = [bg EXCEPT !.at = "refresh", !.left = n]
  /\ UNCHANGED <<config, hostVars, load, unload, stop, ref, server, timing, ticker, history, bounds>>

\* while not self._stop.is_set(): both slow calls come first.
Top ==
  /\ bg.at = "top"
  /\ IF stop THEN Goes("done")
             ELSE \E n \in 0..Slow : bg' = [bg EXCEPT !.at = "refresh", !.left = n]
  /\ UNCHANGED <<config, hostVars, load, unload, stop, ref, server, timing, ticker, history, bounds>>

\* wait(self._session_poll_interval) begins.
Rests(rec) == bg' = [rec EXCEPT !.at = "wait", !.left = poll, !.next = 0]

\* The clock is sampled, the reference and the timer tested.
Check ==
  /\ bg.at = "refresh" /\ bg.left = 0
  /\ IF ref /\ bg.due = 0
     THEN /\ bg' = [bg EXCEPT !.at = "call", !.next = rebind]
          /\ since' = 0 /\ began' = TRUE /\ setBack' = FALSE
     ELSE Rests(bg) /\ UNCHANGED <<since, began, setBack>>
  /\ UNCHANGED <<config, hostVars, load, unload, stop, ref, server, timing, ticker, overtook, bounds>>

\* self._listeners is read again: None by now is an exception the loop logs.
Call ==
  /\ bg.at = "call"
  /\ IF ref THEN Goes("lock") ELSE Rests(bg)
  /\ UNCHANGED <<config, hostVars, load, unload, stop, ref, server, timing, ticker, history, bounds>>

Lock ==
  /\ bg.at = "lock"
  /\ \/ Locks("background") /\ \E n \in 0..Slow : bg' = [bg EXCEPT !.at = "pass", !.left = n]
     \/ TurnedAway /\ Rests([bg EXCEPT !.due = bg.next])
  /\ UNCHANGED <<config, hostVars, load, unload, stop, ref, selectors, bound, stopped, timing,
                 ticker, history, bounds>>

\* next_rebind = now + self._rebind_interval, with the clock sampled before
\* the pass.
Pass ==
  /\ bg.at = "pass" /\ bg.left = 0
  /\ Reconciled
  /\ lock' = "free" /\ Rests([bg EXCEPT !.due = bg.next])
  /\ UNCHANGED <<config, hostVars, load, unload, stop, ref, selectors, stopped, timing, ticker,
                 history, bounds>>

\* The pass raises: next_rebind is not assigned, the next loop tries again.
PassRaises ==
  /\ bg.at = "pass" /\ bg.left = 0 /\ bounds.faults > 0
  /\ Interrupted
  /\ lock' = "free" /\ Rests(bg)
  /\ bounds' = [bounds EXCEPT !.faults = @ - 1]
  /\ UNCHANGED <<config, hostVars, load, unload, stop, ref, selectors, stopped, timing,
                 ticker, history>>

\* The wait runs out, or the event ends it.
Wake ==
  /\ bg.at = "wait" /\ (bg.left = 0 \/ stop)
  /\ bg' = [bg EXCEPT !.at = "top", !.left = 0]
  /\ UNCHANGED <<config, hostVars, load, unload, stop, ref, server, timing, ticker, history, bounds>>

TickerEnds ==
  /\ ticker = "running" /\ stop
  /\ ticker' = "done"
  /\ UNCHANGED <<config, hostVars, load, unload, stop, ref, server, bg, timing, history, bounds>>

-----------------------------------------------------------------------------
(* on_unload *)

Unload ==
  /\ unload = "none" /\ load # "none"
  /\ stop' = TRUE
  /\ unload' = IF ref THEN "lock" ELSE "done"
  /\ UNCHANGED <<config, hostVars, load, ref, server, bg, timing, ticker, history, bounds>>

\* Listeners.stop: the flag, and every bound address closed, under the lock.
StopListeners ==
  /\ unload = "lock" /\ lock = "free"
  /\ stopped' = TRUE /\ bound' = {}
  /\ unload' = "drop"
  /\ UNCHANGED <<config, hostVars, load, stop, ref, selectors, lock, bg, timing, ticker,
                 history, bounds>>

DropReference ==
  /\ unload = "drop"
  /\ ref' = FALSE /\ unload' = "done"
  /\ UNCHANGED <<config, hostVars, load, stop, server, bg, timing, ticker, history, bounds>>

-----------------------------------------------------------------------------
Init ==
  /\ config \in Configs
  /\ held = [i \in Ifaces |-> {}] /\ failing = {}
  /\ load = "none" /\ unload = "none" /\ stop = FALSE /\ ref = FALSE
  /\ selectors = {} /\ bound = {} /\ stopped = FALSE /\ lock = "free"
  /\ bg = NoThread /\ poll = PollDefault /\ rebind = RebindDefault /\ ticker = "none"
  /\ since = 0 /\ began = FALSE /\ setBack = FALSE /\ overtook = FALSE
  /\ bounds = [flaps |-> MaxFlaps, faults |-> MaxFaults, back |-> MaxBack]

Host == \E i \in Ifaces : (\E v \in Holdings : Report(i, v)) \/ FailsToRead(i) \/ ReadsAgain(i)

Loads == LoadBegins \/ Build \/ LoadCalls \/ LoadLocks \/ LoadPass \/ LoadPassRaises \/ Spawn
Background == Top \/ Check \/ Call \/ Lock \/ Pass \/ PassRaises \/ Wake
Unloads == Unload \/ StopListeners \/ DropReference

Next == Host \/ Tick \/ ClockSetBack \/ Loads \/ Background \/ TickerEnds \/ Unloads

Spec == Init /\ [][Next]_vars

\* Each thread is scheduled, time passes, and what on_unload began goes on;
\* nothing makes pwnagotchi call it.
FairSpec ==
  /\ Spec /\ WF_vars(Tick) /\ WF_vars(Loads) /\ WF_vars(Background)
  /\ WF_vars(TickerEnds) /\ WF_vars(StopListeners \/ DropReference)

-----------------------------------------------------------------------------
(* Properties *)

\* What the owner wrote allows an address: an entry names it, or is a block no
\* larger than the floor allows that holds it and not the wildcard.  A key that was
\* not written at all stands for the default; one left empty allows nothing.
Named(a, entries) ==
  \E e \in entries :
    \/ e.kind = "address" /\ e.a = a
    \/ /\ e.kind = "block" /\ e.size <= MaxSize
       /\ a \div e.size = e.a \div e.size /\ e.a \div e.size # 0
Allowed(a) ==
  LET written == IF config.bind.kind = "absent" THEN DefaultBind ELSE config.bind
  IN  a \in 1 .. Addresses - 1 /\ written.kind = "list" /\ Named(a, written.entries)

\* Whatever the interfaces report and the configuration holds, nothing listens
\* on the wildcard or on an address the owner did not choose.
OnlyChosenBound == \A a \in bound : Allowed(a)

\* A listener goes down when the plugin is unloaded, or in a pass that read an
\* interface and found the address on none it could read: never because the
\* enumeration failed.
TornDownForCause ==
  [][\A a \in bound \ bound' :
       stop \/ (Ifaces \ failing # {} /\ a \notin UNION {held[i] : i \in Ifaces \ failing})]_vars

\* The next pass begins within the two ceilings and the slow calls of the
\* last, whatever was configured, unless the clock was set back meanwhile.
Longest == (IF RebindHigh > Slow THEN RebindHigh - 1 ELSE Slow) + PollHigh + Slow
RebindsInTime == ref /\ ~stop /\ ~setBack => since <= Longest

\* The loop does not spin, whatever was configured: two passes begin no less than
\* the floor of the poll apart, also when the first of them raised, the clock was
\* set back or on_unload has woken the thread in between.
PassesApart ==
  [][bg.at = "refresh" /\ bg'.at = "call" /\ began => since >= PollLow]_vars

\* Once on_unload has run no thread is left and nothing is bound, for good; only
\* listeners it could not see, because it overtook on_loaded, survive it.
UnloadEndsAll ==
  (unload = "done") ~>
    [](bg.at \in {"none", "done"} /\ ticker # "running" /\ (bound = {} \/ overtook))

=============================================================================
