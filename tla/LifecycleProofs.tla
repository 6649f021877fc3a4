-------------------------- MODULE LifecycleProofs --------------------------
(***************************************************************************)
(* For any configurations, interfaces and values they report: what listens *)
(* was chosen by the owner, and goes down only for a cause; and for any    *)
(* intervals and any slow calls, when the next pass begins.                *)
(***************************************************************************)
EXTENDS Lifecycle, TLAPS

Written == BindAddressesOption(config.bind, DefaultBind)

\* The threads start after on_loaded's own pass, and no pass runs before the
\* selectors are parsed.
Ordered ==
  /\ load # "loaded" => bg.at = "none"
  /\ load \in {"none", "build"} => bound = {}

\* What listens is what the selectors pick, from an interface that exists.
Selected ==
  /\ \A a \in bound : IsBindable(a) /\ \E s \in selectors : Matches(a, s)
  /\ bound # {} => Ifaces # {}

\* The selectors come from the configuration.
Parsed == config \in Configs /\ selectors \subseteq ParseBindAddresses(Written)

IInv ==
  /\ Ordered /\ Selected /\ Parsed
  /\ failing \subseteq Ifaces
  /\ unload = "lock" => stop

-----------------------------------------------------------------------------
(* Blocks *)

\* Addresses with the same network have the same bits before it.
LEMMA SameNetwork ==
  ASSUME NEW a \in Nat, NEW b \in Nat, NEW size \in Nat \ {0},
         Network(a, size) = Network(b, size)
  PROVE  a \div size = b \div size
  <1> DEFINE p == a \div size
             q == b \div size
  <1>1. p \in Nat /\ q \in Nat
    OBVIOUS
  <1>2. a - (a % size) = size * p /\ b - (b % size) = size * q
    OBVIOUS
  <1>3. size * p = size * q
    BY <1>2 DEF Network
  <1> QED
    BY <1>1, <1>3

\* A network that is not the wildcard's has a bit set before it.
LEMMA NonzeroNetwork ==
  ASSUME NEW a \in Nat, NEW size \in Nat \ {0}, Network(a, size) # 0
  PROVE  a \div size # 0
  <1>1. a - (a % size) = size * (a \div size)
    OBVIOUS
  <1> QED
    BY <1>1 DEF Network

-----------------------------------------------------------------------------
(* A pass *)

\* A pass binds only what the selectors pick of what was read.
LEMMA PassSelects ==
  ASSUME IInv, Reconciled
  PROVE  /\ \A a \in bound' : IsBindable(a) /\ \E s \in selectors : Matches(a, s)
         /\ bound' # {} => Ifaces # {}
  <1>1. CASE ~Enumerated
    BY <1>1 DEF Reconciled, IInv, Selected
  <1>2. CASE Enumerated
    <2>1. bound' \subseteq SelectBindAddresses(Local, selectors)
      BY <1>2 DEF Reconciled
    <2>2. SelectBindAddresses(Local, selectors) # {} => Ifaces # {}
      BY DEF SelectBindAddresses, Local
    <2> QED
      BY <2>1, <2>2 DEF SelectBindAddresses
  <1> QED
    BY <1>1, <1>2

\* What it takes down was on no interface that it could read, and it read one.
LEMMA PassHasCause ==
  ASSUME IInv, Reconciled, NEW a \in bound \ bound'
  PROVE  /\ Ifaces \ failing # {}
         /\ a \notin UNION {held[i] : i \in Ifaces \ failing}
  <1>1. Enumerated
    BY DEF Reconciled
  <1>2. a \notin SelectBindAddresses(Local, selectors)
    BY <1>1 DEF Reconciled
  <1>3. IsBindable(a) /\ \E s \in selectors : Matches(a, s)
    BY DEF IInv, Selected
  <1>4. a \notin Local
    BY <1>2, <1>3 DEF SelectBindAddresses
  <1>5. a \notin UNION {held[i] : i \in Ifaces \ failing}
    BY <1>3, <1>4 DEF Local
  <1>6. Ifaces \ failing # {}
    BY <1>1 DEF Enumerated, IInv, Selected
  <1> QED
    BY <1>5, <1>6

-----------------------------------------------------------------------------
LEMMA Initially == Init => IInv
  BY DEF Init, IInv, Ordered, Selected, Parsed, NoThread

USE DEF hostVars, server, timing, history

LEMMA Preserved == IInv /\ [Next]_vars => IInv'
  <1> SUFFICES ASSUME IInv, [Next]_vars
               PROVE  IInv'
    OBVIOUS
  <1> USE DEF IInv, Ordered, Selected, Parsed, Written, Matches, InBlock
  <1>1. CASE Host
    BY <1>1 DEF Host, Report, FailsToRead, ReadsAgain
  <1>2. CASE Tick \/ ClockSetBack
    BY <1>2 DEF Tick, ClockSetBack
  <1>3. CASE LoadBegins
    BY <1>3 DEF LoadBegins
  <1>4. CASE Build
    BY <1>4 DEF Build
  <1>5. CASE LoadCalls \/ LoadLocks
    BY <1>5 DEF LoadCalls, LoadLocks, Locks, TurnedAway
  <1>6. CASE LoadPass \/ LoadPassRaises
    BY <1>6, PassSelects DEF LoadPass, LoadPassRaises, Interrupted
  <1>7. CASE Spawn
    BY <1>7 DEF Spawn
  <1>8. CASE Top \/ Check \/ Call \/ Lock \/ Wake
    BY <1>8 DEF Top, Check, Call, Lock, Wake, Goes, Rests, Locks, TurnedAway
  <1>9. CASE Pass \/ PassRaises
    <2>1. load = "loaded"
      BY <1>9 DEF Pass, PassRaises
    <2> QED
      BY <1>9, <2>1, PassSelects DEF Pass, PassRaises, Interrupted, Rests
  <1>10. CASE TickerEnds
    BY <1>10 DEF TickerEnds
  <1>11. CASE Unload
    BY <1>11 DEF Unload
  <1>12. CASE StopListeners
    BY <1>12 DEF StopListeners
  <1>13. CASE DropReference
    BY <1>13 DEF DropReference
  <1>14. CASE UNCHANGED vars
    BY <1>14 DEF vars
  <1> QED
    BY <1>1, <1>2, <1>3, <1>4, <1>5, <1>6, <1>7, <1>8, <1>9, <1>10, <1>11, <1>12, <1>13, <1>14
    DEF Next, Loads, Background, Unloads

LEMMA Always == Spec => []IInv
  BY Initially, Preserved, PTL DEF Spec

-----------------------------------------------------------------------------
\* A selector stands for an entry of what was written, and picks only what the
\* entry names.
LEMMA SelectorNames ==
  ASSUME IInv, NEW a, IsBindable(a), NEW s \in selectors, Matches(a, s)
  PROVE  Written.kind = "list" /\ Named(a, Written.entries)
  <1>1. PICK e \in Written.entries : Written.kind = "list" /\ s \in ParseEntry(e)
    BY DEF IInv, Parsed, ParseBindAddresses
  <1>2. a \in Nat
    BY BindingAssumption DEF IsBindable
  <1>3. CASE e.kind = "address"
    BY <1>1, <1>3 DEF ParseEntry, Matches, Named
  <1>4. CASE e.kind = "block"
    <2>1. /\ s = [kind |-> "block", a |-> Network(e.a, e.size), size |-> e.size]
          /\ s.a # 0 /\ s.size <= MaxSize
      BY <1>1, <1>4 DEF ParseEntry
    <2>2. e.a \in Nat /\ e.size \in Nat \ {0}
      <3>1. Written \in {c.bind : c \in Configs} \cup {DefaultBind}
        BY DEF IInv, Parsed, Written, BindAddressesOption
      <3> QED
        BY <1>1, <1>4, <3>1, LifecycleAssumption DEF LifecycleAssumption
    <2>3. Network(a, e.size) = Network(e.a, e.size)
      BY <2>1 DEF Matches, InBlock
    <2>4. a \div e.size = e.a \div e.size
      BY <1>2, <2>2, <2>3, SameNetwork
    <2>5. e.a \div e.size # 0
      BY <2>1, <2>2, NonzeroNetwork
    <2> QED
      BY <1>1, <1>4, <2>1, <2>4, <2>5 DEF Named
  <1>5. CASE e.kind \notin {"address", "block"}
    BY <1>1, <1>5 DEF ParseEntry
  <1> QED
    BY <1>3, <1>4, <1>5

LEMMA ChosenIfBound == IInv => OnlyChosenBound
  <1> SUFFICES ASSUME IInv, NEW a \in bound
               PROVE  Allowed(a)
    BY DEF OnlyChosenBound
  <1>1. PICK s \in selectors : IsBindable(a) /\ Matches(a, s)
    BY DEF IInv, Selected
  <1>2. Written.kind = "list" /\ Named(a, Written.entries)
    BY <1>1, SelectorNames
  <1> QED
    BY <1>1, <1>2 DEF Allowed, Written, BindAddressesOption, IsBindable

\* Whatever the configuration holds, and whatever the interfaces report while
\* passes fail, overlap with on_unload or are late, companion.py listens only
\* on addresses that bind_addresses names, never on the wildcard.
THEOREM OwnerChooses == Spec => []OnlyChosenBound
  BY Always, ChosenIfBound, PTL

LEMMA DownForCause ==
  IInv /\ [Next]_vars =>
    [\A a \in bound \ bound' :
       stop \/ (Ifaces \ failing # {} /\ a \notin UNION {held[i] : i \in Ifaces \ failing})]_vars
  <1> SUFFICES ASSUME IInv, Next, NEW a \in bound \ bound', ~stop
               PROVE  /\ Ifaces \ failing # {}
                      /\ a \notin UNION {held[i] : i \in Ifaces \ failing}
    OBVIOUS
  <1>1. CASE LoadPass \/ Pass \/ LoadPassRaises \/ PassRaises
    BY <1>1, PassHasCause DEF LoadPass, Pass, LoadPassRaises, PassRaises, Interrupted
  <1>2. CASE StopListeners
    BY <1>2 DEF StopListeners, IInv
  <1>3. CASE ~(LoadPass \/ Pass \/ LoadPassRaises \/ PassRaises \/ StopListeners)
    <2>1. bound' = bound
      BY <1>3 DEF Next, Host, Loads, Background, Unloads, Report, FailsToRead, ReadsAgain, Tick,
         ClockSetBack, LoadBegins, Build, LoadCalls, LoadLocks, Spawn, Top, Check,
         Call, Lock, Wake, TickerEnds, Unload, DropReference
    <2> QED
      BY <2>1
  <1> QED
    BY <1>1, <1>2, <1>3

\* An address that the reconciliation of companion.py takes down was missing
\* from every interface the pass could read; a failed enumeration takes none.
THEOREM HealthyListenersStay == Spec => TornDownForCause
  BY Always, DownForCause, PTL DEF Spec, TornDownForCause

-----------------------------------------------------------------------------
(* Time *)

Threads ==
  [at : {"none", "top", "refresh", "call", "lock", "pass", "wait", "done"},
   left : Nat, due : Nat, next : Nat]

\* The two ceilings hold of what was configured, and there are listeners to
\* reconcile from the moment the loop starts until on_unload drops them.
Configured ==
  /\ config \in Configs
  /\ poll \in 0 .. PollHigh /\ rebind \in 0 .. RebindHigh
  /\ since \in Nat /\ bounds \in [flaps : Nat, faults : Nat, back : Nat]
  /\ bg \in Threads
  /\ unload # "none" => stop
  /\ load \in {"call", "lock", "pass", "spawn", "loaded"} /\ ~stop => ref
  /\ bg.at # "none" => load = "loaded"

\* How long the timer, or the slow calls of the last loop, keep a pass waiting
\* at most before one more wait is sure to be the last.
Due == IF RebindHigh > Slow THEN RebindHigh - 1 ELSE Slow

\* What is left of every wait, added to what has passed. The timer counts from
\* the sample taken before the pass; in between the loop takes one wait and one
\* slow refresh more than it.
OnTime ==
  ~stop /\ ~setBack =>
    /\ bg.due > 0 => since + bg.due <= RebindHigh
    /\ bg.next > 0 => since + bg.next <= RebindHigh
    /\ bg.at \in {"none", "call", "lock"} => since = 0
    /\ bg.at # "done"
    /\ bg.at = "pass" => since + bg.left <= Slow
    /\ bg.at = "wait" => since + bg.left <= Due + PollHigh
    /\ bg.at = "top" => since <= Due + PollHigh
    /\ bg.at = "refresh" => since + bg.left <= Due + PollHigh + Slow

TInv == Configured /\ OnTime

\* An interval is within its range whatever was written for it.
LEMMA ClampBounds ==
  ASSUME NEW value, value \in {Absent, Junk} \/ (value.n \in Int /\ value = Number(value.n)),
         NEW low \in Nat, NEW high \in Nat, NEW default \in low .. high,
         NEW zeroIsDefault
  PROVE  ClampInterval(value, low, high, default, zeroIsDefault) \in low .. high
  BY DEF ClampInterval, Option, Absent, Junk, Number, Clamped

LEMMA TimeConstants ==
  /\ Slow \in Nat /\ MaxFlaps \in Nat /\ MaxFaults \in Nat /\ MaxBack \in Nat
  /\ PollHigh \in Nat /\ RebindHigh \in Nat
  /\ PollLow \in Nat \ {0} /\ PollDefault \in PollLow .. PollHigh
  /\ RebindLow \in Nat \ {0} /\ RebindDefault \in RebindLow .. RebindHigh
  BY LifecycleAssumption DEF LifecycleAssumption

LEMMA DueBounds == Due \in Nat /\ Slow <= Due /\ RebindHigh - 1 <= Due
  BY TimeConstants DEF Due

LEMMA OnTimeStarts == Init => TInv
  BY TimeConstants DEF Init, TInv, Configured, OnTime, NoThread, Due, Threads

\* Each step of the loop, by what it leaves in the record.
Thread(at, left, due, next) == [at |-> at, left |-> left, due |-> due, next |-> next]

LEMMA ThreadMoves ==
  ASSUME bg \in Threads
  PROVE  /\ Tick => bg' = Thread(bg.at, bg.left - 1, Less(bg.due), Less(bg.next))
         /\ ClockSetBack =>
              bg' = Thread(bg.at, bg.left, bg.due + bounds.back, bg.next + bounds.back)
         /\ Wake => bg' = Thread("top", 0, bg.due, bg.next)
         /\ Goes("lock") => bg' = Thread("lock", bg.left, bg.due, bg.next)
         /\ Goes("done") => bg' = Thread("done", bg.left, bg.due, bg.next)
         /\ Rests(bg) => bg' = Thread("wait", poll, bg.due, 0)
         /\ Rests([bg EXCEPT !.due = bg.next]) => bg' = Thread("wait", poll, bg.next, 0)
  BY DEF Threads, Thread, Tick, ClockSetBack, Wake, Goes, Rests

\* Those that draw how long a slow call takes, or take the sample.
LEMMA ThreadCalls ==
  ASSUME bg \in Threads
  PROVE  /\ Top => \/ stop /\ Goes("done")
                   \/ ~stop /\ \E n \in 0..Slow : bg' = Thread("refresh", n, bg.due, bg.next)
         /\ Check /\ ref /\ bg.due = 0 => bg' = Thread("call", bg.left, bg.due, rebind)
         /\ Lock => \/ \E n \in 0..Slow : bg' = Thread("pass", n, bg.due, bg.next)
                    \/ Rests([bg EXCEPT !.due = bg.next])
  BY DEF Threads, Thread, Top, Check, Lock

LEMMA OnTimeHolds == TInv /\ [Next]_vars => TInv'
  <1> SUFFICES ASSUME TInv, [Next]_vars
               PROVE  TInv'
    OBVIOUS
  <1> USE TimeConstants, DueBounds DEF TInv, Configured, OnTime
  <1>0. /\ bg \in Threads
        /\ bg.left \in Nat /\ bg.due \in Nat /\ bg.next \in Nat
    BY DEF Threads
  <1>1. CASE Host
    BY <1>1 DEF Host, Report, FailsToRead, ReadsAgain
  <1>2. CASE Tick
    <2>1. bg' = Thread(bg.at, bg.left - 1, Less(bg.due), Less(bg.next))
      BY <1>0, <1>2, ThreadMoves
    <2>2. /\ since' = since + 1 /\ bg.at \in {"refresh", "pass", "wait"} /\ bg.left > 0
          /\ UNCHANGED <<config, load, unload, stop, ref, poll, rebind, setBack, bounds>>
      BY <1>2 DEF Tick
    <2> QED
      BY <1>0, <2>1, <2>2 DEF Less, Thread, Threads
  <1>3. CASE ClockSetBack
    <2>1. bg' = Thread(bg.at, bg.left, bg.due + bounds.back, bg.next + bounds.back)
      BY <1>0, <1>3, ThreadMoves
    <2>2. bounds.back \in Nat
      OBVIOUS
    <2> QED
      BY <1>0, <1>3, <2>1, <2>2 DEF ClockSetBack, Thread, Threads
  <1>4. CASE LoadBegins
    BY <1>4 DEF LoadBegins
  <1>5. CASE Build
    <2>1. poll' \in PollLow .. PollHigh /\ rebind' \in RebindLow .. RebindHigh
      BY <1>5, LifecycleAssumption, ClampBounds DEF Build, LifecycleAssumption
    <2>2. /\ load = "build" /\ ref' /\ load' = "call"
          /\ UNCHANGED <<config, unload, stop, since, setBack, bounds, bg>>
      BY <1>5 DEF Build
    <2>3. poll' \in 0 .. PollHigh /\ rebind' \in 0 .. RebindHigh
      BY <2>1, TimeConstants
    <2> QED
      BY <1>5, <2>2, <2>3
  <1>6. CASE LoadCalls \/ LoadLocks \/ LoadPass \/ LoadPassRaises
    BY <1>6 DEF LoadCalls, LoadLocks, LoadPass, LoadPassRaises
  <1>7. CASE Spawn
    <2>1. bg' = Thread("top", 0, 0, 0) /\ bg.at = "none"
      BY <1>7 DEF Spawn, NoThread, Thread
    <2>2. bg' \in Threads /\ bg'.at = "top" /\ bg'.left = 0 /\ bg'.due = 0 /\ bg'.next = 0
      BY <1>0, <2>1 DEF Thread, Threads
    <2> QED
      BY <1>0, <1>7, <2>1, <2>2 DEF Spawn
  <1>8. CASE Top
    <2>1. /\ bg.at = "top"
          /\ UNCHANGED <<config, load, unload, stop, ref, poll, rebind, since, setBack, bounds>>
      BY <1>8 DEF Top
    <2>2. CASE stop
      BY <1>0, <1>8, <2>2, ThreadMoves, ThreadCalls DEF Top, Thread, Threads
    <2>3. CASE ~stop
      <3>1. PICK n \in 0..Slow : bg' = Thread("refresh", n, bg.due, bg.next)
        BY <1>0, <1>8, <2>3, ThreadCalls
      <3>2. /\ bg' \in Threads /\ bg'.at = "refresh" /\ bg'.left \in 0 .. Slow
            /\ bg'.due = bg.due /\ bg'.next = bg.next
        BY <1>0, <3>1 DEF Thread, Threads
      <3> QED
        BY <1>0, <2>1, <3>2
    <2> QED
      BY <2>2, <2>3
  <1>9. CASE Check
    <2>1. CASE ref /\ bg.due = 0
      <3>1. bg' = Thread("call", bg.left, bg.due, rebind)
        BY <1>0, <1>9, <2>1, ThreadCalls
      <3> QED
        BY <1>0, <1>9, <2>1, <3>1 DEF Check, Thread, Threads
    <2>2. CASE ~(ref /\ bg.due = 0)
      <3>1. bg' = Thread("wait", poll, bg.due, 0)
        BY <1>0, <1>9, <2>2, ThreadMoves DEF Check
      <3>2. ~stop => bg.due > 0
        BY <1>0, <1>9, <2>2 DEF Check
      <3> QED
        BY <1>0, <1>9, <2>2, <3>1, <3>2 DEF Check, Thread, Threads
    <2> QED
      BY <2>1, <2>2
  <1>10. CASE Call
    <2>1. \/ bg' = Thread("lock", bg.left, bg.due, bg.next)
          \/ ~ref /\ bg' = Thread("wait", poll, bg.due, 0)
      BY <1>0, <1>10, ThreadMoves DEF Call
    <2> QED
      BY <1>0, <1>10, <2>1 DEF Call, Thread, Threads
  <1>11. CASE Lock
    <2>1. /\ bg.at = "lock"
          /\ UNCHANGED <<config, load, unload, stop, ref, poll, rebind, since, setBack, bounds>>
      BY <1>11 DEF Lock, Locks, TurnedAway
    <2>2. CASE bg' = Thread("wait", poll, bg.next, 0)
      <3>1. bg' \in Threads /\ bg'.at = "wait" /\ bg'.left = poll /\ bg'.due = bg.next /\ bg'.next = 0
        BY <1>0, <2>2 DEF Thread, Threads
      <3> QED
        BY <1>0, <2>1, <3>1
    <2>3. CASE \E n \in 0..Slow : bg' = Thread("pass", n, bg.due, bg.next)
      <3>1. PICK n \in 0..Slow : bg' = Thread("pass", n, bg.due, bg.next)
        BY <2>3
      <3>2. /\ bg' \in Threads /\ bg'.at = "pass" /\ bg'.left \in 0 .. Slow
            /\ bg'.due = bg.due /\ bg'.next = bg.next
        BY <1>0, <3>1 DEF Thread, Threads
      <3> QED
        BY <1>0, <2>1, <3>2
    <2> QED
      BY <1>0, <1>11, <2>2, <2>3, ThreadMoves, ThreadCalls
  <1>12. CASE Pass \/ PassRaises
    <2>1. \/ bg' = Thread("wait", poll, bg.due, 0)
          \/ bg' = Thread("wait", poll, bg.next, 0)
      BY <1>0, <1>12, ThreadMoves DEF Pass, PassRaises
    <2>2. /\ bg.at = "pass" /\ bg.left = 0 /\ bounds' \in [flaps : Nat, faults : Nat, back : Nat]
          /\ UNCHANGED <<config, load, unload, stop, ref, poll, rebind, since, setBack>>
      BY <1>12 DEF Pass, PassRaises
    <2> QED
      BY <1>0, <2>1, <2>2 DEF Thread, Threads
  <1>13. CASE Wake
    <2>1. bg' = Thread("top", 0, bg.due, bg.next)
      BY <1>0, <1>13, ThreadMoves
    <2> QED
      BY <1>0, <1>13, <2>1 DEF Wake, Thread, Threads
  <1>14. CASE TickerEnds
    BY <1>14 DEF TickerEnds
  <1>15. CASE Unloads
    BY <1>15 DEF Unloads, Unload, StopListeners, DropReference
  <1>16. CASE UNCHANGED vars
    BY <1>16 DEF vars
  <1> QED
    BY <1>1, <1>2, <1>3, <1>4, <1>5, <1>6, <1>7, <1>8, <1>9, <1>10, <1>11, <1>12, <1>13, <1>14,
       <1>15, <1>16 DEF Next, Loads, Background

\* _background begins the next pass within the ceilings of the two intervals
\* and the slow calls of a loop, whatever was configured and however the calls
\* and the waits fall, until on_unload or a clock that is set back.
THEOREM PassesKeepTime == Spec => []RebindsInTime
  <1>1. TInv => RebindsInTime
    <2>1. Longest = Due + PollHigh + Slow
      BY DEF Longest, Due
    <2> SUFFICES ASSUME TInv, ref, ~stop, ~setBack
                 PROVE  since <= Longest
      BY DEF RebindsInTime
    <2>2. bg.left \in Nat /\ bg.at \in {"none", "top", "refresh", "call", "lock", "pass", "wait", "done"}
      BY DEF TInv, Configured, Threads
    <2>3. since \in Nat
      BY DEF TInv, Configured
    <2> QED
      BY <2>1, <2>2, <2>3, TimeConstants, DueBounds DEF TInv, OnTime
  <1> QED
    BY <1>1, OnTimeStarts, OnTimeHolds, PTL DEF Spec

-----------------------------------------------------------------------------
(* The floor *)

\* What is left of a wait, added to what has passed, is the poll at least; a loop
\* that on_unload has woken early does not get past the test of the event.
Spaced ==
  /\ poll \in PollLow .. PollHigh
  /\ bg.at = "none" => ~began
  /\ bg.at = "wait" => since + bg.left >= PollLow
  /\ bg.at = "top" /\ began => stop \/ since >= PollLow
  /\ bg.at = "refresh" /\ began => since >= PollLow

LEMMA SpacedStarts == Init => Spaced
  BY TimeConstants DEF Init, Spaced, NoThread

LEMMA SpacedHolds == TInv /\ Spaced /\ [Next]_vars => Spaced'
  <1> SUFFICES ASSUME TInv, Spaced, [Next]_vars
               PROVE  Spaced'
    OBVIOUS
  <1> USE TimeConstants DEF Spaced
  <1>0. /\ bg \in Threads /\ since \in Nat
        /\ bg.left \in Nat /\ bg.due \in Nat /\ bg.next \in Nat
    BY DEF TInv, Configured, Threads
  <1>1. CASE Host \/ TickerEnds \/ Unloads \/ UNCHANGED vars
    BY <1>1 DEF Host, Report, FailsToRead, ReadsAgain, TickerEnds, Unloads, Unload,
       StopListeners, DropReference, vars
  <1>2. CASE Tick
    <2>1. bg' = Thread(bg.at, bg.left - 1, Less(bg.due), Less(bg.next))
      BY <1>0, <1>2, ThreadMoves
    <2>2. /\ since' = since + 1 /\ bg.at \in {"refresh", "pass", "wait"}
          /\ UNCHANGED <<poll, began, stop>>
      BY <1>2 DEF Tick
    <2> QED
      BY <1>0, <2>1, <2>2 DEF Thread
  <1>3. CASE ClockSetBack
    <2>1. bg' = Thread(bg.at, bg.left, bg.due + bounds.back, bg.next + bounds.back)
      BY <1>0, <1>3, ThreadMoves
    <2>2. UNCHANGED <<poll, began, stop, since>>
      BY <1>3 DEF ClockSetBack
    <2> QED
      BY <1>0, <2>1, <2>2 DEF Thread
  <1>4. CASE LoadBegins \/ LoadCalls \/ LoadLocks \/ LoadPass \/ LoadPassRaises
    BY <1>4 DEF LoadBegins, LoadCalls, LoadLocks, LoadPass, LoadPassRaises
  <1>5. CASE Build
    <2>1. poll' \in PollLow .. PollHigh
      BY <1>5, LifecycleAssumption, ClampBounds DEF Build, LifecycleAssumption, TInv, Configured
    <2>2. UNCHANGED <<began, stop, since, bg>>
      BY <1>5 DEF Build
    <2> QED
      BY <2>1, <2>2
  <1>6. CASE Spawn
    <2>1. bg.at = "none" /\ bg'.at = "top" /\ UNCHANGED <<poll, began, stop, since>>
      BY <1>6 DEF Spawn, NoThread, TInv, Configured
    <2> QED
      BY <2>1
  <1>7. CASE Top
    <2>1. bg.at = "top" /\ UNCHANGED <<poll, began, stop, since>>
      BY <1>7 DEF Top
    <2>2. CASE stop /\ Goes("done")
      BY <1>0, <2>1, <2>2, ThreadMoves DEF Thread
    <2>3. CASE ~stop /\ \E n \in 0..Slow : bg' = Thread("refresh", n, bg.due, bg.next)
      BY <2>1, <2>3 DEF Thread
    <2> QED
      BY <1>0, <1>7, <2>2, <2>3, ThreadCalls
  <1>8. CASE Check
    <2>1. UNCHANGED <<poll, stop>>
      BY <1>8 DEF Check
    <2>2. CASE ref /\ bg.due = 0
      BY <1>0, <1>8, <2>1, <2>2, ThreadCalls DEF Thread
    <2>3. CASE ~(ref /\ bg.due = 0)
      <3>1. Rests(bg) /\ UNCHANGED <<since, began>>
        BY <1>8, <2>3 DEF Check
      <3> QED
        BY <1>0, <2>1, <3>1, ThreadMoves DEF Thread
    <2> QED
      BY <2>2, <2>3
  <1>9. CASE Call
    <2>1. UNCHANGED <<poll, stop, since, began>> /\ (Goes("lock") \/ Rests(bg))
      BY <1>9 DEF Call
    <2> QED
      BY <1>0, <2>1, ThreadMoves DEF Thread
  <1>10. CASE Lock
    <2>1. UNCHANGED <<poll, stop, since, began>>
      BY <1>10 DEF Lock
    <2>2. \/ bg' = Thread("wait", poll, bg.next, 0)
          \/ \E n \in 0..Slow : bg' = Thread("pass", n, bg.due, bg.next)
      BY <1>0, <1>10, ThreadMoves, ThreadCalls
    <2> QED
      BY <1>0, <2>1, <2>2 DEF Thread
  <1>11. CASE Pass \/ PassRaises
    <2>1. UNCHANGED <<poll, stop, since, began>>
      BY <1>11 DEF Pass, PassRaises
    <2>2. \/ bg' = Thread("wait", poll, bg.due, 0)
          \/ bg' = Thread("wait", poll, bg.next, 0)
      BY <1>0, <1>11, ThreadMoves DEF Pass, PassRaises
    <2> QED
      BY <1>0, <2>1, <2>2 DEF Thread
  <1>12. CASE Wake
    <2>1. bg' = Thread("top", 0, bg.due, bg.next)
      BY <1>0, <1>12, ThreadMoves
    <2>2. /\ bg.at = "wait" /\ (bg.left = 0 \/ stop)
          /\ UNCHANGED <<poll, stop, since, began>>
      BY <1>12 DEF Wake
    <2> QED
      BY <1>0, <2>1, <2>2 DEF Thread
  <1> QED
    BY <1>1, <1>2, <1>3, <1>4, <1>5, <1>6, <1>7, <1>8, <1>9, <1>10, <1>11, <1>12
    DEF Next, Loads, Background

\* _background never begins two passes less than the floor of the poll apart,
\* whatever was configured, whatever raises, and whatever the clock does.
THEOREM PassesSpaced == Spec => PassesApart
  <1>1. Spaced => [bg.at = "refresh" /\ bg'.at = "call" /\ began => since >= PollLow]_vars
    BY DEF Spaced
  <1> QED
    BY <1>1, OnTimeStarts, OnTimeHolds, SpacedStarts, SpacedHolds, PTL DEF Spec, PassesApart

-----------------------------------------------------------------------------
(* The end *)

\* A pass holds the lock, and nothing else does; listeners exist from Build on.
Exclusive ==
  /\ lock = "load" <=> load = "pass"
  /\ lock = "background" <=> bg.at = "pass"
  /\ load # "loaded" => bg.at = "none"
  /\ load \in {"none", "build", "refused"} => bound = {}
  /\ ~ref /\ unload = "none" => load \in {"none", "build", "refused"}

\* Teardown waits for the pass under way, and none begins after it.
Torn ==
  /\ stopped => bound = {} /\ lock = "free"
  /\ unload = "drop" => stopped
  /\ unload = "done" /\ ~overtook =>
       bound = {} /\ (stopped \/ load \in {"none", "build", "refused"})

EInv == Exclusive /\ Torn

NothingBoundAfter == unload = "done" => bound = {} \/ overtook

LEMMA EndStarts == Init => EInv
  BY DEF Init, EInv, Exclusive, Torn, NoThread

LEMMA EndHolds == TInv /\ EInv /\ [Next]_vars => EInv'
  <1> SUFFICES ASSUME TInv, EInv, [Next]_vars
               PROVE  EInv'
    OBVIOUS
  <1>0. bg \in Threads
    BY DEF TInv, Configured
  <1> USE DEF EInv, Exclusive, Torn
  <1>1. CASE Host \/ TickerEnds
    BY <1>1 DEF Host, Report, FailsToRead, ReadsAgain, TickerEnds
  <1>2. CASE Tick \/ ClockSetBack
    <2>1. bg'.at = bg.at
      BY <1>0, <1>2, ThreadMoves DEF Thread
    <2> QED
      BY <1>2, <2>1 DEF Tick, ClockSetBack
  <1>3. CASE LoadBegins \/ Build \/ LoadCalls \/ Spawn
    <2>1. CASE Spawn
      <3>1. bg.at = "none" /\ bg'.at = "top"
        BY <2>1 DEF Spawn, NoThread
      <3> QED
        BY <2>1, <3>1 DEF Spawn
    <2>2. CASE LoadBegins
      BY <2>2 DEF LoadBegins
    <2>3. CASE Build
      BY <2>3 DEF Build
    <2>4. CASE LoadCalls
      BY <2>4 DEF LoadCalls
    <2> QED
      BY <1>3, <2>1, <2>2, <2>3, <2>4
  <1>4. CASE LoadLocks \/ LoadPass \/ LoadPassRaises
    BY <1>4 DEF LoadLocks, LoadPass, LoadPassRaises, Locks, TurnedAway
  <1>5. CASE Top \/ Check \/ Call \/ Wake
    <2>1. bg.at \notin {"none", "pass"} /\ bg'.at \notin {"none", "pass"}
      <3>1. CASE Top
        <4>1. bg'.at \in {"done", "refresh"}
          BY <1>0, <3>1, ThreadMoves, ThreadCalls DEF Thread
        <4> QED
          BY <3>1, <4>1 DEF Top
      <3>2. CASE Check
        <4>1. bg'.at \in {"call", "wait"}
          <5>1. CASE ref /\ bg.due = 0
            BY <1>0, <3>2, <5>1, ThreadCalls DEF Thread
          <5>2. CASE ~(ref /\ bg.due = 0)
            BY <1>0, <3>2, <5>2, ThreadMoves DEF Check, Thread
          <5> QED
            BY <5>1, <5>2
        <4> QED
          BY <3>2, <4>1 DEF Check
      <3>3. CASE Call \/ Wake
        BY <1>0, <3>3, ThreadMoves DEF Call, Wake, Thread
      <3> QED
        BY <1>5, <3>1, <3>2, <3>3
    <2>2. UNCHANGED <<load, unload, ref, bound, stopped, lock, overtook>>
      BY <1>5 DEF Top, Check, Call, Wake
    <2> QED
      BY <2>1, <2>2
  <1>6. CASE Lock
    <2>1. \/ TurnedAway /\ bg'.at = "wait"
          \/ Locks("background") /\ bg'.at = "pass"
      <3>1. CASE TurnedAway /\ Rests([bg EXCEPT !.due = bg.next])
        BY <1>0, <3>1, ThreadMoves DEF Thread
      <3>2. CASE Locks("background") /\ \E n \in 0..Slow : bg' = [bg EXCEPT !.at = "pass", !.left = n]
        BY <1>0, <3>2 DEF Threads
      <3> QED
        BY <1>6, <3>1, <3>2 DEF Lock
    <2>2. bg.at = "lock" /\ UNCHANGED <<load, unload, ref, bound, stopped, overtook>>
      BY <1>6 DEF Lock
    <2> QED
      BY <2>1, <2>2 DEF Locks, TurnedAway
  <1>7. CASE Pass \/ PassRaises
    <2>1. bg'.at = "wait"
      BY <1>0, <1>7, ThreadMoves DEF Pass, PassRaises, Thread
    <2>2. bg.at = "pass" /\ lock' = "free" /\ UNCHANGED <<load, unload, ref, stopped, overtook>>
      BY <1>7 DEF Pass, PassRaises
    <2> QED
      BY <2>1, <2>2
  <1>8. CASE Unloads
    BY <1>8 DEF Unloads, Unload, StopListeners, DropReference
  <1>9. CASE UNCHANGED vars
    BY <1>9 DEF vars
  <1> QED
    BY <1>1, <1>2, <1>3, <1>4, <1>5, <1>6, <1>7, <1>8, <1>9 DEF Next, Loads, Background

\* After on_unload nothing listens, whatever pass it met under way or waiting;
\* only listeners of an on_loaded that it overtook survive it.
THEOREM UnloadUnbinds == Spec => []NothingBoundAfter
  <1>1. EInv => NothingBoundAfter
    BY DEF EInv, Torn, NothingBoundAfter
  <1> QED
    BY <1>1, OnTimeStarts, OnTimeHolds, EndStarts, EndHolds, PTL DEF Spec
=============================================================================
