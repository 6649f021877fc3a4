---------------------------- MODULE GpsResolver ----------------------------
(***************************************************************************)
(* GpsResolver of plugin/companion.py and the session snapshot it reads.   *)
(* The background thread refreshes the two caches; the asyncio loop stores *)
(* what the phone pushes; current() runs on the loop, on the ticker and on *)
(* the hook thread, with no lock: between two accesses to an attribute any *)
(* other thread may run.  Times are ages, in ticks of time.time.           *)
(***************************************************************************)
EXTENDS Naturals

CONSTANTS
  Ttl,     \* BROWSER_GPS_TTL, in ticks
  Threads, \* the threads that call current(), "loop" among them
  Sources  \* the gps_source options considered

ASSUME ResolverAssumption ==
  /\ Ttl \in Nat /\ {"loop", "ticker"} \subseteq Threads
  /\ Sources \subseteq {"auto", "bettercap", "gpsd", "none"}

VARIABLES
  source,     \* the gps_source option
  bettercap,  \* SessionCache: the snapshot carries a fix
  gpsd,       \* _gpsd: a fix, or None
  browser,    \* _browser: {} for None, or the age of the position it holds
  browserAt,  \* the age of _browser_at
  call        \* per thread: where it is in set_browser_position or current()

caches == <<source, bettercap, gpsd>>
stored == <<browser, browserAt>>
resolver == <<caches, stored, call>>

Nothing == [from |-> "none", age |-> 0]
Device(name) == [from |-> name, age |-> 0]
Phone(age) == [from |-> "browser", age |-> age]
Resting == [at |-> "idle", answer |-> Nothing]

Goto(th, at) == call' = [call EXCEPT ![th].at = at]
Returns(th, answer) == call' = [call EXCEPT ![th] = [at |-> "returned", answer |-> answer]]
Raises(th) == Goto(th, "raised")

Asks(name) == source \in {"auto", name}

-----------------------------------------------------------------------------
(* set_browser_position, on the loop *)

StorePosition ==
  /\ call["loop"].at = "idle"
  /\ browser' = {0}
  /\ Goto("loop", "stamp")
  /\ UNCHANGED <<caches, browserAt>>

\* The second assignment; the gps_data handler goes on to current().
StampPosition ==
  /\ call["loop"].at = "stamp"
  /\ browserAt' = 0
  /\ Goto("loop", "enter")
  /\ UNCHANGED <<caches, browser>>

-----------------------------------------------------------------------------
(* current() *)

\* Any thread may call at any time. The option, then the snapshot, which a
\* lock guards.
ReadSnapshot(th) ==
  /\ call[th].at \in {"idle", "enter"}
  /\ \/ source = "none" /\ Returns(th, Nothing)
     \/ Asks("bettercap") /\ bettercap /\ Returns(th, Device("bettercap"))
     \/ /\ source # "none" /\ ~(Asks("bettercap") /\ bettercap)
        /\ Goto(th, IF Asks("gpsd") THEN "gpsd" ELSE "browser")
  /\ UNCHANGED <<caches, stored>>

\* `self._gpsd is not None`, then `dict(self._gpsd)`.
CheckGpsd(th) ==
  /\ call[th].at = "gpsd"
  /\ Goto(th, IF gpsd THEN "copy gpsd" ELSE "browser")
  /\ UNCHANGED <<caches, stored>>

CopyGpsd(th) ==
  /\ call[th].at = "copy gpsd"
  /\ IF gpsd THEN Returns(th, Device("gpsd")) ELSE Raises(th)
  /\ UNCHANGED <<caches, stored>>

\* `self._browser is not None`, then its age, then `dict(self._browser)`.
CheckBrowser(th) ==
  /\ call[th].at = "browser"
  /\ IF browser # {} THEN Goto(th, "age") ELSE Returns(th, Nothing)
  /\ UNCHANGED <<caches, stored>>

CheckAge(th) ==
  /\ call[th].at = "age"
  /\ Goto(th, IF browserAt <= Ttl THEN "copy browser" ELSE "clear")
  /\ UNCHANGED <<caches, stored>>

\* Mutant of CopyBrowser: a use renews the position.
CopyBrowserRenews(th) ==
  /\ call[th].at = "copy browser"
  /\ \/ \E age \in browser : Returns(th, Phone(age)) /\ browserAt' = 0
     \/ browser = {} /\ Raises(th) /\ UNCHANGED browserAt
  /\ UNCHANGED <<caches, browser>>

CopyBrowser(th) ==
  /\ call[th].at = "copy browser"
  /\ \/ \E age \in browser : Returns(th, Phone(age))
     \/ browser = {} /\ Raises(th)
  /\ UNCHANGED <<caches, stored>>

\* `self._browser = None`
ClearBrowser(th) ==
  /\ call[th].at = "clear"
  /\ browser' = {}
  /\ Returns(th, Nothing)
  /\ UNCHANGED <<caches, browserAt>>

CurrentStep(th) ==
  \/ ReadSnapshot(th) \/ CheckGpsd(th) \/ CopyGpsd(th) \/ CheckBrowser(th)
  \/ CheckAge(th) \/ CopyBrowser(th) \/ ClearBrowser(th)

-----------------------------------------------------------------------------
(* The background thread and the clock *)

\* SessionCache.refresh; a refresh that fails leaves the snapshot.
RefreshSession ==
  /\ bettercap' \in BOOLEAN
  /\ UNCHANGED <<source, gpsd, stored, call>>

\* refresh_gpsd: no fix when the source, the host or the port is refused, and
\* when the poll fails or has no fix.
RefreshGpsd ==
  /\ gpsd' \in IF Asks("gpsd") THEN BOOLEAN ELSE {FALSE}
  /\ UNCHANGED <<source, bettercap, stored, call>>

Older(age) == IF age > Ttl THEN age ELSE age + 1

\* Calls take microseconds and ticks seconds: no tick falls within a call.
Tick ==
  /\ \A th \in Threads : call[th].at = "idle"
  /\ browserAt' = Older(browserAt)
  /\ browser' = {Older(age) : age \in browser}
  /\ UNCHANGED <<caches, call>>

ResolverInit ==
  /\ source \in Sources
  /\ bettercap = FALSE /\ gpsd = FALSE
  /\ browser = {} /\ browserAt = Ttl + 1
  /\ call = [th \in Threads |-> Resting]

ResolverNext ==
  \/ StampPosition
  \/ \E th \in Threads : CurrentStep(th)
  \/ RefreshSession \/ RefreshGpsd \/ Tick

-----------------------------------------------------------------------------
(* Properties *)

Steps == {"idle", "stamp", "enter", "gpsd", "copy gpsd", "browser", "age", "copy browser",
          "clear", "returned", "raised"}

ResolverTypeOK ==
  /\ source \in Sources
  /\ bettercap \in BOOLEAN /\ gpsd \in BOOLEAN
  /\ browser \subseteq Nat
  /\ browserAt \in Nat
  /\ call \in [Threads -> [at : Steps,
                           answer : [from : {"none", "bettercap", "gpsd", "browser"},
                                     age : Nat]]]

\* Whatever the loop, the ticker and the background thread do meanwhile, no
\* caller is given a position the phone pushed longer than the TTL ago.
NeverStale ==
  \A th \in Threads :
    call[th].answer.from = "browser" => call[th].answer.age <= Ttl

\* The docstring of current(): "always in the uniform shape". dict() of an
\* attribute another thread has set to None since it was tested raises.
AlwaysUniform == \A th \in Threads : call[th].at # "raised"
=============================================================================
