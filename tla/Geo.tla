-------------------------------- MODULE Geo --------------------------------
(***************************************************************************)
(* Position sharing on the phone: frontend/src/lib/geo.ts.  A watch and    *)
(* its push timer are started and stopped together and are one generation  *)
(* here, named by the watch's token.  clearWatch does not take back what   *)
(* the platform has already queued.  A position is reduced to the trip it  *)
(* was taken on: a trip ends when the document is hidden.                  *)
(*                                                                         *)
(* The module reads the gps store and the socket of the current client,    *)
(* and hands its frames to sendGps; Positions connects these to the unit.  *)
(* A browser without geolocation never leaves `control` = FALSE.           *)
(***************************************************************************)
EXTENDS Naturals, Sequences, FiniteSets

CONSTANTS
  MaxTrips,    \* bound: how often the document is hidden
  MaxWatches,  \* bound: watches started
  MaxQueued,   \* bound: callbacks the platform has queued
  MaxInFlight  \* bound: gps_data frames on their way

ASSUME GeoAssumption ==
  MaxTrips \in Nat /\ MaxWatches \in Nat /\ MaxQueued \in Nat /\ MaxInFlight \in Nat

VARIABLES
  control,  \* controlOn
  denied,   \* deniedSticky
  last,     \* lastPosition: the trip it was taken on, 0 when null
  watch,    \* activeWatchToken, 0 when null
  counter,  \* watchCounter
  running,  \* generations the platform has been asked for and not to clear
  queued,   \* callbacks the platform has queued
  hidden,   \* document.hidden
  trips,    \* the trip the phone is on
  piFix,    \* the gps store: the unit said it has a fix of its own
  usable,   \* the current client has an admitted socket
  sent      \* gps_data frames on their way, each with its trip

phone == <<control, denied, last, watch, counter, running, queued, hidden, trips>>

-----------------------------------------------------------------------------
\* stopWatchAndTimer
StopWatch ==
  /\ watch' = 0
  /\ running' = running \ {watch}

\* Mutant of BeginWatch: a new watch over one that may still be live.
BeginWatchOver ==
  /\ counter < MaxWatches
  /\ counter' = counter + 1
  /\ watch' = counter + 1
  /\ running' = running \cup {counter + 1}

\* beginWatch clears whatever is running first.
BeginWatch ==
  /\ counter < MaxWatches
  /\ counter' = counter + 1
  /\ watch' = counter + 1
  /\ running' = (running \ {watch}) \cup {counter + 1}

\* pushPosition and sendGps: never while the unit has a fix, never queued.
PushPosition(position) ==
  sent' = IF position # 0 /\ ~piFix /\ usable THEN Append(sent, position) ELSE sent

\* toggleSharing, tapped on a visible page: turnOff, or turnOn.
ToggleSharing ==
  /\ ~hidden
  /\ control' = ~control
  /\ last' = 0
  /\ \/ control /\ StopWatch /\ UNCHANGED <<denied, counter>>
     \/ ~control /\ BeginWatch /\ denied' = FALSE
  /\ UNCHANGED <<queued, hidden, trips, piFix, usable, sent>>

\* Mutant of Hides: the reading survives the trip.
HidesKeepsReading ==
  /\ trips < MaxTrips /\ hidden' = TRUE
  /\ trips' = IF hidden THEN trips ELSE trips + 1
  /\ IF control THEN StopWatch ELSE UNCHANGED <<watch, running>>
  /\ UNCHANGED <<control, denied, last, counter, queued, piFix, usable, sent>>

\* onVisibilityChange, hidden: also when the event fires twice.
Hides ==
  /\ trips < MaxTrips /\ hidden' = TRUE
  /\ trips' = IF hidden THEN trips ELSE trips + 1
  /\ IF control THEN last' = 0 /\ StopWatch ELSE UNCHANGED <<last, watch, running>>
  /\ UNCHANGED <<control, denied, counter, queued, piFix, usable, sent>>

\* onVisibilityChange, visible.
Shows ==
  /\ hidden' = FALSE
  /\ IF control THEN BeginWatch ELSE UNCHANGED <<watch, counter, running>>
  /\ UNCHANGED <<control, denied, last, queued, trips, piFix, usable, sent>>

\* onPosition of the watch that is active; of any other it does nothing.
OnPosition(q) ==
  /\ q \in queued /\ q.kind = "position" /\ Len(sent) < MaxInFlight
  /\ queued' = queued \ {q}
  /\ IF q.watch = watch
     THEN last' = q.taken /\ PushPosition(q.taken)
     ELSE UNCHANGED <<last, sent>>
  /\ UNCHANGED <<control, denied, watch, counter, running, hidden, trips, piFix, usable>>

\* onError with PERMISSION_DENIED; the other codes change nothing.
OnError(q) ==
  /\ q \in queued /\ q.kind = "refusal"
  /\ queued' = queued \ {q}
  /\ IF q.watch = watch
     THEN denied' = TRUE /\ control' = FALSE /\ last' = 0 /\ StopWatch
     ELSE UNCHANGED <<denied, control, last, watch, running>>
  /\ UNCHANGED <<counter, hidden, trips, piFix, usable, sent>>

\* The push timer of a generation that is still running.
TimerFires(g) ==
  /\ g \in running /\ Len(sent) < MaxInFlight
  /\ PushPosition(last)
  /\ UNCHANGED <<phone, piFix, usable>>

-----------------------------------------------------------------------------
(* The platform *)

\* A running watch of a visible document queues where the phone is.
Acquires(g) ==
  /\ g \in running /\ ~hidden /\ Cardinality(queued) < MaxQueued
  /\ queued' = queued \cup {[watch |-> g, kind |-> "position", taken |-> trips]}
  /\ UNCHANGED <<control, denied, last, watch, counter, running, hidden, trips, piFix,
                 usable, sent>>

\* The owner, or the browser on its own, refuses the permission.
Refuses(g) ==
  /\ g \in running /\ Cardinality(queued) < MaxQueued
  /\ queued' = queued \cup {[watch |-> g, kind |-> "refusal", taken |-> trips]}
  /\ UNCHANGED <<control, denied, last, watch, counter, running, hidden, trips, piFix,
                 usable, sent>>

-----------------------------------------------------------------------------
GeoInit ==
  /\ control = FALSE /\ denied = FALSE /\ last = 0
  /\ watch = 0 /\ counter = 0 /\ running = {} /\ queued = {}
  /\ hidden = FALSE /\ trips = 1
  /\ piFix = FALSE /\ usable = FALSE /\ sent = <<>>

GeoNext ==
  \/ ToggleSharing \/ Hides \/ Shows
  \/ \E q \in queued : OnPosition(q) \/ OnError(q)
  \/ \E g \in running : TimerFires(g) \/ Acquires(g) \/ Refuses(g)

-----------------------------------------------------------------------------
(* Properties *)

Callbacks == [watch : Nat, kind : {"position", "refusal"}, taken : Nat]

GeoTypeOK ==
  /\ control \in BOOLEAN /\ denied \in BOOLEAN /\ hidden \in BOOLEAN
  /\ last \in Nat /\ watch \in Nat /\ counter \in Nat /\ trips \in Nat
  /\ running \subseteq Nat
  /\ queued \subseteq Callbacks
  /\ piFix \in BOOLEAN /\ usable \in BOOLEAN
  /\ sent \in Seq(Nat)

\* SPEC.md 4.6.2: one watch and one timer while the control is on and the
\* page is visible, none otherwise: after any series of taps, hides, repeated
\* events, refusals and callbacks of watches already given up.
WatchIffShared ==
  running = IF control /\ ~hidden THEN {watch} \ {0} ELSE {}

\* SPEC.md 4.6.2: a position taken before the phone was pocketed is never
\* sent after it, although its callback may be delivered then.
OldPlacesStayHome ==
  [][Len(sent') > Len(sent) => sent'[Len(sent')] = trips]_<<phone, sent>>
=============================================================================
