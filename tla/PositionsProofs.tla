-------------------------- MODULE PositionsProofs --------------------------
(***************************************************************************)
(* Proofs about Positions, for every bound, TTL, set of threads and set of *)
(* sources: typing, the watch of the phone, and the age of what the unit   *)
(* hands out.                                                              *)
(***************************************************************************)
EXTENDS Positions, TLAPS

-----------------------------------------------------------------------------
(* Typing *)

\* The watch operators keep the type of what they assign.
LEMMA WatchTypes ==
  ASSUME GeoTypeOK
  PROVE  /\ StopWatch => watch' \in Nat /\ running' \subseteq Nat
         /\ BeginWatch => /\ watch' \in Nat /\ counter' \in Nat
                          /\ running' \subseteq Nat
<1>1. /\ watch \in Nat /\ counter \in Nat
      /\ \A g \in running : g \in Nat
  BY DEF GeoTypeOK
<1>2. ASSUME StopWatch PROVE watch' \in Nat /\ running' \subseteq Nat
  BY <1>1, <1>2 DEF StopWatch
<1>3. ASSUME BeginWatch
      PROVE  watch' \in Nat /\ counter' \in Nat /\ running' \subseteq Nat
  <2>1. watch' \in Nat /\ counter' \in Nat
    BY <1>1, <1>3 DEF BeginWatch
  <2>2. \A g \in running' : g \in Nat
    BY <1>1, <1>3 DEF BeginWatch
  <2> QED
    BY <2>1, <2>2
<1> QED
  BY <1>2, <1>3

\* pushPosition adds a trip or nothing.
LEMMA PushTypes ==
  ASSUME GeoTypeOK, NEW position \in Nat, PushPosition(position)
  PROVE  sent' \in Seq(Nat)
BY DEF GeoTypeOK, PushPosition

\* What is outside geo.ts can disturb three variables of its type only.
LEMMA PhoneUntouched ==
  ASSUME GeoTypeOK, UNCHANGED phone,
         piFix' \in BOOLEAN, usable' \in BOOLEAN, sent' \in Seq(Nat)
  PROVE  GeoTypeOK'
<1>1. /\ control' = control /\ denied' = denied /\ last' = last /\ watch' = watch
      /\ counter' = counter /\ running' = running /\ queued' = queued
      /\ hidden' = hidden /\ trips' = trips
  BY DEF phone
<1>2. /\ control' \in BOOLEAN /\ denied' \in BOOLEAN /\ hidden' \in BOOLEAN
      /\ last' \in Nat /\ watch' \in Nat /\ counter' \in Nat /\ trips' \in Nat
      /\ running' \subseteq Nat /\ queued' \subseteq Callbacks
  BY <1>1, Zenon DEF GeoTypeOK
<1> QED
  BY <1>2, Zenon DEF GeoTypeOK

\* Every handler of geo.ts and every callback of the platform keeps the type.
LEMMA GeoStepTypes ==
  ASSUME GeoTypeOK, GeoNext
  PROVE  GeoTypeOK'
<1>1. CASE ToggleSharing
  <2>1. control' \in BOOLEAN /\ denied' \in BOOLEAN
    BY <1>1, Zenon DEF ToggleSharing, GeoTypeOK
  <2>2. last' \in Nat /\ watch' \in Nat /\ counter' \in Nat /\ running' \subseteq Nat
    BY <1>1, WatchTypes DEF ToggleSharing, GeoTypeOK
  <2> QED
    BY <1>1, <2>1, <2>2 DEF ToggleSharing, GeoTypeOK
<1>2. CASE Hides
  <2>1. hidden' \in BOOLEAN /\ control' \in BOOLEAN /\ denied' \in BOOLEAN
    BY <1>2, Zenon DEF Hides, GeoTypeOK
  <2>2. trips' \in Nat
    <3>1. trips \in Nat /\ (trips' = trips \/ trips' = trips + 1)
      BY <1>2 DEF Hides, GeoTypeOK
    <3> QED
      BY <3>1
  <2>3. last' \in Nat /\ watch' \in Nat /\ running' \subseteq Nat
    <3>1. /\ last' = 0 \/ last' = last
          /\ StopWatch \/ (watch' = watch /\ running' = running)
      BY <1>2, Zenon DEF Hides
    <3>2. last \in Nat /\ watch \in Nat /\ running \subseteq Nat
      BY Zenon DEF GeoTypeOK
    <3>3. StopWatch => watch' \in Nat /\ running' \subseteq Nat
      BY WatchTypes
    <3>4. last' \in Nat
      BY <3>1, <3>2
    <3> QED
      BY <3>1, <3>2, <3>3, <3>4, Zenon
  <2> QED
    BY <1>2, <2>1, <2>2, <2>3 DEF Hides, GeoTypeOK
<1>3. CASE Shows
  <2>1. hidden' \in BOOLEAN /\ control' \in BOOLEAN /\ denied' \in BOOLEAN
    BY <1>3, Zenon DEF Shows, GeoTypeOK
  <2>2. watch' \in Nat /\ counter' \in Nat /\ running' \subseteq Nat
    BY <1>3, WatchTypes DEF Shows, GeoTypeOK
  <2> QED
    BY <1>3, <2>1, <2>2 DEF Shows, GeoTypeOK
<1>4. ASSUME NEW q \in queued, OnPosition(q) PROVE GeoTypeOK'
  <2>1. q.taken \in Nat
    BY DEF GeoTypeOK, Callbacks
  <2>2. last' \in Nat /\ sent' \in Seq(Nat)
    BY <1>4, <2>1, PushTypes DEF OnPosition, GeoTypeOK
  <2>3. queued' \subseteq Callbacks
    BY <1>4 DEF OnPosition, GeoTypeOK
  <2> QED
    BY <1>4, <2>2, <2>3 DEF OnPosition, GeoTypeOK
<1>5. ASSUME NEW q \in queued, OnError(q) PROVE GeoTypeOK'
  BY <1>5, WatchTypes DEF OnError, StopWatch, GeoTypeOK
<1>6. ASSUME NEW g \in running, TimerFires(g) PROVE GeoTypeOK'
  <2>1. last \in Nat
    BY DEF GeoTypeOK
  <2>2. sent' \in Seq(Nat)
    BY <1>6, <2>1, PushTypes DEF TimerFires
  <2> QED
    BY <1>6, <2>2, PhoneUntouched DEF TimerFires, GeoTypeOK
<1>7. ASSUME NEW g \in running, Acquires(g) PROVE GeoTypeOK'
  BY <1>7 DEF Acquires, Callbacks, GeoTypeOK
<1>8. ASSUME NEW g \in running, Refuses(g) PROVE GeoTypeOK'
  BY <1>8 DEF Refuses, Callbacks, GeoTypeOK
<1> QED
  BY <1>1, <1>2, <1>3, <1>4, <1>5, <1>6, <1>7, <1>8 DEF GeoNext

\* Every step of the resolver keeps the type.
LEMMA ResolverStepTypes ==
  ASSUME ResolverTypeOK, ResolverNext
  PROVE  ResolverTypeOK'
<1> DEFINE Answers == [from : {"none", "bettercap", "gpsd", "browser"}, age : Nat]
<1>1. /\ Nothing \in Answers
      /\ \A name \in {"bettercap", "gpsd"} : Device(name) \in Answers
      /\ \A age \in Nat : Phone(age) \in Answers
  BY DEF Nothing, Device, Phone
<1>2. ASSUME NEW th \in Threads, NEW at \in Steps, Goto(th, at)
      PROVE  call' \in [Threads -> [at : Steps, answer : Answers]]
  BY <1>2 DEF Goto, ResolverTypeOK
<1>3. ASSUME NEW th \in Threads, NEW answer \in Answers, Returns(th, answer)
      PROVE  call' \in [Threads -> [at : Steps, answer : Answers]]
  BY <1>3 DEF Returns, ResolverTypeOK, Steps
<1>4. "loop" \in Threads
  BY ResolverAssumption
<1>5. CASE StampPosition
  <2>1. call' \in [Threads -> [at : Steps, answer : Answers]]
    BY <1>2, <1>4, <1>5 DEF StampPosition, Steps
  <2> QED
    BY <1>5, <2>1 DEF StampPosition, ResolverTypeOK, caches
<1>6. ASSUME NEW th \in Threads, CurrentStep(th) PROVE ResolverTypeOK'
  <2>1. CASE ReadSnapshot(th)
    <3>1. call' \in [Threads -> [at : Steps, answer : Answers]]
      BY <1>1, <1>2, <1>3, <2>1 DEF ReadSnapshot, Steps
    <3> QED
      BY <2>1, <3>1 DEF ReadSnapshot, ResolverTypeOK, caches, stored
  <2>2. CASE CheckGpsd(th) \/ CopyGpsd(th)
    <3>1. call' \in [Threads -> [at : Steps, answer : Answers]]
      BY <1>1, <1>2, <1>3, <2>2 DEF CheckGpsd, CopyGpsd, Raises, Steps
    <3> QED
      BY <2>2, <3>1 DEF CheckGpsd, CopyGpsd, ResolverTypeOK, caches, stored
  <2>3. CASE CheckBrowser(th) \/ CheckAge(th)
    <3>1. call' \in [Threads -> [at : Steps, answer : Answers]]
      BY <1>1, <1>2, <1>3, <2>3 DEF CheckBrowser, CheckAge, Steps
    <3> QED
      BY <2>3, <3>1 DEF CheckBrowser, CheckAge, ResolverTypeOK, caches, stored
  <2>4. CASE CopyBrowser(th)
    <3>1. \A age \in browser : age \in Nat
      BY DEF ResolverTypeOK
    <3>2. call' \in [Threads -> [at : Steps, answer : Answers]]
      BY <1>1, <1>2, <1>3, <2>4, <3>1 DEF CopyBrowser, Raises, Steps
    <3> QED
      BY <2>4, <3>2 DEF CopyBrowser, ResolverTypeOK, caches, stored
  <2>5. CASE ClearBrowser(th)
    <3>1. call' \in [Threads -> [at : Steps, answer : Answers]]
      BY <1>1, <1>3, <2>5 DEF ClearBrowser
    <3> QED
      BY <2>5, <3>1 DEF ClearBrowser, ResolverTypeOK, caches
  <2> QED
    BY <1>6, <2>1, <2>2, <2>3, <2>4, <2>5 DEF CurrentStep
<1>7. CASE RefreshSession
  BY <1>7 DEF RefreshSession, ResolverTypeOK, stored
<1>8. CASE RefreshGpsd
  BY <1>8 DEF RefreshGpsd, ResolverTypeOK, stored
<1>9. CASE Tick
  <2>1. \A age \in Nat : Older(age) \in Nat
    BY DEF Older
  <2>2. browserAt' \in Nat /\ browser' \subseteq Nat
    BY <1>9, <2>1 DEF Tick, ResolverTypeOK
  <2> QED
    BY <1>9, <2>2 DEF Tick, ResolverTypeOK, caches
<1> QED
  BY <1>5, <1>6, <1>7, <1>8, <1>9 DEF ResolverNext

\* Every step of the composition keeps the type.
LEMMA StepTypes ==
  ASSUME TypeOK, [Next]_vars
  PROVE  TypeOK'
<1>1. GeoTypeOK /\ ResolverTypeOK
  BY DEF TypeOK
<1>2. piFix \in BOOLEAN /\ usable \in BOOLEAN /\ sent \in Seq(Nat)
  BY <1>1 DEF GeoTypeOK
<1>3. UNCHANGED resolver => ResolverTypeOK'
  BY <1>1 DEF ResolverTypeOK, resolver, caches, stored
<1>4. UNCHANGED <<phone, piFix, usable, sent>> => GeoTypeOK'
  BY <1>1, <1>2, PhoneUntouched
<1>5. CASE OnPhone
  BY <1>1, <1>3, <1>5, GeoStepTypes DEF OnPhone, TypeOK
<1>6. CASE Unit
  BY <1>1, <1>4, <1>6, ResolverStepTypes DEF Unit, TypeOK
<1>7. CASE LinkDrops \/ LinkReturns
  <2>1. /\ UNCHANGED phone /\ UNCHANGED resolver
        /\ piFix' = piFix /\ (usable' = FALSE \/ usable' = TRUE)
        /\ sent' = sent \/ sent' = <<>>
    BY <1>7 DEF LinkDrops, LinkReturns
  <2>2. <<>> \in Seq(Nat)
    OBVIOUS
  <2>3. GeoTypeOK'
    BY <1>1, <1>2, <2>1, <2>2, PhoneUntouched
  <2> QED
    BY <1>3, <2>1, <2>3 DEF TypeOK
<1>8. CASE GpsDataArrives
  <2>1. GeoTypeOK'
    BY <1>1, <1>2, <1>8, PhoneUntouched DEF GpsDataArrives
  <2>2. call' \in [Threads -> [at : Steps,
                              answer : [from : {"none", "bettercap", "gpsd", "browser"},
                                        age : Nat]]]
    BY <1>1, <1>8, ResolverAssumption
       DEF GpsDataArrives, StorePosition, Goto, Steps, ResolverTypeOK
  <2>3. ResolverTypeOK'
    BY <1>1, <1>8, <2>2 DEF GpsDataArrives, StorePosition, ResolverTypeOK, caches
  <2> QED
    BY <2>1, <2>3 DEF TypeOK
<1>9. ASSUME NEW th \in Threads, Answered(th) PROVE TypeOK'
  <2>1. piFix' \in BOOLEAN
    <3>1. piFix' = piFix \/ piFix' = TRUE \/ piFix' = FALSE
      BY <1>9 DEF Answered, Learns
    <3> QED
      BY <1>2, <3>1, Zenon
  <2>2. GeoTypeOK'
    BY <1>1, <1>2, <1>9, <2>1, PhoneUntouched DEF Answered
  <2>3. ResolverTypeOK'
    BY <1>1, <1>9 DEF Answered, Resting, Nothing, Steps, ResolverTypeOK, caches, stored
  <2> QED
    BY <2>2, <2>3 DEF TypeOK
<1>10. CASE UNCHANGED vars
  BY <1>3, <1>4, <1>10 DEF vars, TypeOK
<1> QED
  BY <1>5, <1>6, <1>7, <1>8, <1>9, <1>10 DEF Next

\* The initial states are well typed.
LEMMA InitTypes == Init => TypeOK
<1>1. GeoInit => GeoTypeOK
  <2>1. <<>> \in Seq(Nat) /\ {} \subseteq Nat /\ {} \subseteq Callbacks
    OBVIOUS
  <2>2. 0 \in Nat /\ 1 \in Nat /\ FALSE \in BOOLEAN
    OBVIOUS
  <2> QED
    BY <2>1, <2>2, Zenon DEF GeoInit, GeoTypeOK
<1>2. Ttl + 1 \in Nat
  BY ResolverAssumption
<1>3. ResolverInit => ResolverTypeOK
  <2>1. Resting \in [at : Steps, answer : [from : {"none", "bettercap", "gpsd", "browser"},
                                          age : Nat]]
    BY DEF Resting, Nothing, Steps
  <2>2. {} \subseteq Nat /\ FALSE \in BOOLEAN
    OBVIOUS
  <2> QED
    BY <1>2, <2>1, <2>2 DEF ResolverInit, ResolverTypeOK
<1> QED
  BY <1>1, <1>3 DEF Init, TypeOK

\* Every variable of the phone, the link and the resolver keeps its type.
THEOREM PositionsTyped == Spec => []TypeOK
<1>1. TypeOK /\ [Next]_vars => TypeOK'
  BY StepTypes
<1> QED
  BY <1>1, InitTypes, PTL DEF Spec

-----------------------------------------------------------------------------
(* The phone: one watch, while the control is on and the page visible *)

\* The handlers of geo.ts keep the watch and the control together.
LEMMA GeoStepWatch ==
  ASSUME GeoTypeOK, WatchIffShared, GeoNext
  PROVE  WatchIffShared'
<1>1. counter \in Nat /\ control \in BOOLEAN /\ hidden \in BOOLEAN
  BY DEF GeoTypeOK
<1>2. BeginWatch => running' = {watch'} /\ watch' # 0
  BY <1>1 DEF BeginWatch, WatchIffShared
<1>3. StopWatch => running' = {}
  BY <1>1 DEF StopWatch, WatchIffShared
<1>4. CASE ToggleSharing
  BY <1>1, <1>2, <1>3, <1>4 DEF ToggleSharing, WatchIffShared
<1>5. CASE Hides
  BY <1>1, <1>3, <1>5 DEF Hides, WatchIffShared
<1>6. CASE Shows
  BY <1>1, <1>2, <1>6 DEF Shows, WatchIffShared
<1>7. ASSUME NEW q \in queued, OnPosition(q) \/ OnError(q) PROVE WatchIffShared'
  BY <1>1, <1>3, <1>7 DEF OnPosition, OnError, WatchIffShared
<1>8. ASSUME NEW g \in running, TimerFires(g) \/ Acquires(g) \/ Refuses(g)
      PROVE  WatchIffShared'
  BY <1>8 DEF TimerFires, Acquires, Refuses, phone, WatchIffShared
<1> QED
  BY <1>4, <1>5, <1>6, <1>7, <1>8 DEF GeoNext

\* SPEC.md 4.6.2: however often the owner taps and pockets the phone, and
\* whichever callbacks arrive late, the platform runs the one watch of this
\* module, and only while the control is on and the page visible.
THEOREM OneWatchWhileShared == Spec => []WatchIffShared
<1>1. Init => WatchIffShared
  BY DEF Init, GeoInit, WatchIffShared
<1>2. TypeOK /\ WatchIffShared /\ [Next]_vars => WatchIffShared'
  <2> SUFFICES ASSUME TypeOK, WatchIffShared, [Next]_vars
               PROVE  WatchIffShared'
    OBVIOUS
  <2>1. CASE OnPhone
    BY <2>1, GeoStepWatch DEF OnPhone, TypeOK
  <2>2. UNCHANGED phone => WatchIffShared'
    BY DEF phone, WatchIffShared
  <2>3. CASE ~OnPhone
    BY <2>2, <2>3 DEF Next, Unit, LinkDrops, LinkReturns, GpsDataArrives, Answered, vars
  <2> QED
    BY <2>1, <2>3
<1> QED
  BY <1>1, <1>2, PositionsTyped, PTL DEF Spec

-----------------------------------------------------------------------------
(* The phone: no position taken before it was pocketed *)

\* The reading the timer sends is of this trip, and there is none while the
\* control is off or the page hidden.
ReadingOfThisTrip == last # 0 => last = trips /\ control /\ ~hidden

\* Tokens are never used again: what is queued is of a watch already begun.
TokensSpent ==
  /\ watch <= counter
  /\ \A q \in queued : q.watch # 0 /\ q.watch <= counter

\* What the active watch has queued was taken on this trip; the watch does not
\* outlive it.
QueuedOfThisTrip ==
  /\ watch # 0 => control /\ ~hidden
  /\ \A q \in queued : q.watch = watch => q.taken = trips

TripInv == WatchIffShared /\ ReadingOfThisTrip /\ TokensSpent /\ QueuedOfThisTrip

\* The numbers the arguments below compare.
LEMMA PhoneNumbers ==
  ASSUME GeoTypeOK
  PROVE  /\ last \in Nat /\ watch \in Nat /\ counter \in Nat /\ trips \in Nat
         /\ \A q \in queued : q.watch \in Nat /\ q.taken \in Nat
BY DEF GeoTypeOK, Callbacks

\* What a new watch finds: no reading, and nothing queued under its token.
LEMMA NewWatch ==
  ASSUME GeoTypeOK, TokensSpent, BeginWatch
  PROVE  /\ watch' # 0 /\ watch' = counter'
         /\ \A q \in queued : q.watch # watch' /\ q.watch <= counter'
BY PhoneNumbers DEF TokensSpent, BeginWatch

LEMMA GeoStepTrip ==
  ASSUME GeoTypeOK, TripInv, GeoNext
  PROVE  TripInv'
<1>1. WatchIffShared'
  BY GeoStepWatch DEF TripInv
<1>2. ReadingOfThisTrip /\ TokensSpent /\ QueuedOfThisTrip /\ WatchIffShared
  BY DEF TripInv
<1>3. CASE ToggleSharing
  <2>1. UNCHANGED <<queued, hidden, trips>> /\ last' = 0 /\ ~hidden
    BY <1>3 DEF ToggleSharing
  <2>2. CASE control
    <3>1. watch' = 0 /\ counter' = counter
      BY <1>3, <2>2 DEF ToggleSharing, StopWatch
    <3> QED
      BY <1>1, <1>2, <2>1, <3>1, PhoneNumbers
         DEF TripInv, ReadingOfThisTrip, TokensSpent, QueuedOfThisTrip
  <2>3. CASE ~control
    <3>1. BeginWatch /\ control'
      BY <1>3, <2>3 DEF ToggleSharing
    <3>2. counter' \in Nat
      BY <3>1, PhoneNumbers DEF BeginWatch
    <3> QED
      BY <1>1, <1>2, <2>1, <3>1, <3>2, NewWatch, PhoneNumbers
         DEF TripInv, ReadingOfThisTrip, TokensSpent, QueuedOfThisTrip
  <2> QED
    BY <2>2, <2>3
<1>4. CASE Hides
  <2>1. last' = 0 /\ watch' = 0
    BY <1>2, <1>4 DEF Hides, StopWatch, ReadingOfThisTrip, QueuedOfThisTrip
  <2>2. UNCHANGED <<queued, counter>>
    BY <1>4 DEF Hides
  <2> QED
    BY <1>1, <1>2, <2>1, <2>2, PhoneNumbers
       DEF TripInv, ReadingOfThisTrip, TokensSpent, QueuedOfThisTrip
<1>5. CASE Shows
  <2>1. UNCHANGED <<control, last, queued, trips>> /\ ~hidden'
    BY <1>5 DEF Shows
  <2>2. CASE control
    <3>1. BeginWatch
      BY <1>5, <2>2 DEF Shows
    <3>2. counter' \in Nat
      BY <3>1, PhoneNumbers DEF BeginWatch
    <3> QED
      BY <1>1, <1>2, <2>1, <2>2, <3>1, <3>2, NewWatch, PhoneNumbers
         DEF TripInv, ReadingOfThisTrip, TokensSpent, QueuedOfThisTrip
  <2>3. CASE ~control
    <3>1. UNCHANGED <<watch, counter>>
      BY <1>5, <2>3 DEF Shows
    <3> QED
      BY <1>1, <1>2, <2>1, <2>3, <3>1
         DEF TripInv, ReadingOfThisTrip, TokensSpent, QueuedOfThisTrip
  <2> QED
    BY <2>2, <2>3
<1>6. ASSUME NEW q \in queued, OnPosition(q) PROVE TripInv'
  <2>1. queued' \subseteq queued /\ UNCHANGED <<watch, counter, control, hidden, trips>>
    BY <1>6 DEF OnPosition
  <2>2. last' = last \/ (last' = trips /\ watch # 0)
    BY <1>2, <1>6 DEF OnPosition, TokensSpent, QueuedOfThisTrip
  <2> QED
    BY <1>1, <1>2, <2>1, <2>2
       DEF TripInv, ReadingOfThisTrip, TokensSpent, QueuedOfThisTrip
<1>7. ASSUME NEW q \in queued, OnError(q) PROVE TripInv'
  <2>1. queued' \subseteq queued /\ UNCHANGED <<counter, hidden, trips>>
    BY <1>7 DEF OnError
  <2>2. \/ UNCHANGED <<control, last, watch>>
        \/ last' = 0 /\ watch' = 0
    BY <1>7 DEF OnError, StopWatch
  <2> QED
    BY <1>1, <1>2, <2>1, <2>2, PhoneNumbers
       DEF TripInv, ReadingOfThisTrip, TokensSpent, QueuedOfThisTrip
<1>8. ASSUME NEW g \in running, TimerFires(g) PROVE TripInv'
  BY <1>1, <1>2, <1>8
     DEF TimerFires, phone, TripInv, ReadingOfThisTrip, TokensSpent, QueuedOfThisTrip
<1>9. ASSUME NEW g \in running, Acquires(g) \/ Refuses(g) PROVE TripInv'
  <2>1. g = watch /\ g # 0
    BY <1>2 DEF WatchIffShared
  <2>2. UNCHANGED <<watch, counter, control, hidden, trips, last>>
    BY <1>9 DEF Acquires, Refuses
  <2>3. \A q \in queued' : q \in queued \/ (q.watch = g /\ q.taken = trips)
    BY <1>9 DEF Acquires, Refuses
  <2>4. TokensSpent' /\ QueuedOfThisTrip'
    BY <1>2, <2>1, <2>2, <2>3, PhoneNumbers DEF TokensSpent, QueuedOfThisTrip
  <2> QED
    BY <1>1, <1>2, <2>2, <2>4 DEF TripInv, ReadingOfThisTrip
<1> QED
  BY <1>3, <1>4, <1>5, <1>6, <1>7, <1>8, <1>9 DEF GeoNext

\* A frame that leaves carries the trip the phone is on.
LEMMA PushesThisTrip ==
  ASSUME GeoTypeOK, TripInv, GeoNext, Len(sent') > Len(sent)
  PROVE  sent'[Len(sent')] = trips
<1>1. sent \in Seq(Nat)
  BY DEF GeoTypeOK
<1>2. ASSUME NEW position \in Nat, PushPosition(position),
             position # 0 => position = trips
      PROVE  sent'[Len(sent')] = trips
  <2>1. sent' = Append(sent, position) /\ position = trips
    BY <1>1, <1>2 DEF PushPosition
  <2> QED
    BY <1>1, <2>1
<1>3. ASSUME NEW q \in queued, OnPosition(q) PROVE sent'[Len(sent')] = trips
  <2>1. q.watch = watch /\ PushPosition(q.taken)
    BY <1>1, <1>3 DEF OnPosition
  <2>2. q.taken \in Nat /\ q.taken = trips
    BY <2>1, PhoneNumbers DEF TripInv, QueuedOfThisTrip
  <2> QED
    BY <1>2, <2>1, <2>2
<1>4. ASSUME NEW g \in running, TimerFires(g) PROVE sent'[Len(sent')] = trips
  <2>1. PushPosition(last) /\ last \in Nat /\ (last # 0 => last = trips)
    BY <1>4, PhoneNumbers DEF TimerFires, TripInv, ReadingOfThisTrip
  <2> QED
    BY <1>2, <2>1
<1>5. CASE sent' = sent
  BY <1>1, <1>5
<1>6. ASSUME NEW g \in running, Acquires(g) \/ Refuses(g) PROVE sent' = sent
  BY <1>6 DEF Acquires, Refuses
<1>7. ASSUME NEW q \in queued, OnError(q) PROVE sent' = sent
  BY <1>7 DEF OnError
<1>8. ToggleSharing \/ Hides \/ Shows => sent' = sent
  BY DEF ToggleSharing, Hides, Shows
<1> QED
  BY <1>3, <1>4, <1>5, <1>6, <1>7, <1>8 DEF GeoNext

\* SPEC.md 4.6.2: whatever is queued, late or repeated, a position taken before
\* the phone was pocketed is never sent after it.
THEOREM NoOldPlaceIsSent == Spec => OldPlacesStayHome
<1>1. Init => TripInv
  BY DEF Init, GeoInit, TripInv, WatchIffShared, ReadingOfThisTrip, TokensSpent,
         QueuedOfThisTrip
<1>2. TripInv /\ UNCHANGED phone => TripInv'
  BY DEF phone, TripInv, WatchIffShared, ReadingOfThisTrip, TokensSpent, QueuedOfThisTrip
<1>3. Next /\ ~OnPhone => UNCHANGED phone
  BY DEF Next, Unit, LinkDrops, LinkReturns, GpsDataArrives, Answered
<1>4. TypeOK /\ TripInv /\ [Next]_vars => TripInv'
  BY <1>2, <1>3, GeoStepTrip DEF OnPhone, TypeOK, vars
<1>5. ASSUME TypeOK, TripInv, [Next]_vars
      PROVE  [Len(sent') > Len(sent) => sent'[Len(sent')] = trips]_<<phone, sent>>
  <2>1. CASE OnPhone
    BY <1>5, <2>1, PushesThisTrip DEF OnPhone, TypeOK
  <2>2. CASE Next /\ ~OnPhone
    <3>1. sent \in Seq(Nat)
      BY <1>5 DEF TypeOK, GeoTypeOK
    <3>2. sent' = sent \/ sent' = <<>> \/ (sent # <<>> /\ sent' = Tail(sent))
      BY <2>2 DEF Next, Unit, LinkDrops, LinkReturns, GpsDataArrives, Answered
    <3>3. ~(Len(sent') > Len(sent))
      BY <3>1, <3>2
    <3> QED
      BY <3>3
  <2>3. CASE UNCHANGED vars
    BY <2>3 DEF vars
  <2> QED
    BY <1>5, <2>1, <2>2, <2>3
<1> QED
  BY <1>1, <1>4, <1>5, PositionsTyped, PTL DEF Spec, OldPlacesStayHome

-----------------------------------------------------------------------------
(* The unit: how old a position it hands out can be *)

\* set_browser_position assigns the position before its stamp, so what is
\* stored is never older than the stamp says.
NoOlderThanStamp == \A age \in browser : age <= browserAt

\* Between the two assignments there is the new position or, if another
\* thread has cleared it meanwhile, none.
StoredAnew == call["loop"].at = "stamp" => browser \subseteq {0}

\* A thread about to copy the position has found the stamp within the TTL:
\* no tick falls within a call, and a stamp only makes it younger.
StampChecked == \A th \in Threads : call[th].at = "copy browser" => browserAt <= Ttl

YoungInv == NoOlderThanStamp /\ StoredAnew /\ StampChecked /\ NeverStale

\* Where a step of one thread leaves every thread.
LEMMA GotoLeaves ==
  ASSUME ResolverTypeOK, NEW th \in Threads, NEW at, Goto(th, at), NEW t \in Threads
  PROVE  /\ call'[t].at = call[t].at \/ call'[t].at = at
         /\ call'[t].answer = call[t].answer
BY DEF Goto, ResolverTypeOK

LEMMA ReturnsLeaves ==
  ASSUME ResolverTypeOK, NEW th \in Threads, NEW answer, Returns(th, answer), NEW t \in Threads
  PROVE  /\ call'[t].at = call[t].at \/ call'[t].at = "returned"
         /\ call'[t].answer = call[t].answer \/ call'[t].answer = answer
BY DEF Returns, ResolverTypeOK

\* The same, exactly.
LEMMA CallAfter ==
  ASSUME ResolverTypeOK, NEW th \in Threads, NEW at, NEW answer
  PROVE  /\ Goto(th, at) => \A t \in Threads :
              /\ call'[t].at = (IF t = th THEN at ELSE call[t].at)
              /\ call'[t].answer = call[t].answer
         /\ Returns(th, answer) => \A t \in Threads :
              /\ call'[t].at = (IF t = th THEN "returned" ELSE call[t].at)
              /\ call'[t].answer = (IF t = th THEN answer ELSE call[t].answer)
BY DEF Goto, Returns, ResolverTypeOK

\* Ageing keeps the order of two ages.
LEMMA OlderMonotone ==
  ASSUME NEW a \in Nat, NEW b \in Nat, a <= b
  PROVE  Older(a) <= Older(b)
BY ResolverAssumption DEF Older

\* What current() does keeps the positions young.
LEMMA CurrentStepYoung ==
  ASSUME ResolverTypeOK, YoungInv, NEW th \in Threads, CurrentStep(th)
  PROVE  YoungInv'
<1>1. "loop" \in Threads /\ Ttl \in Nat
  BY ResolverAssumption
<1>2. browserAt \in Nat /\ \A age \in browser : age \in Nat
  BY DEF ResolverTypeOK
<1>3. /\ Nothing.from # "browser" /\ Device("bettercap").from # "browser"
      /\ Device("gpsd").from # "browser"
      /\ \A age : Phone(age).age = age
  BY DEF Nothing, Device, Phone
<1>4. CASE ReadSnapshot(th)
  <2>1. UNCHANGED <<browser, browserAt>>
    BY <1>4 DEF ReadSnapshot, stored
  <2>2. \A t \in Threads :
          /\ call'[t].at = call[t].at \/ call'[t].at \in {"gpsd", "browser", "returned"}
          /\ call'[t].answer = call[t].answer \/ call'[t].answer.from # "browser"
    BY <1>3, <1>4, CallAfter DEF ReadSnapshot
  <2> QED
    BY <1>1, <2>1, <2>2
       DEF YoungInv, NoOlderThanStamp, StoredAnew, StampChecked, NeverStale
<1>5. CASE CheckGpsd(th) \/ CopyGpsd(th)
  <2>1. UNCHANGED <<browser, browserAt>>
    BY <1>5 DEF CheckGpsd, CopyGpsd, stored
  <2>2. \A t \in Threads :
          /\ \/ call'[t].at = call[t].at
             \/ call'[t].at \in {"copy gpsd", "browser", "returned", "raised"}
          /\ call'[t].answer = call[t].answer \/ call'[t].answer.from # "browser"
    <3>1. PICK at \in {"copy gpsd", "browser", "raised"} :
            Goto(th, at) \/ Returns(th, Device("gpsd"))
      BY <1>5 DEF CheckGpsd, CopyGpsd, Raises
    <3>2. CASE Goto(th, at)
      BY <3>1, <3>2, GotoLeaves
    <3>3. CASE Returns(th, Device("gpsd"))
      BY <1>3, <3>3, ReturnsLeaves
    <3> QED
      BY <3>1, <3>2, <3>3
  <2> QED
    BY <1>1, <2>1, <2>2
       DEF YoungInv, NoOlderThanStamp, StoredAnew, StampChecked, NeverStale
<1>6. CASE CheckBrowser(th) \/ CheckAge(th)
  <2>1. UNCHANGED <<browser, browserAt>>
    BY <1>6 DEF CheckBrowser, CheckAge, stored
  <2>2. \A t \in Threads :
          /\ \/ call'[t].at = call[t].at
             \/ call'[t].at \in {"age", "clear", "returned"}
             \/ call'[t].at = "copy browser" /\ browserAt <= Ttl
          /\ call'[t].answer = call[t].answer \/ call'[t].answer.from # "browser"
    <3>1. PICK at \in {"age", "clear", "copy browser"} :
            \/ Goto(th, at) /\ (at = "copy browser" => browserAt <= Ttl)
            \/ Returns(th, Nothing)
      BY <1>6 DEF CheckBrowser, CheckAge
    <3>2. CASE Goto(th, at) /\ (at = "copy browser" => browserAt <= Ttl)
      BY <3>1, <3>2, GotoLeaves
    <3>3. CASE Returns(th, Nothing)
      BY <1>3, <3>3, ReturnsLeaves
    <3> QED
      BY <3>1, <3>2, <3>3
  <2> QED
    BY <1>1, <2>1, <2>2
       DEF YoungInv, NoOlderThanStamp, StoredAnew, StampChecked, NeverStale
<1>7. CASE CopyBrowser(th)
  <2>1. UNCHANGED <<browser, browserAt>> /\ browserAt <= Ttl
    BY <1>7 DEF CopyBrowser, stored, YoungInv, StampChecked
  <2>2. \A age \in browser : age <= Ttl
    BY <1>1, <1>2, <2>1 DEF YoungInv, NoOlderThanStamp
  <2>3. \A t \in Threads :
          /\ call'[t].at = call[t].at \/ call'[t].at \in {"returned", "raised"}
          /\ \/ call'[t].answer = call[t].answer
             \/ \E age \in browser : call'[t].answer = Phone(age)
    BY <1>7, CallAfter DEF CopyBrowser, Raises
  <2>4. NoOlderThanStamp' /\ StoredAnew' /\ StampChecked'
    BY <1>1, <2>1, <2>3 DEF YoungInv, NoOlderThanStamp, StoredAnew, StampChecked
  <2>5. NeverStale'
    BY <1>3, <2>2, <2>3 DEF YoungInv, NeverStale
  <2> QED
    BY <2>4, <2>5 DEF YoungInv
<1>8. CASE ClearBrowser(th)
  <2>1. browser' = {} /\ browserAt' = browserAt
    BY <1>8 DEF ClearBrowser
  <2>2. \A t \in Threads :
          /\ call'[t].at = call[t].at \/ call'[t].at = "returned"
          /\ call'[t].answer = call[t].answer \/ call'[t].answer.from # "browser"
    BY <1>3, <1>8, CallAfter DEF ClearBrowser
  <2> QED
    BY <1>1, <2>1, <2>2
       DEF YoungInv, NoOlderThanStamp, StoredAnew, StampChecked, NeverStale
<1> QED
  BY <1>4, <1>5, <1>6, <1>7, <1>8 DEF CurrentStep

\* So does every other step of the resolver.
LEMMA ResolverStepYoung ==
  ASSUME ResolverTypeOK, YoungInv, ResolverNext
  PROVE  YoungInv'
<1>1. "loop" \in Threads /\ Ttl \in Nat
  BY ResolverAssumption
<1>2. browserAt \in Nat /\ \A age \in browser : age \in Nat
  BY DEF ResolverTypeOK
<1>3. CASE StampPosition
  <2>1. browserAt' = 0 /\ browser' = browser /\ \A age \in browser : age = 0
    BY <1>3 DEF StampPosition, YoungInv, StoredAnew
  <2>2. \A t \in Threads :
          /\ call'[t].at = call[t].at \/ call'[t].at = "enter"
          /\ call'[t].answer = call[t].answer
    BY <1>1, <1>3, CallAfter DEF StampPosition
  <2>3. NoOlderThanStamp' /\ StampChecked'
    <3>1. 0 <= 0 /\ 0 <= Ttl
      BY <1>1
    <3>2. \A age \in browser' : age <= browserAt'
      BY <2>1, <3>1, Zenon
    <3>3. browserAt' <= Ttl
      BY <2>1, <3>1
    <3> QED
      BY <3>2, <3>3, Zenon DEF NoOlderThanStamp, StampChecked
  <2>4. StoredAnew'
    BY <2>1, Zenon DEF StoredAnew
  <2>5. NeverStale'
    BY <2>2 DEF YoungInv, NeverStale
  <2> QED
    BY <2>3, <2>4, <2>5 DEF YoungInv
<1>4. ASSUME NEW th \in Threads, CurrentStep(th) PROVE YoungInv'
  BY <1>4, CurrentStepYoung
<1>5. CASE RefreshSession \/ RefreshGpsd
  BY <1>5 DEF RefreshSession, RefreshGpsd, stored,
              YoungInv, NoOlderThanStamp, StoredAnew, StampChecked, NeverStale
<1>6. CASE Tick
  <2>1. call' = call /\ \A t \in Threads : call[t].at = "idle"
    BY <1>6 DEF Tick
  <2>2. ASSUME NEW age \in browser' PROVE age <= browserAt'
    <3>1. PICK a \in browser : age = Older(a)
      BY <1>6, <2>2 DEF Tick
    <3>2. a <= browserAt
      BY <3>1 DEF YoungInv, NoOlderThanStamp
    <3> QED
      BY <1>2, <1>6, <3>1, <3>2, OlderMonotone DEF Tick
  <2>3. NoOlderThanStamp'
    BY <2>2 DEF NoOlderThanStamp
  <2>4. StoredAnew' /\ StampChecked'
    BY <1>1, <2>1 DEF StoredAnew, StampChecked
  <2>5. NeverStale'
    BY <2>1 DEF YoungInv, NeverStale
  <2> QED
    BY <2>3, <2>4, <2>5 DEF YoungInv
<1> QED
  BY <1>3, <1>4, <1>5, <1>6 DEF ResolverNext

\* Whatever the threads of the unit do between two accesses to the cache, no
\* caller of current() is handed a pushed position older than the TTL.
THEOREM NoStalePosition == Spec => []NeverStale
<1>1. Init => YoungInv
  <2>1. "loop" \in Threads
    BY ResolverAssumption
  <2>2. ASSUME Init
        PROVE  browser = {} /\ \A th \in Threads : call[th] = Resting
    BY <2>2 DEF Init, ResolverInit
  <2>3. Resting.at = "idle" /\ Resting.answer.from = "none"
    BY DEF Resting, Nothing
  <2> QED
    BY <2>1, <2>2, <2>3
       DEF YoungInv, NoOlderThanStamp, StoredAnew, StampChecked, NeverStale
<1>2. TypeOK /\ YoungInv /\ [Next]_vars => YoungInv'
  <2> SUFFICES ASSUME TypeOK, YoungInv, [Next]_vars
               PROVE  YoungInv'
    OBVIOUS
  <2>1. ResolverTypeOK /\ "loop" \in Threads /\ Ttl \in Nat
    BY ResolverAssumption DEF TypeOK
  <2>2. CASE Unit
    BY <2>1, <2>2, ResolverStepYoung DEF Unit
  <2>3. UNCHANGED resolver => YoungInv'
    BY DEF resolver, caches, stored,
           YoungInv, NoOlderThanStamp, StoredAnew, StampChecked, NeverStale
  <2>4. CASE GpsDataArrives
    <3>1. browser' = {0} /\ browserAt' = browserAt
      BY <2>4 DEF GpsDataArrives, StorePosition
    <3>2. \A t \in Threads :
            /\ call'[t].at = call[t].at \/ call'[t].at = "stamp"
            /\ call'[t].answer = call[t].answer
      BY <2>1, <2>4, CallAfter DEF GpsDataArrives, StorePosition
    <3>3. browserAt \in Nat
      BY <2>1 DEF ResolverTypeOK
    <3>4. NoOlderThanStamp' /\ StoredAnew'
      BY <3>1, <3>3 DEF NoOlderThanStamp, StoredAnew
    <3>5. StampChecked' /\ NeverStale'
      BY <3>1, <3>2 DEF YoungInv, StampChecked, NeverStale
    <3> QED
      BY <3>4, <3>5 DEF YoungInv
  <2>5. ASSUME NEW th \in Threads, Answered(th) PROVE YoungInv'
    <3>1. UNCHANGED <<browser, browserAt>>
      BY <2>5 DEF Answered, stored
    <3>2. \A t \in Threads :
            \/ call'[t] = call[t]
            \/ call'[t].at = "idle" /\ call'[t].answer.from = "none"
      BY <2>1, <2>5 DEF Answered, Resting, Nothing, ResolverTypeOK
    <3> QED
      BY <2>1, <3>1, <3>2
         DEF YoungInv, NoOlderThanStamp, StoredAnew, StampChecked, NeverStale
  <2>6. CASE OnPhone \/ LinkDrops \/ LinkReturns \/ UNCHANGED vars
    BY <2>3, <2>6 DEF OnPhone, LinkDrops, LinkReturns, vars
  <2> QED
    BY <2>2, <2>4, <2>5, <2>6 DEF Next
<1>3. YoungInv => NeverStale
  BY DEF YoungInv
<1> QED
  BY <1>1, <1>2, <1>3, PositionsTyped, PTL DEF Spec
=============================================================================
