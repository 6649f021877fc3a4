--------------------------- MODULE CapturesProofs ---------------------------
(***************************************************************************)
(* For any captures, clients and faults: the sidecars that were there when *)
(* the hook of companion.py began stay, the refreshes of stores.ts are one *)
(* at a time and do not disturb one another, and what a push announced is  *)
(* on the list that follows it.                                            *)
(***************************************************************************)
EXTENDS Captures, FiniteSetTheorems, WellFoundedInduction, TLAPS

HookOK ==
  /\ hook \in [at : {"idle", "check", "open", "close", "push"}, f : Names \cup {"none"}, had : BOOLEAN]
  /\ hook.at # "idle" => hook.f \in Names
  /\ events \in Seq(Names)
  /\ sidecar \in [Names -> {"none", "torn", "ours", "stock"}]

\* Until the test, what was there still is; past it, there was nothing.
Looked ==
  /\ hook.at = "check" /\ hook.had => sidecar[hook.f] # "none"
  /\ hook.at \in {"open", "close"} => ~hook.had

WInv == HookOK /\ Looked

RefreshOK ==
  /\ client \in Clients /\ owner \in Clients \cup {0}
  /\ call \in [Clients -> Nat] /\ pending \in [Clients -> SUBSET Nat] /\ settling \subseteq Clients

\* Only the current client waits, for one request, and as the owner. What has
\* settled waits no more.
OneWaits ==
  /\ \A c \in Clients : c # client => pending[c] = {}
  /\ \A n, m \in pending[client] : n = m
  /\ pending[client] # {} => owner = client
  /\ \A c \in settling : pending[c] = {}
  /\ owner # 0 => pending[owner] # {} \/ owner \in settling

RInv == RefreshOK /\ OneWaits

USE DEF history, unit, phone, away

-----------------------------------------------------------------------------
(* The sidecar *)

LEMMA WriterStarts == Init => WInv
  BY DEF Init, WInv, HookOK, Looked, Nobody

LEMMA WriterHolds == WInv /\ [Next]_vars => WInv'
  <1> SUFFICES ASSUME WInv, [Next]_vars
               PROVE  WInv'
    OBVIOUS
  <1> USE DEF WInv, HookOK, Looked
  <1>1. ASSUME NEW f \in Names, Captured(f) PROVE WInv'
    BY <1>1 DEF Captured
  <1>2. ASSUME NEW f \in Names, Removed(f) PROVE WInv'
    BY <1>2 DEF Removed
  <1>3. CASE HookBegins
    <2>1. Head(events) \in Names /\ Tail(events) \in Seq(Names)
      BY <1>3 DEF HookBegins
    <2>2. PICK at \in {"check", "push"} :
            hook' = [at |-> at, f |-> Head(events), had |-> sidecar[Head(events)] # "none"]
      BY <1>3 DEF HookBegins
    <2>3. (sidecar[Head(events)] # "none") \in BOOLEAN
      OBVIOUS
    <2>4. hook' \in [at : {"idle", "check", "open", "close", "push"}, f : Names \cup {"none"}, had : BOOLEAN]
      BY <2>1, <2>2, <2>3, Zenon
    <2>5. hook'.at \in {"check", "push"} /\ hook'.f = Head(events)
          /\ (hook'.had => sidecar[Head(events)] # "none")
      BY <2>2, Zenon
    <2>6. events' \in Seq(Names) /\ sidecar' = sidecar
      BY <1>3, <2>1 DEF HookBegins
    <2> QED
      BY <2>1, <2>4, <2>5, <2>6
  <1>4. CASE CheckExists
    BY <1>4 DEF CheckExists, Hook
  <1>5. CASE OpenSidecar
    BY <1>5 DEF OpenSidecar, Hook
  <1>6. CASE CloseSidecar
    BY <1>6 DEF CloseSidecar, Hook
  <1>7. CASE PushHandshake
    BY <1>7 DEF PushHandshake, Nobody
  <1>8. CASE StockOpens
    BY <1>8 DEF StockOpens
  <1>9. CASE StockWrites
    BY <1>9 DEF StockWrites
  <1>10. CASE PowerCut
    BY <1>10 DEF PowerCut, Nobody
  <1>11. CASE Loop \/ Phone \/ LinkDrops \/ LinkReturns \/ NextClient \/ UNCHANGED vars
    <2>1. UNCHANGED <<hook, events, sidecar>>
      BY <1>11 DEF Loop, Phone, LoopSends, ListBegins, ListReads, ListSends, StallEnds, PushArrives,
         ListArrives, ViewAsks, TimesOut, Settled, LinkDrops, LinkReturns, NextClient, vars
    <2> QED
      BY <2>1
  <1> QED
    BY <1>1, <1>2, <1>3, <1>4, <1>5, <1>6, <1>7, <1>8, <1>9, <1>10, <1>11
    DEF Next, HookSteps, Environment

LEMMA WriterSpares ==
  WInv /\ [Next]_vars =>
    [\A f \in Names :
       sidecar[f] # sidecar'[f] /\ hook.f = f /\ hook' # hook => ~hook.had]_vars
  <1> SUFFICES ASSUME WInv, Next, NEW f \in Names, sidecar[f] # sidecar'[f], hook' # hook
               PROVE  ~hook.had
    OBVIOUS
  <1>1. CASE OpenSidecar \/ CloseSidecar
    BY <1>1 DEF OpenSidecar, CloseSidecar, WInv, Looked
  <1>2. CASE ~(OpenSidecar \/ CloseSidecar)
    <2>1. UNCHANGED sidecar \/ UNCHANGED hook
      BY <1>2 DEF Next, HookSteps, Environment, Loop, Phone, LoopSends, ListBegins, ListReads, ListSends,
         StallEnds, PushArrives, ListArrives, ViewAsks, TimesOut, Settled, LinkDrops, LinkReturns,
         NextClient, Captured, Removed, HookBegins, CheckExists, PushHandshake, StockOpens,
         StockWrites, PowerCut
    <2> QED
      BY <2>1
  <1> QED
    BY <1>1, <1>2

\* write_sidecar never touches a sidecar that was there when on_handshake began,
\* whoever else writes and whenever the power goes.
THEOREM OldSidecarsSpared == Spec => OldSidecarsStay
  BY WriterStarts, WriterHolds, WriterSpares, PTL DEF Spec, OldSidecarsStay

-----------------------------------------------------------------------------
(* The refresh *)

LEMMA RefreshStarts == Init => RInv
  BY CapturesAssumption DEF Init, RInv, RefreshOK, OneWaits, Clients, CapturesAssumption

\* A refresh that is sent is the only one.
LEMMA RefreshIsAlone ==
  ASSUME RInv, Refresh, client \notin settling, UNCHANGED <<client, settling>>
  PROVE  RInv'
  <1>1. CASE owner = client
    BY <1>1 DEF RInv, RefreshOK, OneWaits, Refresh
  <1>2. CASE owner # client
    <2>1. /\ owner' = client /\ client # 0
          /\ call' = [call EXCEPT ![client] = @ + 1]
          /\ pending' = [pending EXCEPT ![client] = {call[client] + 1}]
      BY <1>2 DEF RInv, RefreshOK, OneWaits, Refresh, Clients
    <2> QED
      BY <2>1 DEF RInv, RefreshOK, OneWaits
  <1> QED
    BY <1>1, <1>2

\* A promise that settles leaves nothing waiting, and its handlers to run.
LEMMA SettleEmpties ==
  ASSUME RInv, NEW ids, Settle(ids), UNCHANGED <<client, call, owner>>
  PROVE  RInv' /\ (ids = pending[client] => pending'[client] = {})
  <1>1. CASE pending[client] \cap ids = {}
    BY <1>1 DEF RInv, RefreshOK, OneWaits, Settle
  <1>2. CASE pending[client] \cap ids # {}
    <2>1. pending[client] \ ids = {}
      BY <1>2 DEF RInv, OneWaits
    <2>2. pending' = [pending EXCEPT ![client] = {}] /\ settling' = settling \cup {client}
      BY <1>2, <2>1 DEF Settle
    <2> QED
      BY <2>2 DEF RInv, RefreshOK, OneWaits
  <1> QED
    BY <1>1, <1>2

LEMMA RefreshHolds == RInv /\ [Next]_vars => RInv'
  <1> SUFFICES ASSUME RInv, [Next]_vars
               PROVE  RInv'
    OBVIOUS
  <1>1. CASE PushArrives
    BY <1>1, RefreshIsAlone DEF PushArrives
  <1>2. CASE ListArrives
    BY <1>2, SettleEmpties DEF ListArrives
  <1>3. CASE ViewAsks
    BY <1>3, RefreshIsAlone DEF ViewAsks
  <1>4. CASE TimesOut
    BY <1>4, SettleEmpties DEF TimesOut
  <1>5. ASSUME NEW c \in Clients, Settled(c) PROVE RInv'
    BY <1>5 DEF Settled, RInv, RefreshOK, OneWaits, Clients
  <1>6. CASE NextClient
    <2>1. client' = client + 1 /\ client' \in Clients
      BY <1>6, CapturesAssumption DEF NextClient, RInv, RefreshOK, Clients, CapturesAssumption
    <2>2. pending' = [pending EXCEPT ![client] = {}] /\ UNCHANGED <<owner, call>> /\ settling = {}
      BY <1>6 DEF NextClient, Settle
    <2>3. settling' = IF pending[client] = {} THEN {} ELSE {client}
      BY <1>6, <2>2 DEF NextClient, Settle
    <2> QED
      BY <2>1, <2>2, <2>3 DEF RInv, RefreshOK, OneWaits, Clients
  <1>7. CASE HookSteps \/ Loop \/ UNCHANGED vars
    <2>1. UNCHANGED <<client, owner, call, pending, settling>>
      BY <1>7 DEF HookSteps, Loop, HookBegins, CheckExists, OpenSidecar, CloseSidecar, PushHandshake,
         LoopSends, ListBegins, ListReads, ListSends, StallEnds, vars
    <2> QED
      BY <2>1 DEF RInv, RefreshOK, OneWaits
  <1>8. CASE Environment /\ ~NextClient
    <2>1. UNCHANGED <<client, owner, call, pending, settling>>
      BY <1>8 DEF Environment, Captured, Removed, StockOpens, StockWrites, LinkDrops, LinkReturns, PowerCut
    <2> QED
      BY <2>1 DEF RInv, RefreshOK, OneWaits
  <1> QED
    BY <1>1, <1>2, <1>3, <1>4, <1>5, <1>6, <1>7, <1>8 DEF Next, Phone

LEMMA OneIfAlone == RInv => OneRefreshInFlight
  <1> SUFFICES ASSUME RInv, NEW c \in Clients
               PROVE  Cardinality(pending[c]) <= 1
    BY DEF RInv, OneWaits, OneRefreshInFlight
  <1>1. pending[c] = {} \/ \E n : pending[c] = {n}
    BY DEF RInv, RefreshOK, OneWaits
  <1>2. CASE pending[c] = {}
    BY <1>2, FS_EmptySet
  <1>3. CASE \E n : pending[c] = {n}
    <2>1. Cardinality(pending[c]) = 1
      BY <1>3, FS_Singleton
    <2> QED
      BY <2>1
  <1> QED
    BY <1>1, <1>2, <1>3

\* createCoalescedRefresh of stores.ts has one request of a client in flight at
\* most, and whoever owns the refresh frees it: no client of the session waits
\* for another's, and none ends another's.
THEOREM RefreshesAreAlone == Spec => []OneRefreshInFlight
  BY RefreshStarts, RefreshHolds, OneIfAlone, PTL DEF Spec

-----------------------------------------------------------------------------
(* What was announced *)

Elements(s) == {s[i] : i \in 1 .. Len(s)}

Entries == [f : Names, mtime : Nat, pinned : BOOLEAN]
Pushes == [kind : {"push"}, f : Names, mtime : Nat, pinned : BOOLEAN]
Lists == [kind : {"list"}, n : Nat, entries : SUBSET Entries]

\* The disk keeps what a push has said of a capture.
Kept(f, p) ==
  f \notin removed =>
    /\ 0 < p.mtime /\ p.mtime <= mtime[f]
    /\ p.pinned /\ f \notin Contested => Whole(sidecar[f])

\* An entry says it too; a list does, or is full of newer captures.
Meets(f, e, p) ==
  /\ e.f = f /\ e.mtime >= p.mtime
  /\ p.pinned /\ f \notin Contested => e.pinned
Covers(f, entries, p) ==
  \/ \E e \in entries : Meets(f, e, p)
  \/ Cardinality({e \in entries : e.mtime > p.mtime}) >= Limit

\* For what was announced before place k of the way to the phone: the listing
\* under way will tell, or has, and so do the lists that follow.
Tells(f, p) ==
  listing.at = "read" => f \in listing.todo \/ \E e \in listing.out : Meets(f, e, p)
Behind(f, p, k) ==
  \A j \in 1 .. Len(toPhone) :
    j > k /\ toPhone[j].kind = "list" => Covers(f, toPhone[j].entries, p)
Told(f, p, k) == f \notin removed => Tells(f, p) /\ Behind(f, p, k)

Disk ==
  /\ shots \in Nat /\ removed \subseteq Names
  /\ mtime \in [Names -> Nat] /\ \A f \in Names : mtime[f] <= shots
  /\ stock \in [at : {"idle", "opens", "writes"}, f : Names \cup {"none"}]
  /\ stock.at # "idle" => stock.f \in Contested
  /\ \A f \in Elements(events) : f \notin removed => mtime[f] > 0
  /\ hook.at # "idle" /\ hook.f \notin removed => mtime[hook.f] > 0
  /\ hook.at = "open" /\ hook.f \notin Contested => sidecar[hook.f] = "none"
  /\ hook.at = "close" /\ hook.f \notin Contested => sidecar[hook.f] = "torn"

Ways ==
  /\ scheduled \in Seq(Pushes) /\ toPhone \in Seq(Pushes \cup Lists)
  /\ due \in [Names -> [mtime : Nat, pinned : BOOLEAN]]
  /\ stalled \in Nat
  /\ listing \in [at : {"none", "read", "acked"}, n : Nat, todo : SUBSET Names, out : SUBSET Entries]
  /\ IsFiniteSet(listing.out) /\ \A e \in listing.out : e.mtime <= shots
  /\ listing.at = "acked" => stalled > 0
  /\ toUnit \in Nat

\* Every push, from the loop to the phone, is about what is on the disk.
Truthful ==
  /\ \A p \in Elements(scheduled) : Kept(p.f, p)
  /\ \A p \in Elements(toPhone) : p.kind = "push" => Kept(p.f, p)
  /\ \A f \in Names : due[f] # NothingDue => Kept(f, due[f])

\* While the loop has not waited, no list is behind a push it does not cover.
Covered ==
  stalled = 0 =>
    /\ \A i \in 1 .. Len(toPhone) : toPhone[i].kind = "push" => Told(toPhone[i].f, toPhone[i], i)
    /\ \A f \in Names : due[f] # NothingDue => Told(f, due[f], 0)
    /\ pending[client] = {} =>
         \A f \in Names \ removed : due[f] # NothingDue => Covers(f, list, due[f])

LInv == WInv /\ RInv /\ Disk /\ Ways /\ Truthful /\ Covered

-----------------------------------------------------------------------------
(* The list keeps the newest *)

LEMMA LeastNumber ==
  ASSUME NEW T, T \subseteq Nat, T # {}
  PROVE  \E x \in T : \A y \in T : x <= y
  <1> DEFINE R == OpToRel(<, Nat)
  <1>1. IsWellFoundedOn(R, Nat)
    BY NatLessThanWellFounded, Zenon
  <1>2. ASSUME NEW x \in Nat, NEW y \in Nat, y < x
        PROVE  <<y, x>> \in R
    BY <1>2 DEF OpToRel
  <1> HIDE DEF R
  <1>3. PICK x \in T : \A y \in T : ~(<<y, x>> \in R)
    BY <1>1, WFMin
  <1>4. ASSUME NEW y \in T
        PROVE  x <= y
    <2>1. <<y, x>> \notin R
      BY <1>3
    <2>2. x \in Nat /\ y \in Nat
      OBVIOUS
    <2>3. ~(y < x)
      BY <1>2, <2>1, <2>2
    <2> QED
      BY <2>2, <2>3
  <1> QED
    BY <1>4

\* One entry of a bounded set is the newest.
LEMMA NewestEntry ==
  ASSUME NEW S \in SUBSET Entries, S # {}, NEW b \in Nat, \A e \in S : e.mtime <= b
  PROVE  \E d \in S : \A e \in S : e.mtime <= d.mtime
  <1>1. \A e \in S : e.mtime \in Nat
    BY DEF Entries
  <1> DEFINE T == {b - e.mtime : e \in S}
  <1>2. T \subseteq Nat /\ T # {}
    BY <1>1
  <1>3. PICK x \in T : \A y \in T : x <= y
    BY <1>2, LeastNumber
  <1>4. PICK d \in S : x = b - d.mtime
    OBVIOUS
  <1>5. ASSUME NEW e \in S
        PROVE  e.mtime <= d.mtime
    <2>1. b - d.mtime <= b - e.mtime
      BY <1>3, <1>4
    <2>2. d.mtime \in Nat /\ e.mtime \in Nat
      BY <1>1
    <2> QED
      BY <2>1, <2>2
  <1> QED
    BY <1>5

Above(S, m) == {e \in S : e.mtime > m}

\* What the limit cuts off has the limit's number of newer entries, all kept.
LEMMA CutHasNewer ==
  ASSUME NEW S \in SUBSET Entries, IsFiniteSet(S), NEW b \in Nat, \A e \in S : e.mtime <= b,
         NEW e \in S, e \notin Newest(S)
  PROVE  \E m \in Nat : /\ e.mtime <= m /\ Above(S, m) \subseteq Newest(S)
                        /\ Cardinality(Above(S, m)) >= Limit
  <1>1. \A d \in S : d.mtime \in Nat
    BY DEF Entries
  <1>2. Limit \in Nat
    BY CapturesAssumption DEF CapturesAssumption
  <1>3. ASSUME NEW d \in S, d \notin Newest(S)
        PROVE  Cardinality(Above(S, d.mtime)) >= Limit
    <2>1. IsFiniteSet(Above(S, d.mtime))
      BY FS_Subset DEF Above
    <2>2. Cardinality(Above(S, d.mtime)) \in Nat
      BY <2>1, FS_CardinalityType
    <2>3. ~(Cardinality(Above(S, d.mtime)) < Limit)
      BY <1>3 DEF Newest, Above
    <2> QED
      BY <1>2, <2>2, <2>3
  <1> DEFINE C == {d \in S : d.mtime >= e.mtime /\ d \notin Newest(S)}
  <1>4. C \in SUBSET Entries /\ C # {} /\ \A d \in C : d.mtime <= b
    BY <1>1
  <1>5. PICK d \in C : \A x \in C : x.mtime <= d.mtime
    BY <1>4, NewestEntry
  <1>6. Above(S, d.mtime) \subseteq Newest(S)
    <2> SUFFICES ASSUME NEW x \in S, x.mtime > d.mtime, x \notin Newest(S)
                 PROVE  FALSE
      BY DEF Above
    <2>1. x \in C
      BY <1>1, <1>5
    <2> QED
      BY <1>1, <1>5, <2>1
  <1> QED
    BY <1>1, <1>3, <1>5, <1>6

LEMMA NewestCovers ==
  ASSUME NEW S \in SUBSET Entries, IsFiniteSet(S), NEW b \in Nat, \A e \in S : e.mtime <= b,
         NEW f, NEW p, p.mtime \in Nat, NEW e \in S, Meets(f, e, p)
  PROVE  Covers(f, Newest(S), p)
  <1>1. CASE e \in Newest(S)
    BY <1>1 DEF Covers
  <1>2. CASE e \notin Newest(S)
    <2>1. PICK m \in Nat : /\ e.mtime <= m /\ Above(S, m) \subseteq Newest(S)
                           /\ Cardinality(Above(S, m)) >= Limit
      BY <1>2, CutHasNewer
    <2> DEFINE newer == {d \in Newest(S) : d.mtime > p.mtime}
    <2>2. \A d \in S : d.mtime \in Nat
      BY DEF Entries
    <2>3. Above(S, m) \subseteq newer
      BY <2>1, <2>2 DEF Above, Meets
    <2>4. newer \subseteq S
      BY DEF Newest
    <2>5. IsFiniteSet(newer) /\ IsFiniteSet(Above(S, m))
      <3> HIDE DEF newer
      <3>1. IsFiniteSet(newer)
        BY <2>4, FS_Subset
      <3> QED
        BY <3>1, <2>3, FS_Subset
    <2>6. Cardinality(Above(S, m)) <= Cardinality(newer)
      BY <2>3, <2>5, FS_Subset
    <2>7. Cardinality(newer) \in Nat /\ Cardinality(Above(S, m)) \in Nat /\ Limit \in Nat
      BY <2>5, FS_CardinalityType, CapturesAssumption DEF CapturesAssumption
    <2>8. Cardinality(newer) >= Limit
      BY <2>1, <2>6, <2>7
    <2> QED
      BY <2>8 DEF Covers
  <1> QED
    BY <1>1, <1>2

-----------------------------------------------------------------------------
(* The way of a push *)

LEMMA TailElements ==
  ASSUME NEW S, NEW s \in Seq(S), s # <<>>
  PROVE  /\ Head(s) \in S /\ Tail(s) \in Seq(S)
         /\ Head(s) \in Elements(s) /\ Elements(Tail(s)) \subseteq Elements(s)
         /\ Len(s) \in Nat \ {0} /\ Head(s) = s[1]
         /\ Len(Tail(s)) = Len(s) - 1 /\ \A i \in 1 .. Len(s) - 1 : Tail(s)[i] = s[i + 1]
  <1>1. /\ Head(s) \in S /\ Tail(s) \in Seq(S)
        /\ Len(s) \in Nat \ {0} /\ Head(s) = s[1]
        /\ Len(Tail(s)) = Len(s) - 1 /\ \A i \in 1 .. Len(s) - 1 : Tail(s)[i] = s[i + 1]
    OBVIOUS
  <1>2. \A i \in 1 .. Len(s) - 1 : i + 1 \in 1 .. Len(s)
    BY <1>1
  <1>3. Head(s) \in Elements(s)
    BY <1>1 DEF Elements
  <1>4. Elements(Tail(s)) \subseteq Elements(s)
    BY <1>1, <1>2 DEF Elements
  <1> QED
    BY <1>1, <1>3, <1>4

LEMMA AppendElements ==
  ASSUME NEW S, NEW s \in Seq(S), NEW x \in S
  PROVE  /\ Append(s, x) \in Seq(S)
         /\ Elements(Append(s, x)) = Elements(s) \cup {x}
         /\ Len(Append(s, x)) = Len(s) + 1 /\ Append(s, x)[Len(s) + 1] = x
         /\ \A i \in 1 .. Len(s) : Append(s, x)[i] = s[i]
  <1>1. /\ Append(s, x) \in Seq(S) /\ Len(s) \in Nat
        /\ Len(Append(s, x)) = Len(s) + 1 /\ Append(s, x)[Len(s) + 1] = x
        /\ \A i \in 1 .. Len(s) : Append(s, x)[i] = s[i]
    OBVIOUS
  <1>2. ASSUME NEW i \in 1 .. Len(s) + 1
        PROVE  i \in 1 .. Len(s) \/ i = Len(s) + 1
    BY <1>1
  <1>3. Elements(Append(s, x)) \subseteq Elements(s) \cup {x}
    BY <1>1, <1>2 DEF Elements
  <1>4. Elements(s) \cup {x} \subseteq Elements(Append(s, x))
    BY <1>1 DEF Elements
  <1> QED
    BY <1>1, <1>3, <1>4

LEMMA ElementsIn ==
  ASSUME NEW S, NEW s \in Seq(S)
  PROVE  Elements(s) \subseteq S
  BY DEF Elements

LEMMA NoElements == Elements(<<>>) = {}
  BY DEF Elements

LEMMA ListingStarts == Init => LInv
  <1> SUFFICES ASSUME Init
               PROVE  LInv
    OBVIOUS
  <1>1. Disk
    BY NoElements DEF Init, Disk, Nobody
  <1>2. Ways
    BY FS_EmptySet DEF Init, Ways, Forget, NothingDue, NoListing
  <1>3. Truthful
    BY NoElements DEF Init, Truthful, Forget
  <1>4. Covered
    BY DEF Init, Covered, Forget
  <1> QED
    BY <1>1, <1>2, <1>3, <1>4, WriterStarts, RefreshStarts DEF LInv

LEMMA DiskHolds ==
  ASSUME LInv, Next
  PROVE  Disk'
  <1> USE DEF Disk
  <1>1. Disk /\ WInv /\ HookOK
    BY DEF LInv, WInv
  <1>2. ASSUME NEW f \in Names, Captured(f) PROVE Disk'
    <2>1. /\ shots' = shots + 1 /\ mtime' = [mtime EXCEPT ![f] = shots + 1]
          /\ stock' = stock \/ (f \in Contested /\ stock' = [at |-> "opens", f |-> f])
          /\ events' = Append(events, f)
          /\ UNCHANGED <<removed, sidecar, hook>>
      BY <1>2 DEF Captured
    <2>2. Elements(events') = Elements(events) \cup {f} /\ Elements(events) \subseteq Names
      BY <1>1, <2>1, AppendElements, ElementsIn DEF HookOK
    <2>3. /\ mtime' \in [Names -> Nat] /\ mtime'[f] = shots + 1
          /\ \A g \in Names : mtime[g] <= mtime'[g] /\ mtime'[g] <= shots'
      BY <1>1, <2>1
    <2>4. hook'.at # "idle" => hook.f \in Names
      BY <1>1, <2>1 DEF HookOK
    <2> QED
      BY <1>1, <2>1, <2>2, <2>3, <2>4
  <1>3. ASSUME NEW f \in Names, Removed(f) PROVE Disk'
    <2>1. Elements(events) \subseteq Names
      BY <1>1, ElementsIn DEF HookOK
    <2>2. hook.at # "idle" => hook.f \in Names
      BY <1>1 DEF HookOK
    <2> QED
      BY <1>1, <1>3, <2>1, <2>2 DEF Removed, HookOK
  <1>4. CASE HookBegins
    <2>1. Head(events) \in Elements(events) /\ Elements(Tail(events)) \subseteq Elements(events)
      BY <1>1, <1>4, TailElements DEF HookBegins, HookOK
    <2>2. hook'.f = Head(events) /\ hook'.at \in {"check", "push"}
      BY <1>4 DEF HookBegins
    <2> QED
      BY <1>1, <1>4, <2>1, <2>2 DEF HookBegins
  <1>5. CASE CheckExists
    <2>1. hook'.f = hook.f /\ hook'.at = IF sidecar[hook.f] = "none" THEN "open" ELSE "push"
      BY <1>1, <1>5 DEF CheckExists, Hook, HookOK
    <2> QED
      BY <1>1, <1>5, <2>1 DEF CheckExists
  <1>6. CASE OpenSidecar
    <2>1. /\ hook'.f = hook.f /\ hook.f \in Names /\ hook.at = "open"
          /\ \/ hook'.at = "close" /\ sidecar' = [sidecar EXCEPT ![hook.f] = "torn"]
             \/ hook'.at = "push" /\ sidecar' = sidecar
      BY <1>1, <1>6 DEF OpenSidecar, Hook, HookOK
    <2> QED
      BY <1>1, <1>6, <2>1 DEF OpenSidecar, HookOK
  <1>7. CASE CloseSidecar
    <2>1. hook'.f = hook.f /\ hook'.at = "push" /\ hook.at = "close"
      BY <1>1, <1>7 DEF CloseSidecar, Hook, HookOK
    <2> QED
      BY <1>1, <1>7, <2>1 DEF CloseSidecar
  <1>8. CASE PushHandshake
    BY <1>1, <1>8 DEF PushHandshake, Nobody
  <1>9. CASE StockOpens \/ StockWrites
    <2>1. /\ stock.f \in Contested /\ (stock'.at # "idle" => stock'.f \in Contested)
          /\ stock' \in [at : {"idle", "opens", "writes"}, f : Names \cup {"none"}]
          /\ UNCHANGED <<shots, removed, mtime, hook, events>>
      BY <1>1, <1>9 DEF StockOpens, StockWrites
    <2>2. \A g \in Names \ Contested : sidecar'[g] = sidecar[g]
      BY <1>1, <1>9, <2>1 DEF StockOpens, StockWrites, HookOK
    <2>3. hook.at # "idle" => hook.f \in Names
      BY <1>1 DEF HookOK
    <2> QED
      BY <1>1, <2>1, <2>2, <2>3
  <1>10. CASE PowerCut
    BY <1>1, <1>10, NoElements DEF PowerCut, Nobody
  <1>11. CASE Loop \/ Phone \/ LinkDrops \/ LinkReturns \/ NextClient
    <2>1. UNCHANGED <<shots, removed, mtime, stock, events, hook, sidecar>>
      BY <1>11 DEF Loop, Phone, LoopSends, ListBegins, ListReads, ListSends, StallEnds, PushArrives,
         ListArrives, ViewAsks, TimesOut, Settled, LinkDrops, LinkReturns, NextClient
    <2> QED
      BY <1>1, <2>1
  <1> QED
    BY <1>2, <1>3, <1>4, <1>5, <1>6, <1>7, <1>8, <1>9, <1>10, <1>11 DEF Next, HookSteps, Environment

LEMMA AnnounceType ==
  ASSUME LInv, NEW f \in Names
  PROVE  Announce(f) \in Pushes /\ [f |-> f, mtime |-> mtime[f], pinned |-> Whole(sidecar[f])] \in Entries
  <1>1. mtime[f] \in Nat /\ Whole(sidecar[f]) \in BOOLEAN
    BY DEF LInv, Disk, Whole
  <1> QED
    BY <1>1 DEF Announce, Pushes, Entries

LEMMA ReplyType ==
  ASSUME LInv
  PROVE  Reply \in Lists /\ Reply.kind = "list" /\ Reply.entries = Newest(listing.out)
  <1>1. Newest(listing.out) \subseteq Entries /\ listing.n \in Nat
    BY DEF LInv, Ways, Newest
  <1> QED
    BY <1>1 DEF Reply, Lists

\* An entry of a listing stays within the newest capture there is.
LEMMA ReadsType ==
  ASSUME LInv, NEW f \in Names, ListReads(f)
  PROVE  /\ listing'.at = "read" /\ listing'.todo = listing.todo \ {f} /\ listing'.n = listing.n
         /\ listing'.out = IF mtime[f] = 0 THEN listing.out
              ELSE listing.out \cup {[f |-> f, mtime |-> mtime[f], pinned |-> Whole(sidecar[f])]}
         /\ listing' \in [at : {"none", "read", "acked"}, n : Nat, todo : SUBSET Names, out : SUBSET Entries]
         /\ IsFiniteSet(listing'.out) /\ \A e \in listing'.out : e.mtime <= shots
  <1> DEFINE x == [f |-> f, mtime |-> mtime[f], pinned |-> Whole(sidecar[f])]
             out == IF mtime[f] = 0 THEN listing.out ELSE listing.out \cup {x}
  <1>1. /\ listing \in [at : {"none", "read", "acked"}, n : Nat, todo : SUBSET Names, out : SUBSET Entries]
        /\ listing.at = "read"
        /\ listing' = [listing EXCEPT !.todo = listing.todo \ {f}, !.out = out]
    BY DEF ListReads, LInv, Ways
  <1>2. x \in Entries /\ x.mtime <= shots
    BY AnnounceType DEF LInv, Disk
  <1> HIDE DEF x
  <1>3. out \in SUBSET Entries /\ IsFiniteSet(out) /\ \A e \in out : e.mtime <= shots
    BY <1>2, FS_AddElement DEF LInv, Ways
  <1> HIDE DEF out
  <1>4. /\ listing'.at = "read" /\ listing'.todo = listing.todo \ {f} /\ listing'.n = listing.n
        /\ listing'.out = out
        /\ listing' \in [at : {"none", "read", "acked"}, n : Nat, todo : SUBSET Names, out : SUBSET Entries]
    BY <1>1, <1>3
  <1> QED
    BY <1>3, <1>4 DEF out, x

LEMMA WaysHolds ==
  ASSUME LInv, Next
  PROVE  Ways'
  <1>1. Ways /\ Disk /\ RefreshOK
    BY DEF LInv, RInv
  <1>2. \A s : s \in Seq(Pushes \cup Lists) /\ s # <<>> => Tail(s) \in Seq(Pushes \cup Lists)
    OBVIOUS
  <1>3. NoListing \in [at : {"none", "read", "acked"}, n : Nat, todo : SUBSET Names, out : SUBSET Entries]
        /\ IsFiniteSet(NoListing.out) /\ NoListing.at = "none" /\ NoListing.out = {}
    BY FS_EmptySet DEF NoListing
  <1>4. Forget \in [Names -> [mtime : Nat, pinned : BOOLEAN]]
    BY DEF Forget, NothingDue
  <1>5. Refresh => toUnit' \in Nat
    BY <1>1 DEF Refresh, Ways, RefreshOK
  <1>6. ASSUME NEW f \in Names, Captured(f) PROVE Ways'
    <2>1. shots' = shots + 1 /\ UNCHANGED <<scheduled, toPhone, due, stalled, listing, toUnit>>
      BY <1>6 DEF Captured
    <2>2. \A e \in listing.out : e.mtime \in Nat
      BY <1>1 DEF Ways, Entries
    <2> QED
      BY <1>1, <2>1, <2>2 DEF Ways, Disk
  <1>7. CASE PushHandshake
    <2>1. \/ scheduled' = scheduled
          \/ scheduled' = Append(scheduled, Announce(hook.f)) /\ hook.f \in Names
      BY <1>7 DEF PushHandshake, LInv, WInv, HookOK
    <2>2. ASSUME NEW x \in Pushes, scheduled' = Append(scheduled, x) PROVE scheduled' \in Seq(Pushes)
      BY <1>1, <2>2, AppendElements DEF Ways
    <2>3. scheduled' \in Seq(Pushes)
      BY <1>1, <2>1, <2>2, AnnounceType DEF Ways
    <2> QED
      BY <1>1, <1>7, <2>3 DEF PushHandshake, Ways
  <1>8. CASE LoopSends
    <2>1. Tail(scheduled) \in Seq(Pushes) /\ Head(scheduled) \in Pushes \cup Lists
      BY <1>1, <1>8, TailElements DEF LoopSends, Ways
    <2>2. toPhone' \in Seq(Pushes \cup Lists)
      BY <1>1, <1>8, <2>1, AppendElements DEF LoopSends, Ways
    <2> QED
      BY <1>1, <1>8, <2>1, <2>2 DEF LoopSends, Ways
  <1>9. CASE ListBegins
    BY <1>1, <1>9, FS_EmptySet DEF ListBegins, Ways
  <1>10. ASSUME NEW f \in Names, ListReads(f) PROVE Ways'
    <2>1. UNCHANGED <<scheduled, toPhone, due, stalled, toUnit, shots>>
      BY <1>10 DEF ListReads
    <2> QED
      BY <1>1, <1>10, <2>1, ReadsType DEF Ways
  <1>11. CASE ListSends \/ StallEnds
    <2>1. \/ toPhone' = Append(toPhone, Reply) /\ listing' = NoListing /\ stalled' = stalled
          \/ stalled' = stalled + 1 /\ listing' = [listing EXCEPT !.at = "acked"] /\ toPhone' = toPhone
      BY <1>11 DEF ListSends, StallEnds
    <2>2. UNCHANGED <<scheduled, due, toUnit, shots>>
      BY <1>11 DEF ListSends, StallEnds
    <2>3. CASE toPhone' = Append(toPhone, Reply) /\ listing' = NoListing /\ stalled' = stalled
      <3>1. toPhone' \in Seq(Pushes \cup Lists)
        BY <1>1, <2>3, ReplyType, AppendElements DEF Ways
      <3> QED
        BY <1>1, <1>3, <2>2, <2>3, <3>1 DEF Ways
    <2>4. CASE stalled' = stalled + 1 /\ listing' = [listing EXCEPT !.at = "acked"] /\ toPhone' = toPhone
      <3>1. /\ listing' \in [at : {"none", "read", "acked"}, n : Nat, todo : SUBSET Names, out : SUBSET Entries]
            /\ listing'.out = listing.out
        BY <1>1, <2>4 DEF Ways
      <3>2. stalled' \in Nat /\ stalled' > 0
        BY <1>1, <2>4 DEF Ways
      <3> QED
        BY <1>1, <2>2, <2>4, <3>1, <3>2 DEF Ways
    <2> QED
      BY <2>1, <2>3, <2>4
  <1>12. CASE PushArrives
    <2>1. Head(toPhone) \in Pushes
      BY <1>1, <1>12, TailElements DEF PushArrives, Ways, Lists
    <2>2. due' \in [Names -> [mtime : Nat, pinned : BOOLEAN]]
      BY <1>1, <1>12, <2>1 DEF PushArrives, Ways, Pushes
    <2> QED
      BY <1>1, <1>2, <1>5, <1>12, <2>2 DEF PushArrives, Ways
  <1>13. CASE ListArrives
    BY <1>1, <1>2, <1>13 DEF ListArrives, Ways
  <1>14. CASE ViewAsks
    BY <1>1, <1>5, <1>14 DEF ViewAsks, Ways
  <1>15. CASE TimesOut
    BY <1>1, <1>4, <1>15 DEF TimesOut, Ways
  <1>16. CASE LinkReturns
    BY <1>1, <1>16 DEF LinkReturns, Ways, RefreshOK
  <1>17. CASE LinkDrops \/ NextClient \/ PowerCut
    <2>1. /\ toPhone' = <<>> /\ toUnit' = 0 /\ listing' = NoListing /\ shots' = shots
          /\ scheduled' = scheduled \/ scheduled' = <<>>
          /\ stalled' = stalled \/ stalled' = 0
          /\ due' = due \/ due' = Forget
      BY <1>17 DEF LinkDrops, NextClient, PowerCut
    <2>2. /\ <<>> \in Seq(Pushes) /\ <<>> \in Seq(Pushes \cup Lists)
      OBVIOUS
    <2>3. scheduled' \in Seq(Pushes) /\ stalled' \in Nat /\ due' \in [Names -> [mtime : Nat, pinned : BOOLEAN]]
      <3>1. scheduled' \in Seq(Pushes)
        BY <1>1, <2>1, <2>2 DEF Ways
      <3>2. stalled' \in Nat
        BY <1>1, <2>1 DEF Ways
      <3>3. due' \in [Names -> [mtime : Nat, pinned : BOOLEAN]]
        BY <1>1, <1>4, <2>1 DEF Ways
      <3> QED
        BY <3>1, <3>2, <3>3
    <2>4. /\ listing' \in [at : {"none", "read", "acked"}, n : Nat, todo : SUBSET Names, out : SUBSET Entries]
          /\ IsFiniteSet(listing'.out) /\ listing'.at = "none" /\ listing'.out = {}
      BY <1>3, <2>1
    <2> QED
      BY <2>1, <2>2, <2>3, <2>4 DEF Ways
  <1>18. CASE \/ HookSteps /\ ~PushHandshake
              \/ StockOpens \/ StockWrites \/ \E f \in Names : Removed(f)
              \/ \E c \in Clients : Settled(c)
    <2>1. UNCHANGED <<scheduled, toPhone, due, stalled, listing, toUnit, shots>>
      BY <1>18 DEF HookSteps, HookBegins, CheckExists, OpenSidecar, CloseSidecar, StockOpens,
         StockWrites, Removed, Settled
    <2> QED
      BY <1>1, <2>1 DEF Ways
  <1> QED
    BY <1>6, <1>7, <1>8, <1>9, <1>10, <1>11, <1>12, <1>13, <1>14, <1>15, <1>16, <1>17, <1>18
    DEF Next, HookSteps, Environment, Loop, Phone

LEMMA RemovedGrows == Next => removed \subseteq removed'
  <1> SUFFICES ASSUME Next
               PROVE  removed \subseteq removed'
    OBVIOUS
  <1>1. CASE \E g \in Names : Removed(g)
    BY <1>1 DEF Removed
  <1>2. CASE ~\E g \in Names : Removed(g)
    BY <1>2 DEF Next, HookSteps, Environment, Loop, Phone, LoopSends, ListBegins, ListReads, ListSends,
       StallEnds, PushArrives, ListArrives, ViewAsks, TimesOut, Settled, LinkDrops, LinkReturns,
       NextClient, Captured, HookBegins, CheckExists, OpenSidecar, CloseSidecar, PushHandshake,
       StockOpens, StockWrites, PowerCut
  <1> QED
    BY <1>1, <1>2

\* What the disk keeps of a capture it keeps until the capture is removed: the
\* hook writes beside it once, and leaves alone what is whole.
LEMMA KeptStays ==
  ASSUME LInv, Next, NEW f \in Names, NEW p, p.mtime \in Nat, Kept(f, p)
  PROVE  Kept(f, p)'
  <1>1. /\ Disk /\ sidecar \in [Names -> {"none", "torn", "ours", "stock"}]
        /\ mtime \in [Names -> Nat] /\ shots \in Nat /\ mtime[f] \in Nat /\ mtime[f] <= shots
        /\ hook.at # "idle" => hook.f \in Names
    BY DEF LInv, WInv, HookOK, Disk
  <1>2. removed \subseteq removed'
    BY RemovedGrows
  <1> SUFFICES ASSUME f \notin removed'
               PROVE  Kept(f, p)'
    BY DEF Kept
  <1>3. 0 < p.mtime /\ p.mtime <= mtime[f] /\ (p.pinned /\ f \notin Contested => Whole(sidecar[f]))
    BY <1>2 DEF Kept
  <1>4. mtime[f] <= mtime'[f] /\ mtime'[f] \in Nat
    <2>1. ASSUME NEW g \in Names, Captured(g) \/ Removed(g) PROVE mtime[f] <= mtime'[f] /\ mtime'[f] \in Nat
      BY <1>1, <2>1 DEF Captured, Removed
    <2>2. CASE ~\E g \in Names : Captured(g) \/ Removed(g)
      <3>1. mtime' = mtime
        BY <2>2 DEF Next, HookSteps, Environment, Loop, Phone, LoopSends, ListBegins, ListReads, ListSends,
           StallEnds, PushArrives, ListArrives, ViewAsks, TimesOut, Settled, LinkDrops, LinkReturns,
           NextClient, HookBegins, CheckExists, OpenSidecar, CloseSidecar, PushHandshake,
           StockOpens, StockWrites, PowerCut
      <3> QED
        BY <1>1, <3>1
    <2> QED
      BY <2>1, <2>2
  <1>5. ASSUME f \notin Contested, Whole(sidecar[f])
        PROVE  sidecar'[f] = sidecar[f]
    <2>1. ASSUME NEW g \in Names, Removed(g) PROVE sidecar'[f] = sidecar[f]
      BY <1>1, <2>1 DEF Removed
    <2>2. CASE OpenSidecar
      BY <1>1, <1>5, <2>2 DEF OpenSidecar, Disk, Whole
    <2>3. CASE CloseSidecar
      BY <1>1, <1>5, <2>3 DEF CloseSidecar, Disk, Whole
    <2>4. CASE StockOpens \/ StockWrites
      BY <1>1, <1>5, <2>4 DEF StockOpens, StockWrites, Disk
    <2>5. CASE ~(OpenSidecar \/ CloseSidecar \/ StockOpens \/ StockWrites \/ \E g \in Names : Removed(g))
      BY <2>5 DEF Next, HookSteps, Environment, Loop, Phone, LoopSends, ListBegins, ListReads, ListSends,
         StallEnds, PushArrives, ListArrives, ViewAsks, TimesOut, Settled, LinkDrops, LinkReturns,
         NextClient, Captured, HookBegins, CheckExists, PushHandshake, PowerCut
    <2> QED
      BY <2>1, <2>2, <2>3, <2>4, <2>5
  <1> QED
    BY <1>1, <1>3, <1>4, <1>5 DEF Kept

LEMMA TruthfulHolds ==
  ASSUME LInv, Next
  PROVE  Truthful'
  <1>1. Truthful /\ Disk /\ Ways /\ HookOK
    BY DEF LInv, WInv
  <1>2. \A p \in Elements(scheduled) : p \in Pushes /\ Kept(p.f, p)
    BY <1>1, ElementsIn DEF Truthful, Ways
  <1>3. \A p \in Elements(toPhone) : p.kind = "push" => p \in Pushes /\ Kept(p.f, p)
    BY <1>1, ElementsIn DEF Truthful, Ways, Lists
  <1>4. \A p \in Elements(scheduled') : p \in Pushes /\ Kept(p.f, p)
    <2>1. CASE PushHandshake
      <3>1. hook.f \in Names /\ (hook.f \notin removed => mtime[hook.f] > 0)
        BY <1>1, <2>1 DEF PushHandshake, HookOK, Disk
      <3>2. PICK x \in Pushes : x = Announce(hook.f)
        BY <3>1, AnnounceType
      <3>3. x.f = hook.f /\ x.mtime = mtime[x.f] /\ x.pinned = Whole(sidecar[x.f])
        BY <3>2 DEF Announce
      <3>4. Kept(x.f, x)
        BY <1>1, <3>1, <3>3 DEF Kept, Disk
      <3>5. Elements(scheduled') = Elements(scheduled) \/ Elements(scheduled') = Elements(scheduled) \cup {x}
        <4>1. scheduled' = scheduled \/ scheduled' = Append(scheduled, x)
          BY <2>1, <3>2 DEF PushHandshake
        <4>2. Elements(Append(scheduled, x)) = Elements(scheduled) \cup {x}
          BY <1>1, AppendElements DEF Ways
        <4> QED
          BY <4>1, <4>2
      <3> QED
        BY <1>2, <3>4, <3>5
    <2>2. CASE LoopSends
      <3>1. Elements(scheduled') \subseteq Elements(scheduled)
        BY <1>1, <2>2, TailElements DEF LoopSends, Ways
      <3> QED
        BY <1>2, <3>1
    <2>3. CASE PowerCut
      BY <2>3, NoElements DEF PowerCut
    <2>4. CASE ~(PushHandshake \/ LoopSends \/ PowerCut)
      <3>1. scheduled' = scheduled
        BY <2>4 DEF Next, HookSteps, Environment, Loop, Phone, ListBegins, ListReads, ListSends,
           StallEnds, PushArrives, ListArrives, ViewAsks, TimesOut, Settled, LinkDrops, LinkReturns,
           NextClient, Captured, Removed, HookBegins, CheckExists, OpenSidecar, CloseSidecar,
           StockOpens, StockWrites
      <3> QED
        BY <1>2, <3>1
    <2> QED
      BY <2>1, <2>2, <2>3, <2>4
  <1>5. \A p \in Elements(toPhone') : p.kind = "push" => p \in Pushes /\ Kept(p.f, p)
    <2>1. CASE LoopSends
      <3>1. Head(scheduled) \in Elements(scheduled) /\ Head(scheduled) \in Pushes \cup Lists
        BY <1>1, <2>1, TailElements DEF LoopSends, Ways
      <3>2. Elements(toPhone') \subseteq Elements(toPhone) \cup {Head(scheduled)}
        BY <1>1, <2>1, <3>1, AppendElements DEF LoopSends, Ways
      <3> QED
        BY <1>2, <1>3, <3>1, <3>2
    <2>2. CASE ListSends \/ StallEnds
      <3>1. Reply \in Pushes \cup Lists /\ Reply.kind = "list"
        BY ReplyType
      <3>2. Elements(toPhone') \subseteq Elements(toPhone) \cup {Reply}
        <4>1. toPhone' = toPhone \/ toPhone' = Append(toPhone, Reply)
          BY <2>2 DEF ListSends, StallEnds
        <4>2. Elements(Append(toPhone, Reply)) = Elements(toPhone) \cup {Reply}
          BY <1>1, <3>1, AppendElements DEF Ways
        <4> QED
          BY <4>1, <4>2
      <3> QED
        BY <1>3, <3>1, <3>2
    <2>3. CASE PushArrives \/ ListArrives
      <3>1. Elements(toPhone') \subseteq Elements(toPhone)
        BY <1>1, <2>3, TailElements DEF PushArrives, ListArrives, Ways
      <3> QED
        BY <1>3, <3>1
    <2>4. CASE LinkDrops \/ NextClient \/ PowerCut
      BY <2>4, NoElements DEF LinkDrops, NextClient, PowerCut
    <2>5. CASE ~(LoopSends \/ ListSends \/ StallEnds \/ PushArrives \/ ListArrives \/ LinkDrops \/ NextClient \/ PowerCut)
      <3>1. toPhone' = toPhone
        BY <2>5 DEF Next, HookSteps, Environment, Loop, Phone, ListBegins, ListReads,
           ViewAsks, TimesOut, Settled, LinkReturns, Captured, Removed, HookBegins, CheckExists,
           OpenSidecar, CloseSidecar, PushHandshake, StockOpens, StockWrites
      <3> QED
        BY <1>3, <3>1
    <2> QED
      BY <2>1, <2>2, <2>3, <2>4, <2>5
  <1>6. ASSUME NEW f \in Names, NEW p, p = due'[f], p # NothingDue
        PROVE  p.mtime \in Nat /\ Kept(f, p)
    <2>1. due[f] # NothingDue => due[f].mtime \in Nat /\ Kept(f, due[f])
      BY <1>1 DEF Truthful, Ways
    <2>2. CASE PushArrives
      <3>1. Head(toPhone) \in Elements(toPhone) /\ Head(toPhone).kind = "push"
        BY <1>1, <2>2, TailElements DEF PushArrives, Ways
      <3>2. PICK m \in Pushes : m = Head(toPhone) /\ Kept(m.f, m)
        BY <1>3, <3>1
      <3>3. due' = [due EXCEPT ![m.f] = [mtime |-> m.mtime, pinned |-> m.pinned]]
        BY <2>2, <3>2 DEF PushArrives
      <3>4. CASE f = m.f
        <4>1. p = [mtime |-> m.mtime, pinned |-> m.pinned]
          BY <1>1, <1>6, <3>3, <3>4 DEF Ways
        <4>2. p.mtime = m.mtime /\ p.pinned = m.pinned /\ m.mtime \in Nat
          BY <4>1 DEF Pushes
        <4> QED
          BY <3>2, <3>4, <4>2 DEF Kept
      <3>5. CASE f # m.f
        BY <1>1, <1>6, <2>1, <3>3, <3>5 DEF Ways
      <3> QED
        BY <3>4, <3>5
    <2>3. CASE TimesOut \/ NextClient
      BY <1>6, <2>3 DEF TimesOut, NextClient, Forget
    <2>4. CASE ~(PushArrives \/ TimesOut \/ NextClient)
      <3>1. due' = due
        BY <2>4 DEF Next, HookSteps, Environment, Loop, Phone, LoopSends, ListBegins, ListReads, ListSends,
           StallEnds, ListArrives, ViewAsks, Settled, LinkDrops, LinkReturns,
           Captured, Removed, HookBegins, CheckExists, OpenSidecar, CloseSidecar, PushHandshake,
           StockOpens, StockWrites, PowerCut
      <3> QED
        BY <1>6, <2>1, <3>1
    <2> QED
      BY <2>2, <2>3, <2>4
  <1>7. ASSUME NEW p \in Elements(scheduled')
        PROVE  Kept(p.f, p)'
    BY <1>4, <1>7, KeptStays DEF Pushes
  <1>8. ASSUME NEW p \in Elements(toPhone'), p.kind = "push"
        PROVE  Kept(p.f, p)'
    BY <1>5, <1>8, KeptStays DEF Pushes
  <1>9. ASSUME NEW f \in Names, NEW p, p = due'[f], p # NothingDue
        PROVE  Kept(f, p)'
    BY <1>6, <1>9, KeptStays
  <1> QED
    BY <1>7, <1>8, <1>9 DEF Truthful, Kept, Elements

-----------------------------------------------------------------------------
(* No list behind a push misses it *)

\* A listing that starts has the capture ahead of it, one that goes on tells
\* what it has told, and reads what the disk has kept.
LEMMA ListingTells ==
  ASSUME LInv, Next, NEW f \in Names, NEW p, p.mtime \in Nat, f \notin removed, Kept(f, p), Tells(f, p)
  PROVE  Tells(f, p)'
  <1>1. 0 < p.mtime /\ p.mtime <= mtime[f] /\ (p.pinned /\ f \notin Contested => Whole(sidecar[f]))
    BY DEF Kept
  <1>2. mtime[f] \in Nat
    BY DEF LInv, Disk
  <1>3. CASE ListBegins
    BY <1>1, <1>2, <1>3 DEF ListBegins, Tells
  <1>4. ASSUME NEW g \in Names, ListReads(g) PROVE Tells(f, p)'
    <2>1. /\ listing'.todo = listing.todo \ {g} /\ listing.out \subseteq listing'.out
          /\ g = f => [f |-> f, mtime |-> mtime[f], pinned |-> Whole(sidecar[f])] \in listing'.out
          /\ listing.at = "read"
      <3> DEFINE x == [f |-> f, mtime |-> mtime[f], pinned |-> Whole(sidecar[f])]
                 y == [f |-> g, mtime |-> mtime[g], pinned |-> Whole(sidecar[g])]
      <3>1. /\ listing'.todo = listing.todo \ {g} /\ listing.at = "read"
            /\ listing'.out = IF mtime[g] = 0 THEN listing.out ELSE listing.out \cup {y}
        BY <1>4, ReadsType DEF ListReads
      <3>2. g = f => mtime[g] # 0 /\ x = y
        BY <1>1, <1>2
      <3> HIDE DEF x, y
      <3>3. listing.out \subseteq listing'.out /\ (g = f => x \in listing'.out)
        BY <3>1, <3>2
      <3> QED
        BY <3>1, <3>3 DEF x
    <2>2. Meets(f, [f |-> f, mtime |-> mtime[f], pinned |-> Whole(sidecar[f])], p)
      BY <1>1, <1>2 DEF Meets
    <2>3. f \in listing'.todo \/ \E e \in listing'.out : Meets(f, e, p)
      BY <2>1, <2>2 DEF Tells
    <2> QED
      BY <2>3 DEF Tells, Meets
  <1>5. CASE ListSends \/ StallEnds \/ LinkDrops \/ NextClient \/ PowerCut
    <2>1. listing'.at # "read"
      BY <1>5 DEF LInv, Ways, ListSends, StallEnds, LinkDrops, NextClient, PowerCut, NoListing
    <2> QED
      BY <2>1 DEF Tells
  <1>6. CASE ~(ListBegins \/ (\E g \in Names : ListReads(g)) \/ ListSends \/ StallEnds
               \/ LinkDrops \/ NextClient \/ PowerCut)
    <2>1. listing' = listing
      BY <1>6 DEF Next, HookSteps, Environment, Loop, Phone, LoopSends, PushArrives, ListArrives,
         ViewAsks, TimesOut, Settled, LinkReturns, Captured, Removed, HookBegins, CheckExists,
         OpenSidecar, CloseSidecar, PushHandshake, StockOpens, StockWrites
    <2> QED
      BY <2>1 DEF Tells, Meets
  <1> QED
    BY <1>3, <1>4, <1>5, <1>6

\* What a listing has told is in its reply, or newer captures fill that.
LEMMA ReplyCovers ==
  ASSUME LInv, NEW f \in Names, NEW p, p.mtime \in Nat, Tells(f, p),
         listing.at = "read", listing.todo = {}
  PROVE  Covers(f, Reply.entries, p)
  <1>1. /\ listing.out \in SUBSET Entries /\ IsFiniteSet(listing.out)
        /\ shots \in Nat /\ \A e \in listing.out : e.mtime <= shots
    BY DEF LInv, Ways, Disk
  <1>2. PICK e \in listing.out : Meets(f, e, p)
    BY DEF Tells
  <1>3. PICK S \in SUBSET Entries, b \in Nat :
          S = listing.out /\ IsFiniteSet(S) /\ \A x \in S : x.mtime <= b
    BY <1>1
  <1>4. Covers(f, Newest(S), p)
    BY <1>2, <1>3, NewestCovers
  <1> QED
    BY <1>3, <1>4, ReplyType

\* What is on its way while the loop has not waited.
LEMMA PushesTold ==
  ASSUME LInv, stalled = 0
  PROVE  /\ \A i \in 1 .. Len(toPhone) : toPhone[i].kind = "push" =>
              /\ toPhone[i] \in Pushes /\ Kept(toPhone[i].f, toPhone[i])
              /\ Told(toPhone[i].f, toPhone[i], i)
         /\ \A f \in Names : due[f] # NothingDue =>
              due[f].mtime \in Nat /\ Kept(f, due[f]) /\ Told(f, due[f], 0)
         /\ pending[client] = {} =>
              \A f \in Names \ removed : due[f] # NothingDue => Covers(f, list, due[f])
  <1>1. Covered /\ Truthful /\ Ways
    BY DEF LInv
  <1>2. ASSUME NEW i \in 1 .. Len(toPhone), toPhone[i].kind = "push"
        PROVE  toPhone[i] \in Pushes /\ Kept(toPhone[i].f, toPhone[i])
    BY <1>1, <1>2 DEF Truthful, Elements, Ways, Lists
  <1>3. ASSUME NEW f \in Names, due[f] # NothingDue
        PROVE  due[f].mtime \in Nat /\ Kept(f, due[f])
    BY <1>1, <1>3 DEF Truthful, Ways
  <1> QED
    BY <1>1, <1>2, <1>3 DEF Covered

\* Covered after a step, piece by piece.
LEMMA CoveredAfter ==
  ASSUME stalled' = 0 =>
    /\ \A i \in 1 .. Len(toPhone') : \A p :
         p = toPhone'[i] /\ p.kind = "push" /\ p.f \notin removed' => Tells(p.f, p)' /\ Behind(p.f, p, i)'
    /\ \A f \in Names : \A p :
         p = due'[f] /\ p # NothingDue /\ f \notin removed' =>
           /\ Tells(f, p)' /\ Behind(f, p, 0)'
           /\ pending'[client'] = {} => Covers(f, list', p)
  PROVE  Covered'
  <1> SUFFICES ASSUME stalled' = 0
               PROVE  Covered'
    BY DEF Covered
  <1>1. ASSUME NEW i \in 1 .. Len(toPhone'), toPhone'[i].kind = "push"
        PROVE  Told(toPhone[i].f, toPhone[i], i)'
    <2>1. PICK p : p = toPhone'[i]
      OBVIOUS
    <2>2. p.f \notin removed' => Tells(p.f, p)' /\ Behind(p.f, p, i)'
      BY <1>1, <2>1
    <2> QED
      BY <2>1, <2>2 DEF Told, Tells, Behind, Covers, Meets
  <1>2. ASSUME NEW f \in Names, due'[f] # NothingDue
        PROVE  Told(f, due[f], 0)' /\ (pending'[client'] = {} /\ f \notin removed' => Covers(f, list, due[f])')
    <2>1. PICK p : p = due'[f]
      OBVIOUS
    <2>2. f \notin removed' =>
            /\ Tells(f, p)' /\ Behind(f, p, 0)'
            /\ pending'[client'] = {} => Covers(f, list', p)
      BY <1>2, <2>1
    <2> QED
      BY <2>1, <2>2 DEF Told, Tells, Behind, Covers, Meets
  <1>3. \A i \in 1 .. Len(toPhone') : toPhone'[i].kind = "push" => Told(toPhone[i].f, toPhone[i], i)'
    BY <1>1
  <1>4. \A f \in Names : due'[f] # NothingDue => Told(f, due[f], 0)'
    BY <1>2
  <1>5. pending'[client'] = {} =>
          \A f \in Names \ removed' : due'[f] # NothingDue => Covers(f, list, due[f])'
    BY <1>2
  <1> QED
    BY <1>3, <1>4, <1>5 DEF Covered

\* A step that neither sends nor takes a frame.
LEMMA StillCovered ==
  ASSUME LInv, Next, UNCHANGED <<toPhone, due, list, stalled>>,
         pending'[client'] = {} => pending[client] = {}
  PROVE  Covered'
  <1> SUFFICES ASSUME stalled = 0
               PROVE  Covered'
    BY DEF Covered
  <1>1. removed \subseteq removed'
    BY RemovedGrows
  <1>2. ASSUME NEW i \in 1 .. Len(toPhone'), NEW p, p = toPhone'[i], p.kind = "push", p.f \notin removed'
        PROVE  Tells(p.f, p)' /\ Behind(p.f, p, i)'
    <2>1. p \in Pushes /\ Kept(p.f, p) /\ Told(p.f, p, i)
      BY <1>2, PushesTold
    <2>2. Tells(p.f, p) /\ Behind(p.f, p, i) /\ p.f \notin removed
      BY <1>1, <1>2, <2>1 DEF Told
    <2>3. Tells(p.f, p)'
      BY <2>1, <2>2, ListingTells DEF Pushes
    <2>4. Behind(p.f, p, i)'
      BY <2>2 DEF Behind, Covers, Meets
    <2> QED
      BY <2>3, <2>4
  <1>3. ASSUME NEW f \in Names, NEW p, p = due'[f], p # NothingDue, f \notin removed'
        PROVE  /\ Tells(f, p)' /\ Behind(f, p, 0)'
               /\ pending'[client'] = {} => Covers(f, list', p)
    <2>1. p.mtime \in Nat /\ Kept(f, p) /\ Told(f, p, 0)
      BY <1>3, PushesTold
    <2>2. Tells(f, p) /\ Behind(f, p, 0) /\ f \notin removed
      BY <1>1, <1>3, <2>1 DEF Told
    <2>3. Tells(f, p)'
      BY <2>1, <2>2, ListingTells
    <2>4. Behind(f, p, 0)'
      BY <2>2 DEF Behind, Covers, Meets
    <2>5. pending'[client'] = {} => Covers(f, list', p)
      BY <1>3, <2>2, PushesTold
    <2> QED
      BY <2>3, <2>4, <2>5
  <1> QED
    BY <1>2, <1>3, CoveredAfter

\* A frame that is sent: a push has no list behind it and no listing under way,
\* a list covers all that was announced before it.
LEMMA SentIsCovered ==
  ASSUME LInv, Next, NEW x \in Pushes \cup Lists, toPhone' = Append(toPhone, x),
         UNCHANGED <<due, list, pending, client, stalled>>,
         x.kind = "push" => listing'.at # "read",
         \A f \in Names : \A p :
           stalled = 0 /\ p.mtime \in Nat /\ Tells(f, p) /\ x.kind = "list" => Covers(f, x.entries, p)
  PROVE  Covered'
  <1> SUFFICES ASSUME stalled = 0
               PROVE  Covered'
    BY DEF Covered
  <1>1. removed \subseteq removed'
    BY RemovedGrows
  <1>2. /\ Len(toPhone) \in Nat /\ Len(toPhone') = Len(toPhone) + 1 /\ toPhone'[Len(toPhone) + 1] = x
        /\ \A i \in 1 .. Len(toPhone) : toPhone'[i] = toPhone[i]
    BY AppendElements DEF LInv, Ways
  <1>3. ASSUME NEW f \in Names, NEW p, p.mtime \in Nat, NEW k \in Nat, Tells(f, p), Behind(f, p, k)
        PROVE  Behind(f, p, k)'
    <2>1. ASSUME NEW j \in 1 .. Len(toPhone'), j > k, toPhone'[j].kind = "list"
          PROVE  Covers(f, toPhone'[j].entries, p)
      <3>1. CASE j = Len(toPhone) + 1
        BY <1>2, <1>3, <2>1, <3>1
      <3>2. CASE j # Len(toPhone) + 1
        <4>1. j \in 1 .. Len(toPhone)
          BY <1>2, <3>2
        <4> QED
          BY <1>2, <1>3, <2>1, <4>1 DEF Behind
      <3> QED
        BY <3>1, <3>2
    <2> QED
      BY <2>1 DEF Behind, Covers, Meets
  <1>4. ASSUME NEW i \in 1 .. Len(toPhone'), NEW p, p = toPhone'[i], p.kind = "push", p.f \notin removed'
        PROVE  Tells(p.f, p)' /\ Behind(p.f, p, i)'
    <2>1. CASE i = Len(toPhone) + 1
      <3>1. listing'.at # "read"
        BY <1>2, <1>4, <2>1
      <3>2. \A j \in 1 .. Len(toPhone') : ~(j > i)
        BY <1>2, <2>1
      <3> QED
        BY <3>1, <3>2 DEF Tells, Behind
    <2>2. CASE i # Len(toPhone) + 1
      <3>1. i \in 1 .. Len(toPhone) /\ i \in Nat
        BY <1>2, <2>2
      <3>2. p \in Pushes /\ Kept(p.f, p) /\ Told(p.f, p, i)
        BY <1>2, <1>4, <3>1, PushesTold
      <3>3. Tells(p.f, p) /\ Behind(p.f, p, i) /\ p.f \notin removed
        BY <1>1, <1>4, <3>2 DEF Told
      <3>4. Tells(p.f, p)'
        BY <3>2, <3>3, ListingTells DEF Pushes
      <3>5. Behind(p.f, p, i)'
        BY <1>3, <3>1, <3>2, <3>3 DEF Pushes
      <3> QED
        BY <3>4, <3>5
    <2> QED
      BY <2>1, <2>2
  <1>5. ASSUME NEW f \in Names, NEW p, p = due'[f], p # NothingDue, f \notin removed'
        PROVE  /\ Tells(f, p)' /\ Behind(f, p, 0)'
               /\ pending'[client'] = {} => Covers(f, list', p)
    <2>1. p.mtime \in Nat /\ Kept(f, p) /\ Told(f, p, 0)
      BY <1>5, PushesTold
    <2>2. Tells(f, p) /\ Behind(f, p, 0) /\ f \notin removed
      BY <1>1, <1>5, <2>1 DEF Told
    <2>3. Tells(f, p)'
      BY <2>1, <2>2, ListingTells
    <2>4. Behind(f, p, 0)'
      BY <1>3, <2>1, <2>2
    <2>5. pending'[client'] = {} => Covers(f, list', p)
      BY <1>5, <2>2, PushesTold
    <2> QED
      BY <2>3, <2>4, <2>5
  <1> QED
    BY <1>4, <1>5, CoveredAfter

\* A frame that is taken: what is behind it moves one place up.
LEMMA TakenMovesUp ==
  ASSUME LInv, toPhone # <<>>, toPhone' = Tail(toPhone), NEW f, NEW p, NEW k \in Nat, Behind(f, p, k + 1)
  PROVE  Behind(f, p, k)'
  <1>1. /\ Len(toPhone) \in Nat /\ Len(toPhone') = Len(toPhone) - 1
        /\ \A i \in 1 .. Len(toPhone) - 1 : toPhone'[i] = toPhone[i + 1]
    BY TailElements DEF LInv, Ways
  <1>2. ASSUME NEW j \in 1 .. Len(toPhone'), j > k, toPhone'[j].kind = "list"
        PROVE  Covers(f, toPhone'[j].entries, p)
    <2>1. j + 1 \in 1 .. Len(toPhone) /\ j + 1 > k + 1 /\ toPhone'[j] = toPhone[j + 1]
      BY <1>1, <1>2
    <2> QED
      BY <1>2, <2>1 DEF Behind
  <1> QED
    BY <1>2 DEF Behind, Covers, Meets

LEMMA TakenStaysTold ==
  ASSUME LInv, Next, stalled = 0, toPhone # <<>>, toPhone' = Tail(toPhone),
         NEW i \in 1 .. Len(toPhone'), NEW p, p = toPhone'[i], p.kind = "push", p.f \notin removed'
  PROVE  Tells(p.f, p)' /\ Behind(p.f, p, i)'
  <1>1. i \in Nat /\ i + 1 \in 1 .. Len(toPhone) /\ p = toPhone[i + 1]
    BY TailElements DEF LInv, Ways
  <1>2. p \in Pushes /\ Kept(p.f, p) /\ Told(p.f, p, i + 1)
    BY <1>1, PushesTold
  <1>3. Tells(p.f, p) /\ Behind(p.f, p, i + 1) /\ p.f \notin removed
    BY <1>2, RemovedGrows DEF Told
  <1>4. Tells(p.f, p)'
    BY <1>2, <1>3, ListingTells DEF Pushes
  <1>5. Behind(p.f, p, i)'
    BY <1>1, <1>3, TakenMovesUp
  <1> QED
    BY <1>4, <1>5

\* A push asks for a list, unless one is asked for: until it is there nothing
\* is claimed of the list, and the lists behind the push cover it.
LEMMA PushIsCovered ==
  ASSUME LInv, Next, PushArrives
  PROVE  Covered'
  <1> SUFFICES ASSUME stalled = 0
               PROVE  Covered'
    BY DEF Covered, PushArrives
  <1>1. toPhone # <<>> /\ toPhone' = Tail(toPhone) /\ Head(toPhone).kind = "push"
    BY DEF PushArrives
  <1>2. 1 \in 1 .. Len(toPhone) /\ Head(toPhone) = toPhone[1]
    BY <1>1, TailElements DEF LInv, Ways
  <1>3. PICK m : m = toPhone[1]
    OBVIOUS
  <1>4. m \in Pushes /\ Kept(m.f, m) /\ Told(m.f, m, 1)
    BY <1>1, <1>2, <1>3, PushesTold
  <1>5. due' = [due EXCEPT ![m.f] = [mtime |-> m.mtime, pinned |-> m.pinned]]
    BY <1>2, <1>3 DEF PushArrives
  <1>6. pending'[client'] # {}
    <2>1. client \in Clients /\ client # 0 /\ client' = client /\ settling = {} /\ RefreshOK /\ OneWaits
      BY DEF PushArrives, LInv, RInv, RefreshOK, Clients
    <2>2. CASE owner = client
      BY <2>1, <2>2 DEF PushArrives, Refresh, OneWaits
    <2>3. CASE owner # client
      <3>1. pending' = [pending EXCEPT ![client] = pending[client] \cup {call[client] + 1}]
        BY <2>3 DEF PushArrives, Refresh
      <3> QED
        BY <2>1, <3>1 DEF RefreshOK
    <2> QED
      BY <2>2, <2>3
  <1>7. ASSUME NEW f \in Names, NEW p, p = due'[f], p # NothingDue, f \notin removed'
        PROVE  Tells(f, p)' /\ Behind(f, p, 0)'
    <2>1. f \notin removed /\ due \in [Names -> [mtime : Nat, pinned : BOOLEAN]]
      BY <1>7, RemovedGrows DEF LInv, Ways
    <2>2. p.mtime \in Nat /\ Kept(f, p) /\ Tells(f, p) /\ Behind(f, p, 1)
      <3>1. CASE f = m.f
        <4>1. p = [mtime |-> m.mtime, pinned |-> m.pinned]
          BY <1>5, <1>7, <2>1, <3>1
        <4>2. p.mtime = m.mtime /\ p.pinned = m.pinned /\ m.mtime \in Nat
          BY <1>4, <4>1 DEF Pushes
        <4>3. Tells(f, m) /\ Behind(f, m, 1)
          BY <1>4, <2>1, <3>1 DEF Told
        <4>4. \A e : Meets(f, e, m) <=> Meets(f, e, p)
          BY <4>2 DEF Meets
        <4>5. \A S : Covers(f, S, m) <=> Covers(f, S, p)
          BY <4>2, <4>4 DEF Covers
        <4>6. Kept(f, p)
          BY <1>4, <3>1, <4>2 DEF Kept
        <4> QED
          BY <4>2, <4>3, <4>4, <4>5, <4>6 DEF Tells, Behind
      <3>2. CASE f # m.f
        <4>1. p = due[f]
          BY <1>5, <1>7, <2>1, <3>2
        <4>2. p.mtime \in Nat /\ Kept(f, p) /\ Told(f, p, 0)
          BY <1>7, <4>1, PushesTold
        <4>3. Behind(f, p, 1)
          BY <2>1, <4>2 DEF Told, Behind
        <4> QED
          BY <2>1, <4>2, <4>3 DEF Told
      <3> QED
        BY <3>1, <3>2
    <2>3. Tells(f, p)'
      BY <2>1, <2>2, ListingTells
    <2>4. Behind(f, p, 0)'
      BY <1>1, <2>2, TakenMovesUp
    <2> QED
      BY <2>3, <2>4
  <1> QED
    BY <1>1, <1>6, <1>7, TakenStaysTold, CoveredAfter

\* The list that arrives covers what the phone has been told of.
LEMMA ListIsCovered ==
  ASSUME LInv, Next, ListArrives
  PROVE  Covered'
  <1> SUFFICES ASSUME stalled = 0
               PROVE  Covered'
    BY DEF Covered, ListArrives
  <1>1. /\ toPhone # <<>> /\ toPhone' = Tail(toPhone) /\ Head(toPhone).kind = "list"
        /\ list' = Head(toPhone).entries /\ due' = due
    BY DEF ListArrives
  <1>2. 1 \in 1 .. Len(toPhone) /\ Head(toPhone) = toPhone[1]
    BY <1>1, TailElements DEF LInv, Ways
  <1>3. ASSUME NEW f \in Names, NEW p, p = due'[f], p # NothingDue, f \notin removed'
        PROVE  Tells(f, p)' /\ Behind(f, p, 0)' /\ Covers(f, list', p)
    <2>1. p.mtime \in Nat /\ Kept(f, p) /\ Told(f, p, 0)
      BY <1>1, <1>3, PushesTold
    <2>2. Tells(f, p) /\ Behind(f, p, 0) /\ f \notin removed
      BY <1>3, <2>1, RemovedGrows DEF Told
    <2>3. Tells(f, p)'
      BY <2>1, <2>2, ListingTells
    <2>4. Behind(f, p, 0 + 1) /\ Covers(f, list', p)
      BY <1>1, <1>2, <2>2 DEF Behind
    <2>5. Behind(f, p, 0)'
      BY <1>1, <2>4, TakenMovesUp
    <2> QED
      BY <2>3, <2>4, <2>5
  <1> QED
    BY <1>1, <1>3, TakenStaysTold, CoveredAfter

LEMMA CoveredHolds ==
  ASSUME LInv, Next
  PROVE  Covered'
  <1>1. CASE LoopSends
    <2>1. /\ Head(scheduled) \in Pushes \cup Lists /\ Head(scheduled).kind = "push"
          /\ UNCHANGED <<due, list, pending, client, stalled, listing>>
      <3>1. scheduled \in Seq(Pushes) /\ scheduled # <<>>
        BY <1>1 DEF LoopSends, LInv, Ways
      <3>2. Head(scheduled) \in Pushes
        BY <3>1, TailElements
      <3> QED
        BY <1>1, <3>2 DEF LoopSends, Pushes
    <2>2. listing.at # "read"
      BY <1>1 DEF LoopSends, Sending
    <2>3. toPhone' = toPhone \/ toPhone' = Append(toPhone, Head(scheduled))
      BY <1>1 DEF LoopSends
    <2>4. PICK x \in Pushes \cup Lists : x = Head(scheduled)
      BY <2>1
    <2> QED
      BY <2>1, <2>2, <2>3, <2>4, SentIsCovered, StillCovered
  <1>2. CASE ListSends \/ StallEnds
    <2>1. UNCHANGED <<due, list, pending, client>>
      BY <1>2 DEF ListSends, StallEnds
    <2>2. CASE stalled' # 0
      BY <2>2 DEF Covered
    <2>3. CASE stalled' = 0
      <3>1. /\ stalled' = stalled /\ toPhone' = Append(toPhone, Reply)
            /\ listing.at = "read" /\ listing.todo = {}
        BY <1>2, <2>3 DEF ListSends, StallEnds, LInv, Ways
      <3>2. PICK x \in Pushes \cup Lists : x = Reply
        BY ReplyType
      <3>3. x.kind = "list"
        BY <3>2, ReplyType
      <3>4. \A f \in Names : \A p : p.mtime \in Nat /\ Tells(f, p) => Covers(f, x.entries, p)
        BY <3>1, <3>2, ReplyCovers
      <3> QED
        BY <2>1, <3>1, <3>2, <3>3, <3>4, SentIsCovered
    <2> QED
      BY <2>2, <2>3
  <1>3. CASE PushArrives
    BY <1>3, PushIsCovered
  <1>4. CASE ListArrives
    BY <1>4, ListIsCovered
  <1>5. CASE TimesOut
    <2>1. toPhone' = toPhone /\ stalled' = stalled /\ \A f \in Names : due'[f] = NothingDue
      BY <1>5 DEF TimesOut, Forget
    <2>2. ASSUME stalled = 0, NEW i \in 1 .. Len(toPhone'), NEW p, p = toPhone'[i], p.kind = "push",
                 p.f \notin removed'
          PROVE  Tells(p.f, p)' /\ Behind(p.f, p, i)'
      <3>1. p \in Pushes /\ Kept(p.f, p) /\ Told(p.f, p, i)
        BY <2>1, <2>2, PushesTold
      <3>2. Tells(p.f, p) /\ Behind(p.f, p, i) /\ p.f \notin removed
        BY <2>2, <3>1, RemovedGrows DEF Told
      <3>3. Tells(p.f, p)'
        BY <3>1, <3>2, ListingTells DEF Pushes
      <3>4. Behind(p.f, p, i)'
        BY <2>1, <3>2 DEF Behind, Covers, Meets
      <3> QED
        BY <3>3, <3>4
    <2> QED
      BY <2>1, <2>2, CoveredAfter
  <1>6. CASE LinkDrops \/ PowerCut
    <2>1. /\ toPhone' = <<>> /\ Len(toPhone') = 0 /\ listing'.at = "none"
          /\ UNCHANGED <<due, list, pending, client, stalled>>
      BY <1>6 DEF LinkDrops, PowerCut, NoListing
    <2>2. \A f, p, k : Tells(f, p)' /\ Behind(f, p, k)'
      BY <2>1 DEF Tells, Behind
    <2>3. ASSUME stalled = 0, NEW f \in Names, due'[f] # NothingDue, f \notin removed', pending'[client'] = {}
          PROVE  Covers(f, list', due'[f])
      BY <2>1, <2>3, PushesTold, RemovedGrows
    <2> QED
      BY <2>1, <2>2, <2>3, CoveredAfter
  <1>7. CASE NextClient
    <2>1. toPhone' = <<>> /\ Len(toPhone') = 0 /\ \A f \in Names : due'[f] = NothingDue
      BY <1>7 DEF NextClient, Forget
    <2> QED
      BY <2>1, CoveredAfter
  <1>8. CASE ViewAsks
    <2>1. UNCHANGED <<toPhone, due, list, stalled, client>>
      BY <1>8 DEF ViewAsks
    <2>2. pending'[client'] = {} => pending[client] = {}
      BY <1>8 DEF ViewAsks, Refresh, LInv, RInv, RefreshOK, Clients
    <2> QED
      BY <2>1, <2>2, StillCovered
  <1>9. CASE \/ HookSteps \/ ListBegins \/ (\E f \in Names : ListReads(f) \/ Captured(f) \/ Removed(f))
             \/ StockOpens \/ StockWrites \/ LinkReturns \/ \E c \in Clients : Settled(c)
    <2>1. UNCHANGED <<toPhone, due, list, stalled, client, pending>>
      BY <1>9 DEF HookSteps, HookBegins, CheckExists, OpenSidecar, CloseSidecar, PushHandshake,
         ListBegins, ListReads, Captured, Removed, StockOpens, StockWrites, LinkReturns, Settled
    <2> QED
      BY <2>1, StillCovered
  <1> QED
    BY <1>1, <1>2, <1>3, <1>4, <1>5, <1>6, <1>7, <1>8, <1>9 DEF Next, Environment, Loop, Phone

LEMMA ListingHolds == LInv /\ [Next]_vars => LInv'
  <1> SUFFICES ASSUME LInv, [Next]_vars
               PROVE  LInv'
    OBVIOUS
  <1>1. WInv' /\ RInv'
    BY WriterHolds, RefreshHolds DEF LInv
  <1>2. CASE Next
    BY <1>1, <1>2, DiskHolds, WaysHolds, TruthfulHolds, CoveredHolds DEF LInv
  <1>3. CASE UNCHANGED vars
    <2>1. Disk' /\ Ways'
      BY <1>3 DEF LInv, Disk, Ways, vars
    <2>2. Truthful'
      BY <1>3 DEF LInv, Truthful, Kept, vars
    <2>3. Covered'
      BY <1>3 DEF LInv, Covered, Told, Tells, Behind, vars
    <2> QED
      BY <1>1, <2>1, <2>2, <2>3 DEF LInv
  <1> QED
    BY <1>2, <1>3

LEMMA CoveredIsShown == LInv => LossNeedsAStall
  <1> SUFFICES ASSUME LInv, stalled = 0, pending[client] = {}, NEW f \in Names \ removed,
                      due[f] # NothingDue
               PROVE  Shown(f)
    BY DEF LossNeedsAStall, CapturesShown
  <1>1. Covers(f, list, due[f])
    BY DEF LInv, Covered
  <1> QED
    BY <1>1 DEF Covers, Meets, Shown

\* handle_get_handshakes of companion.py and createCoalescedRefresh of stores.ts:
\* a capture that a push has announced is on the phone's list once no refresh is
\* under way, as pinned as the push has said, or newer ones fill the list; only a
\* loop that has waited between the acknowledgment and the list can lose one.
THEOREM AnnouncedIsListed == Spec => []LossNeedsAStall
  BY ListingStarts, ListingHolds, CoveredIsShown, PTL DEF Spec
=============================================================================
