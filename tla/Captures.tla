------------------------------ MODULE Captures ------------------------------
(***************************************************************************)
(* A capture, from the hook that pins it to the list on the phone: the     *)
(* sidecar that on_handshake writes beside it, the push that follows, and  *)
(* the coalesced refresh by which stores.ts asks for the directory again.  *)
(*                                                                         *)
(* The plugin's thread runs the hooks one after another, the loop reads    *)
(* the directory and sends, the stock gps.py writes sidecars on a thread   *)
(* of its own. A capture is its name; of its position only the writer and  *)
(* whether the file can be read are kept. Modification times are numbered. *)
(***************************************************************************)
EXTENDS Naturals, FiniteSets, Sequences

CONSTANTS
  Names,       \* the names captures have
  Contested,   \* the captures for which the stock plugin writes a sidecar too
  Limit,       \* HANDSHAKE_LIMIT
  MaxEvents,   \* bound: captures, each of which fires the hook
  MaxFaults,   \* bound: failed reads and writes, drops, deletions, power cuts
  MaxClients,  \* bound: clients of the session
  MaxAsks,     \* bound: refreshes the user asks for, and time limits that run out
  MaxStalls    \* bound: times the loop waits for the transport between two replies

ASSUME CapturesAssumption ==
  /\ Contested \subseteq Names /\ Limit \in Nat \ {0}
  /\ {MaxEvents, MaxFaults, MaxAsks, MaxStalls} \subseteq Nat /\ MaxClients \in Nat \ {0}

VARIABLES
  mtime,      \* per capture, 0 when there is no such file
  sidecar,    \* per capture: "none", "torn" (cannot be read), "ours" or "stock"
  hook,       \* the plugin's thread: where it is, in which capture
  events,     \* hook calls pwnagotchi has queued for it
  stock,      \* the stock plugin's thread
  scheduled,  \* sends of pushes that are scheduled on the loop
  listing,    \* the loop's handler in get_handshakes
  toUnit,     \* the request on its way to the unit
  toPhone,    \* frames on their way to the phone, in order
  linked,     \* does the current client have a connection?
  client,     \* the session's client, by number
  call,       \* per client, the request it has made last and what came of it
  pending,    \* per client, the requests whose promise has not settled
  settling,   \* the clients whose promise has settled, its handlers still to run
  owner,      \* owner of createCoalescedRefresh, 0 for null
  list,       \* the handshakes store
  due,        \* history: per capture, what the last push promised
  removed,    \* history: captures that were deleted at some time
  stalled,    \* history: the loop has waited in this client's time
  shots, faults, asks

history == <<shots, removed>>
unit == <<history, mtime, sidecar, hook, events, stock, scheduled>>
phone == <<client, call, pending, settling, owner, list, due>>
away == <<listing, toUnit, toPhone, linked, phone, stalled, asks>>
vars == <<unit, listing, toUnit, toPhone, linked, phone, stalled, faults, asks>>

Clients == 1..MaxClients
Nobody == [at |-> "idle", f |-> "none", had |-> FALSE]
NoListing == [at |-> "none", n |-> 0, todo |-> {}, out |-> {}]
NothingDue == [mtime |-> 0, pinned |-> FALSE]

Whole(content) == content \in {"ours", "stock"}
Fault == faults < MaxFaults /\ faults' = faults + 1
Hook(at) == hook' = [hook EXCEPT !.at = at]

-----------------------------------------------------------------------------
(* The hook *)

\* bettercap has written the capture and pwnagotchi calls the plugins.
Captured(f) ==
  /\ shots < MaxEvents /\ shots' = shots + 1
  /\ mtime' = [mtime EXCEPT ![f] = shots + 1]
  /\ events' = Append(events, f)
  /\ stock' = IF f \in Contested /\ stock.at = "idle"
              THEN [at |-> "opens", f |-> f] ELSE stock
  /\ UNCHANGED <<removed, sidecar, hook, scheduled, away, faults>>

\* on_handshake: the first current(), which decides whether there is a fix.
\* One that raises costs the sidecar and not the push.
HookBegins ==
  /\ hook.at = "idle" /\ events # <<>>
  /\ \E at \in {"check", "push"} :
       hook' = [at |-> at, f |-> Head(events), had |-> sidecar[Head(events)] # "none"]
  /\ events' = Tail(events)
  /\ UNCHANGED <<history, mtime, sidecar, stock, scheduled, away, faults>>

\* Mutant of CheckExists: whatever is there is written over.
CheckNothing ==
  /\ hook.at = "check" /\ Hook("open")
  /\ UNCHANGED <<history, mtime, sidecar, events, stock, scheduled, away, faults>>

\* write_sidecar: os.path.exists.
CheckExists ==
  /\ hook.at = "check"
  /\ Hook(IF sidecar[hook.f] = "none" THEN "open" ELSE "push")
  /\ UNCHANGED <<history, mtime, sidecar, events, stock, scheduled, away, faults>>

\* open(path, "wt") truncates; what is dumped leaves the buffer at the close.
OpenSidecar ==
  /\ hook.at = "open"
  /\ \/ /\ Hook("close") /\ sidecar' = [sidecar EXCEPT ![hook.f] = "torn"]
        /\ UNCHANGED faults
     \/ Hook("push") /\ Fault /\ UNCHANGED sidecar
  /\ UNCHANGED <<history, mtime, events, stock, scheduled, away>>

\* The dump and the close. A second writer at work on the file leaves whatever
\* the two make of it; a full disk leaves it cut short.
CloseSidecar ==
  /\ hook.at = "close" /\ Hook("push")
  /\ \/ /\ sidecar' = [sidecar EXCEPT ![hook.f] = "ours"]
        /\ UNCHANGED faults
     \/ /\ sidecar[hook.f] = "stock" /\ sidecar' = [sidecar EXCEPT ![hook.f] = "torn"]
        /\ UNCHANGED faults
     \/ Fault /\ UNCHANGED sidecar
  /\ UNCHANGED <<history, mtime, events, stock, scheduled, away>>

Announce(f) == [kind |-> "push", f |-> f, mtime |-> mtime[f], pinned |-> Whole(sidecar[f])]

\* The push, once the sidecar is done with: broadcast() schedules the send. The
\* second current() may raise too, and then there is no push.
PushHandshake ==
  /\ hook.at = "push" /\ hook' = Nobody
  /\ \/ scheduled' = Append(scheduled, Announce(hook.f)) /\ UNCHANGED faults
     \/ Fault /\ UNCHANGED scheduled
  /\ UNCHANGED <<history, mtime, sidecar, events, stock, away>>

\* The stock plugin opens and writes without looking.
StockOpens ==
  /\ stock.at = "opens" /\ stock' = [stock EXCEPT !.at = "writes"]
  /\ sidecar' = [sidecar EXCEPT ![stock.f] = "torn"]
  /\ UNCHANGED <<history, mtime, hook, events, scheduled, away, faults>>

StockWrites ==
  /\ stock.at = "writes" /\ stock' = [at |-> "idle", f |-> "none"]
  /\ \E content \in IF sidecar[stock.f] = "ours" THEN {"stock", "torn"} ELSE {"stock"} :
       sidecar' = [sidecar EXCEPT ![stock.f] = content]
  /\ UNCHANGED <<history, mtime, hook, events, scheduled, away, faults>>

\* The owner of the unit removes a capture and what lies beside it.
Removed(f) ==
  /\ mtime[f] # 0 /\ hook.f # f /\ stock.f # f /\ Fault
  /\ mtime' = [mtime EXCEPT ![f] = 0] /\ sidecar' = [sidecar EXCEPT ![f] = "none"]
  /\ removed' = removed \cup {f}
  /\ UNCHANGED <<shots, hook, events, stock, scheduled, away>>

-----------------------------------------------------------------------------
(* The loop *)

Sending == listing.at \in {"none", "acked"}

\* A scheduled send of a push runs between two steps of the handler.
LoopSends ==
  /\ Sending /\ scheduled # <<>>
  /\ scheduled' = Tail(scheduled)
  /\ toPhone' = IF linked THEN Append(toPhone, Head(scheduled)) ELSE toPhone
  /\ UNCHANGED <<history, mtime, sidecar, hook, events, stock, listing, toUnit, linked,
                 phone, stalled, faults, asks>>

\* HandshakeStore.entries: the names first.
ListBegins ==
  /\ listing.at = "none" /\ toUnit # 0
  /\ listing' = [at |-> "read", n |-> toUnit, todo |-> {f \in Names : mtime[f] # 0}, out |-> {}]
  /\ toUnit' = 0
  /\ UNCHANGED <<unit, toPhone, linked, phone, stalled, faults, asks>>

\* Then each file and its sidecar, while the hook's thread goes on. A file that
\* has gone is skipped, a sidecar that cannot be read is none.
ListReads(f) ==
  /\ listing.at = "read" /\ f \in listing.todo
  /\ listing' = [listing EXCEPT
       !.todo = @ \ {f},
       !.out = IF mtime[f] = 0 THEN @
               ELSE @ \cup {[f |-> f, mtime |-> mtime[f], pinned |-> Whole(sidecar[f])]}]
  /\ UNCHANGED <<unit, toUnit, toPhone, linked, phone, stalled, faults, asks>>

\* Mutant of Newest: the oldest are kept.
Oldest(entries) ==
  {e \in entries : Cardinality({d \in entries : d.mtime < e.mtime}) < Limit}

\* Sorted by modification time, newest first, and cut at the limit.
Newest(entries) ==
  {e \in entries : Cardinality({d \in entries : d.mtime > e.mtime}) < Limit}

Reply == [kind |-> "list", n |-> listing.n, entries |-> Newest(listing.out)]

\* The acknowledgment and the list are two sends. The loop goes from one to the
\* other unless the transport makes the first one wait.
ListSends ==
  /\ listing.at = "read" /\ listing.todo = {}
  /\ \/ /\ toPhone' = Append(toPhone, Reply) /\ listing' = NoListing
        /\ UNCHANGED stalled
     \/ /\ stalled < MaxStalls /\ stalled' = stalled + 1
        /\ listing' = [listing EXCEPT !.at = "acked"] /\ UNCHANGED toPhone
  /\ UNCHANGED <<unit, toUnit, linked, phone, faults, asks>>

StallEnds ==
  /\ listing.at = "acked"
  /\ toPhone' = Append(toPhone, Reply) /\ listing' = NoListing
  /\ UNCHANGED <<unit, toUnit, linked, phone, stalled, faults, asks>>

-----------------------------------------------------------------------------
(* The phone *)

Forget == [f \in Names |-> NothingDue]

\* createCoalescedRefresh: what the returned function does. A client that has
\* a connection sends the request at once, another one when it has one.
Refresh ==
  IF owner = client THEN UNCHANGED <<call, pending, owner, toUnit>>
  ELSE /\ owner' = client
       /\ call' = [call EXCEPT ![client] = @ + 1]
       /\ pending' = [pending EXCEPT ![client] = @ \cup {call[client] + 1}]
       /\ toUnit' = IF linked THEN call[client] + 1 ELSE toUnit

\* Requests whose promise settles in this task. Its handlers are microtasks: the
\* page runs them before its next task.
Settle(ids) ==
  /\ pending' = [pending EXCEPT ![client] = @ \ ids]
  /\ settling' = IF pending[client] \cap ids = {} THEN settling ELSE settling \cup {client}

\* handleMessage: a push is a signal to ask for the list.
PushArrives ==
  /\ settling = {} /\ toPhone # <<>> /\ Head(toPhone).kind = "push"
  /\ LET m == Head(toPhone)
     IN due' = [due EXCEPT ![m.f] = [mtime |-> m.mtime, pinned |-> m.pinned]]
  /\ Refresh
  /\ toPhone' = Tail(toPhone)
  /\ UNCHANGED <<unit, listing, linked, client, settling, list, stalled, faults, asks>>

\* handleMessage: the only writer of the store; the promise settles after it,
\* unless the reply is to a request whose time has run out.
ListArrives ==
  /\ settling = {} /\ toPhone # <<>> /\ Head(toPhone).kind = "list"
  /\ list' = Head(toPhone).entries
  /\ Settle({Head(toPhone).n})
  /\ toPhone' = Tail(toPhone)
  /\ UNCHANGED <<unit, listing, toUnit, linked, client, call, owner, due, stalled,
                 faults, asks>>

\* Mutant of Settled: whoever settles frees the owner.
SettledFreesAll(c) ==
  /\ c \in settling /\ settling' = settling \ {c}
  /\ owner' = 0
  /\ UNCHANGED <<unit, listing, toUnit, toPhone, linked, client, call, pending, list,
                 due, stalled, faults, asks>>

\* The handlers of a settled promise: only the owner frees it.
Settled(c) ==
  /\ c \in settling /\ settling' = settling \ {c}
  /\ owner' = IF owner = c THEN 0 ELSE owner
  /\ UNCHANGED <<unit, listing, toUnit, toPhone, linked, client, call, pending, list,
                 due, stalled, faults, asks>>

\* A view that becomes current, its refresh control, the follow timer. A view
\* also asks in the very task that replaced the client.
ViewAsks ==
  /\ client \notin settling /\ asks < MaxAsks /\ asks' = asks + 1
  /\ Refresh
  /\ UNCHANGED <<unit, listing, toPhone, linked, client, settling, list, due, stalled,
                 faults>>

\* The time limit of request(). The answer may still come.
TimesOut ==
  /\ settling = {} /\ asks < MaxAsks /\ asks' = asks + 1
  /\ pending[client] # {} /\ Settle(pending[client])
  /\ due' = Forget
  /\ UNCHANGED <<unit, listing, toUnit, toPhone, linked, client, call, owner, list,
                 stalled, faults>>

\* What was on its way is lost. The client keeps its unsettled read.
LinkDrops ==
  /\ linked /\ Fault
  /\ linked' = FALSE /\ toPhone' = <<>> /\ toUnit' = 0 /\ listing' = NoListing
  /\ UNCHANGED <<unit, phone, stalled, asks>>

LinkReturns ==
  /\ ~linked /\ linked' = TRUE
  /\ toUnit' = IF pending[client] = {} THEN 0 ELSE call[client]
  /\ UNCHANGED <<unit, listing, toPhone, phone, stalled, faults, asks>>

\* The session replaces the client: its stores are detached, it is closed, which
\* rejects what it has pending, the stores are emptied, the next one connects.
NextClient ==
  /\ settling = {} /\ client < MaxClients /\ client' = client + 1
  /\ Settle(pending[client])
  /\ list' = {} /\ due' = Forget /\ stalled' = 0
  /\ linked' = FALSE /\ toPhone' = <<>> /\ toUnit' = 0 /\ listing' = NoListing
  /\ UNCHANGED <<unit, call, owner, faults, asks>>

\* The power goes: what was being written is cut short, what waited is lost.
PowerCut ==
  /\ Fault
  /\ hook' = Nobody /\ events' = <<>> /\ scheduled' = <<>>
  /\ stock' = [at |-> "idle", f |-> "none"]
  /\ linked' = FALSE /\ toPhone' = <<>> /\ toUnit' = 0 /\ listing' = NoListing
  /\ UNCHANGED <<history, mtime, sidecar, phone, stalled, asks>>

-----------------------------------------------------------------------------
Init ==
  /\ mtime = [f \in Names |-> 0]
  /\ sidecar \in [Names -> {"none", "torn", "stock"}]
  /\ hook = Nobody /\ events = <<>> /\ stock = [at |-> "idle", f |-> "none"]
  /\ scheduled = <<>> /\ listing = NoListing /\ toUnit = 0 /\ toPhone = <<>>
  /\ linked = TRUE /\ client = 1 /\ call = [c \in Clients |-> 0]
  /\ pending = [c \in Clients |-> {}] /\ settling = {} /\ owner = 0 /\ list = {} /\ due = Forget
  /\ stalled = 0 /\ removed = {} /\ shots = 0 /\ faults = 0 /\ asks = 0

HookSteps ==
  HookBegins \/ CheckExists \/ OpenSidecar \/ CloseSidecar \/ PushHandshake

Loop == LoopSends \/ ListBegins \/ (\E f \in Names : ListReads(f)) \/ ListSends \/ StallEnds

Phone == PushArrives \/ ListArrives \/ ViewAsks \/ TimesOut \/ \E c \in Clients : Settled(c)

Environment ==
  \/ \E f \in Names : Captured(f) \/ Removed(f)
  \/ StockOpens \/ StockWrites \/ LinkDrops \/ LinkReturns \/ NextClient \/ PowerCut

Next == HookSteps \/ Loop \/ Phone \/ Environment

Spec == Init /\ [][Next]_vars

-----------------------------------------------------------------------------
(* Properties *)

\* SPEC.md 2.12.1: a sidecar that was there when the hook began, from an
\* earlier capture, another program or an earlier boot, is not touched by it.
OldSidecarsStay ==
  [][\A f \in Names :
       sidecar[f] # sidecar'[f] /\ hook.f = f /\ hook' # hook => ~hook.had]_vars

\* SPEC.md 2.12.1: if a sidecar already exists, it is not overwritten. The test
\* and the open are apart, and the stock plugin writes in between.
\* False of the code: CapturesSidecar.cfg finds the behavior.
SidecarsNotOverwritten ==
  [][\A f \in Names :
       sidecar[f] = "stock" /\ hook.f = f /\ hook' # hook => sidecar'[f] = "stock"]_vars

\* What a push announced is on the phone's list once the list has arrived, and
\* pinned if it was pinned, unless newer captures fill the list.
Shown(f) ==
  \/ \E e \in list : /\ e.f = f /\ e.mtime >= due[f].mtime
                     /\ due[f].pinned /\ f \notin Contested => e.pinned
  \/ Cardinality({e \in list : e.mtime > due[f].mtime}) >= Limit

CapturesShown ==
  pending[client] = {} => \A f \in Names \ removed : due[f] = NothingDue \/ Shown(f)

\* No announced capture is lost to coalescing while the loop sends its replies
\* without waiting, however the hook, the listing and the pushes interleave.
LossNeedsAStall == stalled = 0 => CapturesShown

\* At most one refresh of a client is in flight, and an owner is waiting for one
\* or about to be freed: an earlier client neither blocks nor frees the next.
OneRefreshInFlight ==
  /\ \A c \in Clients : Cardinality(pending[c]) <= 1
  /\ owner # 0 => pending[owner] # {} \/ owner \in settling
=============================================================================
