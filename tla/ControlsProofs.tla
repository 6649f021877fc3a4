--------------------------- MODULE ControlsProofs ---------------------------
(***************************************************************************)
(* For any controls, any number of commands, clients and lost connections: *)
(* what controls.ts shows belongs to the unit on screen.                   *)
(***************************************************************************)
EXTENDS Controls, TLAPS

Messages == [token : Nat, why : {None, "abandoned", "failed"}]
UIs == [armed : Kinds \cup {None}, pending : Nat, kind : Kinds \cup {None},
        target : {None, "AUTO", "PASV"}, seen : Nat, message : [Kinds -> Messages], known : Nat]

\* With own the owners of tokens, n the last one minted and fl the rejected
\* ones: all that u holds was asked of the client that u was last drawn for.
Belongs(token, u, own, n) == token # 0 => token \in 1 .. n /\ own[token].client = u.known
Owned(u, own, n, fl) ==
  /\ u \in UIs
  /\ Belongs(u.pending, u, own, n)
  /\ \A id \in Kinds :
       /\ Belongs(u.message[id].token, u, own, n)
       /\ u.message[id].why = "failed" => u.message[id].token \in fl

IInv ==
  /\ Owned(ui, owner, sent, failed)
  /\ sent \in 0 .. MaxConfirms /\ client \in Nat /\ built \in Nat
  /\ owner \in [Tokens -> [client : Nat, kind : Kinds \cup {None}]]
  /\ rejections \subseteq failed
  /\ client # NoClient => ui.known = client
  /\ client = NoClient => conn \notin Contract!Live
  /\ ui.armed # None => conn \in Contract!Live

-----------------------------------------------------------------------------
(* The helpers of controls.ts keep ownership *)

LEMMA ResetOwned ==
  ASSUME NEW known \in Nat, NEW own, NEW n, NEW fl
  PROVE  /\ Owned(Reset(known), own, n, fl)
         /\ Reset(known).armed = None /\ Reset(known).known = known
  BY DEF Owned, Belongs, Reset, UIs, Messages, NoMessage, None

\* An entry that ends takes no sentence with it that is not its own.
LEMMA EndedOwned ==
  ASSUME NEW own, NEW n, NEW fl, NEW u, Owned(u, own, n, fl)
  PROVE  Owned(Ended(u), own, n, fl) /\ Ended(u).known = u.known
  BY DEF Owned, Belongs, Ended, UIs, Messages, None

\* render: owned by the client it draws for, armed only on a live connection.
LEMMA RenderedOwned ==
  ASSUME NEW own, NEW n, NEW fl, NEW u, NEW cl \in Nat, NEW cn, NEW st, Owned(u, own, n, fl)
  PROVE  LET r == Rendered(u, cl, cn, st)
         IN  /\ Owned(r, own, n, fl) /\ r.known = cl
             /\ r.armed # None => cn \in Contract!Live
  <1> DEFINE v == IF cl = u.known THEN u ELSE Reset(cl)
  <1>1. Owned(v, own, n, fl) /\ v.known = cl
    BY ResetOwned
  <1>2. Owned([v EXCEPT !.armed = None], own, n, fl) /\ [v EXCEPT !.armed = None].known = cl
        /\ [v EXCEPT !.armed = None].armed = None
    BY <1>1 DEF Owned, Belongs, UIs, None
  <1>3. Rendered(u, cl, cn, st) =
          IF v.armed # None /\ ~Available(v, v.armed, cn, st) THEN [v EXCEPT !.armed = None] ELSE v
    BY DEF Rendered
  <1>4. v.armed # None /\ Available(v, v.armed, cn, st) => cn \in Contract!Live
    BY DEF Available
  <1> HIDE DEF v
  <1> QED
    BY <1>1, <1>2, <1>3, <1>4

LEMMA AbandonedOwned ==
  ASSUME NEW own, NEW n, NEW fl, NEW u, Owned(u, own, n, fl)
  PROVE  Owned(Abandoned(u), own, n, fl)
  <1> DEFINE w == [u EXCEPT !.message[u.kind] = [token |-> u.pending, why |-> "abandoned"]]
  <1>1. Owned(w, own, n, fl)
    BY DEF Owned, Belongs, UIs, Messages, None
  <1>2. Owned(Ended(w), own, n, fl)
    BY <1>1, EndedOwned
  <1> QED
    BY <1>2 DEF Abandoned

LEMMA OnStatsOwned ==
  ASSUME NEW own, NEW n, NEW fl, NEW u, NEW cl \in Nat, NEW cn, NEW st, Owned(u, own, n, fl)
  PROVE  LET r == OnStats(u, cl, cn, st)
         IN  /\ Owned(r, own, n, fl) /\ r.known = cl
             /\ r.armed # None => cn \in Contract!Live
  <1> DEFINE w == [u EXCEPT !.seen = IF @ < 2 THEN @ + 1 ELSE @]
             v == CASE u.pending = 0    -> u
                    [] Confirmed(u, st) -> Ended(u)
                    [] OTHER            -> Abandoned(w)
  <1>1. Owned(w, own, n, fl)
    BY DEF Owned, Belongs, UIs
  <1>2. Owned(Abandoned(w), own, n, fl) /\ Owned(Ended(u), own, n, fl)
    BY <1>1, AbandonedOwned, EndedOwned
  <1> HIDE DEF w
  <1>3. Owned(v, own, n, fl)
    <2>1. v = u \/ v = Ended(u) \/ v = Abandoned(w)
      OBVIOUS
    <2> QED
      BY <1>2, <2>1
  <1>4. OnStats(u, cl, cn, st) = Rendered(v, cl, cn, st)
    BY DEF OnStats, w
  <1> HIDE DEF v
  <1> QED
    BY <1>3, <1>4, RenderedOwned

LEMMA OnConnectionOwned ==
  ASSUME NEW own, NEW n, NEW fl, NEW u, NEW cl \in Nat, NEW cn, NEW st, Owned(u, own, n, fl)
  PROVE  LET r == OnConnection(u, cl, cn, st)
         IN  /\ Owned(r, own, n, fl) /\ r.known = cl
             /\ r.armed # None => cn \in Contract!Live
  <1> DEFINE v == IF u.pending # 0 /\ cn = "restarting" /\ u.kind # "pasv" THEN Ended(u) ELSE u
  <1>1. Owned(v, own, n, fl)
    BY EndedOwned
  <1>2. OnConnection(u, cl, cn, st) = Rendered(v, cl, cn, st)
    BY DEF OnConnection
  <1> HIDE DEF v
  <1> QED
    BY <1>1, <1>2, RenderedOwned

LEMMA OnResetOwned ==
  ASSUME NEW own, NEW n, NEW fl, NEW u, NEW cl \in Nat, NEW cn, NEW st, Owned(u, own, n, fl)
  PROVE  LET r == OnReset(u, cl, cn, st)
         IN  /\ Owned(r, own, n, fl) /\ r.known \in {u.known, cl}
             /\ r.armed # None => r.armed = u.armed \/ cn \in Contract!Live
  BY OnStatsOwned DEF OnReset

LEMMA TornDownOwned ==
  ASSUME NEW own, NEW n, NEW fl, NEW u, Owned(u, own, n, fl), client \in Nat
  PROVE  Owned(TornDown(u), own, n, fl) /\ TornDown(u).armed = None
  <1>1. /\ Owned(OnConnection(u, client, "offline", stats), own, n, fl)
        /\ OnConnection(u, client, "offline", stats).armed = None
    BY OnConnectionOwned DEF Contract!Live
  <1> QED
    BY <1>1, OnResetOwned DEF TornDown, NoClient, Contract!Live

LEMMA SeededOwned ==
  ASSUME NEW own, NEW n, NEW fl, Owned(ui, own, n, fl), client \in Nat
  PROVE  Owned(Seeded, own, n, fl)
  BY TornDownOwned, OnConnectionOwned DEF Seeded, NoClient

\* Rejections only add to what has failed.
LEMMA FailedGrows ==
  ASSUME NEW own, NEW n, NEW fl, NEW more, NEW u, Owned(u, own, n, fl)
  PROVE  Owned(u, own, n, fl \cup more)
  BY DEF Owned, Belongs

-----------------------------------------------------------------------------
(* The steps *)

LEMMA Initially == Init => IInv
  BY ControlsAssumption, ResetOwned DEF Init, IInv, Contract!Init, Contract!Live, ControlsAssumption,
     NoClient, Tokens, None, Reset

LEMMA ArmOwned == ASSUME IInv, NEW id \in Kinds, Arm(id) PROVE IInv'
  <1> DEFINE u == [ui EXCEPT !.armed = id, !.message[id] = NoMessage]
  <1>1. Owned(u, owner, sent, failed)
    BY DEF IInv, Owned, Belongs, UIs, Messages, NoMessage, None
  <1>2. ui' = Rendered(u, client, conn, stats)
    BY DEF Arm
  <1>3. Owned(ui', owner, sent, failed) /\ ui'.known = client /\ (ui'.armed # None => conn \in Contract!Live)
    BY <1>1, <1>2, RenderedOwned DEF IInv
  <1> QED
    BY <1>3 DEF IInv, Arm

LEMMA CancelOwned == ASSUME IInv, Cancel PROVE IInv'
  <1> DEFINE u == [ui EXCEPT !.armed = None]
  <1>1. Owned(u, owner, sent, failed)
    BY DEF IInv, Owned, Belongs, UIs, None
  <1>2. ui' = Rendered(u, client, conn, stats)
    BY DEF Cancel
  <1>3. Owned(ui', owner, sent, failed) /\ ui'.known = client /\ (ui'.armed # None => conn \in Contract!Live)
    BY <1>1, <1>2, RenderedOwned DEF IInv
  <1> QED
    BY <1>3 DEF IInv, Cancel

\* A token is new: nothing shown, and no rejection, carries it yet.
LEMMA ConfirmOwned == ASSUME IInv, Confirm PROVE IInv'
  <1> DEFINE token == sent + 1
             target == IF ui.armed # "pasv" THEN None ELSE IF stats.mode = "PASV" THEN "AUTO" ELSE "PASV"
             u == [ui EXCEPT !.armed = None, !.pending = token, !.kind = ui.armed,
                             !.target = target, !.seen = 0]
  <1>1. /\ sent' = token /\ token \in Tokens
        /\ owner' = [owner EXCEPT ![token] = [client |-> client, kind |-> ui.armed]]
        /\ ui.armed \in Kinds /\ ui.known = client
    BY ControlsAssumption DEF Confirm, IInv, Tokens, Owned, UIs, ControlsAssumption
  <1>2. owner' \in [Tokens -> [client : Nat, kind : Kinds \cup {None}]] /\ owner'[token].client = client
    BY <1>1 DEF IInv
  <1>3. Owned(u, owner', sent', failed')
    <2>1. u \in UIs
      <3>1. ui \in UIs /\ token \in Nat /\ target \in {None, "AUTO", "PASV"} /\ ui.armed \in Kinds
        BY <1>1 DEF IInv, Owned
      <3> HIDE DEF token, target
      <3> QED
        BY <3>1 DEF UIs
    <2>2. Belongs(u.pending, u, owner', sent')
      BY <1>1, <1>2 DEF Belongs, IInv, Owned, UIs
    <2>3. failed \subseteq failed'
      BY DEF Confirm, Rejects
    <2>4. ASSUME NEW id \in Kinds
          PROVE  /\ Belongs(u.message[id].token, u, owner', sent')
                 /\ u.message[id].why = "failed" => u.message[id].token \in failed'
      <3>1. u.message[id] = ui.message[id] /\ u.known = ui.known
        BY DEF IInv, Owned, UIs
      <3>2. \A k \in 1 .. sent : owner'[k] = owner[k]
        BY <1>1 DEF IInv
      <3> QED
        BY <1>1, <2>3, <3>1, <3>2 DEF IInv, Owned, Belongs
    <2> QED
      BY <2>1, <2>2, <2>4 DEF Owned
  <1>4. ui' = Rendered(u, client, conn, stats)
    BY DEF Confirm
  <1>5. /\ Owned(ui', owner', sent', failed') /\ ui'.known = client
        /\ ui'.armed # None => conn \in Contract!Live
    <2> HIDE DEF u
    <2> QED
      BY <1>3, <1>4, RenderedOwned DEF IInv
  <1> QED
    BY <1>1, <1>2, <1>5, ControlsAssumption
    DEF IInv, Confirm, Contract!Command, Rejects, Tokens, NoClient, ControlsAssumption

LEMMA RejectedOwned == ASSUME IInv, NEW k \in Tokens, Rejected(k) PROVE IInv'
  <1> DEFINE u == [ui EXCEPT !.message[owner[k].kind] = [token |-> ui.pending, why |-> "failed"]]
  <1>1. CASE ui.pending # k
    BY <1>1 DEF IInv, Rejected
  <1>2. CASE ui.pending = k
    <2>1. Owned(u, owner, sent, failed)
      BY <1>2 DEF IInv, Rejected, Owned, Belongs, UIs, Messages, None
    <2>2. ui' = Rendered(Ended(u), client, conn, stats)
      BY <1>2 DEF Rejected
    <2>3. /\ Owned(ui', owner, sent, failed) /\ ui'.known = client
          /\ ui'.armed # None => conn \in Contract!Live
      <3> HIDE DEF u
      <3>1. Owned(Ended(u), owner, sent, failed)
        BY <2>1, EndedOwned
      <3> QED
        BY <2>2, <3>1, RenderedOwned DEF IInv
    <2> QED
      BY <2>3 DEF IInv, Rejected
  <1> QED
    BY <1>1, <1>2

LEMMA SettlesOwned == ASSUME IInv, NEW k \in Tokens, NEW ok \in BOOLEAN, Settles(k, ok) PROVE IInv'
  BY FailedGrows DEF IInv, Settles, Contract!Settles, Rejects

LEMMA ChangesOwned == ASSUME IInv, NEW next, Changes(next) PROVE IInv'
  <1> DEFINE told == OnConnection(ui, client, next, stats)
  <1>1. Owned(ui, owner', sent', failed')
    BY FailedGrows DEF IInv, Changes, Rejects
  <1>2. Owned(told, owner', sent', failed') /\ told.known = client /\ told.armed = None
    BY <1>1, OnConnectionOwned DEF IInv, Changes
  <1>3. Owned(ui', owner', sent', failed') /\ ui'.known = client /\ ui'.armed = None
    <2> HIDE DEF told
    <2>1. ui' = told \/ ui' = OnReset(told, client, next, stats)
      BY DEF Changes, told
    <2> QED
      BY <1>2, <2>1, OnResetOwned DEF IInv, Changes
  <1> QED
    BY <1>3 DEF IInv, Changes, Contract!Moves, Rejects

LEMMA FrameOwned == ASSUME IInv, NEW st, NEW next, Frame(st, next) PROVE IInv'
  <1>1. Owned(ui, owner', sent', failed')
    BY FailedGrows DEF IInv, Frame, Rejects
  <1>2. Owned(OnStats(ui, client, conn, st), owner', sent', failed')
    BY <1>1, OnStatsOwned DEF IInv
  <1>3. Owned(ui', owner', sent', failed') /\ ui'.known = client
    BY <1>2, OnConnectionOwned DEF IInv, Frame
  <1>4. conn' \in Contract!Live
    BY DEF Frame, Contract!Moves
  <1> QED
    BY <1>3, <1>4 DEF IInv, Frame, Rejects

LEMMA ReleaseOwned == ASSUME IInv, Release PROVE IInv'
  <1>1. Owned(ui, owner', sent', failed')
    BY FailedGrows DEF IInv, Release, Rejects
  <1>2. Owned(ui', owner', sent', failed') /\ ui'.armed = None
    BY <1>1, TornDownOwned DEF IInv, Release
  <1> QED
    BY <1>2 DEF IInv, Release, Rejects, NoClient, Contract!Closes, Contract!Live

LEMMA RebuildOwned == ASSUME IInv, Rebuild PROVE IInv'
  <1>1. Owned(ui, owner', sent', failed')
    BY FailedGrows DEF IInv, Rebuild, Rejects
  <1>2. Owned(Seeded, owner', sent', failed')
    BY <1>1, SeededOwned DEF IInv
  <1>3. Owned(ui', owner', sent', failed') /\ ui'.known = client' /\ ui'.armed = None /\ client' \in Nat \ {0}
    BY <1>2, OnConnectionOwned DEF IInv, Rebuild, Contract!Live
  <1> QED
    BY <1>3 DEF IInv, Rebuild, Rejects, NoClient

LEMMA RebuildFailsOwned == ASSUME IInv, RebuildFails PROVE IInv'
  <1>1. Owned(ui, owner', sent', failed')
    BY FailedGrows DEF IInv, RebuildFails, Rejects
  <1>2. Owned(Seeded, owner', sent', failed')
    BY <1>1, SeededOwned DEF IInv
  <1>3. Owned(ui', owner', sent', failed') /\ ui'.armed = None
    BY <1>2, OnConnectionOwned DEF IInv, RebuildFails, Contract!Live
  <1> QED
    BY <1>3 DEF IInv, RebuildFails, Rejects, NoClient, Contract!Closes, Contract!Live

LEMMA Preserved == IInv /\ [Next]_vars => IInv'
  <1> SUFFICES ASSUME IInv, [Next]_vars
               PROVE  IInv'
    OBVIOUS
  <1>1. CASE UNCHANGED vars
    BY <1>1 DEF vars, IInv
  <1>2. CASE Next
    BY <1>2, ArmOwned, CancelOwned, ConfirmOwned, RejectedOwned, SettlesOwned, ChangesOwned, FrameOwned,
       ReleaseOwned, RebuildOwned, RebuildFailsOwned
    DEF Next, AnyFrame, Settling, Handling
  <1> QED
    BY <1>1, <1>2

LEMMA OwnIfOwned == IInv => ShownForItsOwn
  BY DEF IInv, Owned, Belongs, ShownForItsOwn, NoClient, UIs, Messages

\* However many clients the session of session.ts goes through, whatever their
\* connections do and however late a rejection is handled, controls.ts shows
\* no control armed, pending or failed that was asked of another unit, and
\* calls a request failed only when its own command was rejected.
THEOREM NothingOfAnotherUnit == Spec => []ShownForItsOwn
  BY Initially, Preserved, OwnIfOwned, PTL DEF Spec
=============================================================================
