----------------------------- MODULE Positions -----------------------------
(***************************************************************************)
(* Where a capture was taken, end to end: the phone's position sharing     *)
(* (Geo), the link, the unit's resolver (GpsResolver), and the two ways    *)
(* its answer comes back to the phone: the reply to gps_data, and the      *)
(* stats frame the ticker broadcasts.  Both set the gps store, which       *)
(* decides whether the phone pushes at all.  What comes down the link      *)
(* arrives at once or not at all.                                          *)
(***************************************************************************)
EXTENDS Geo, GpsResolver

vars == <<phone, piFix, usable, sent, resolver>>

\* The socket is lost, with what was on its way, and comes back.
LinkDrops ==
  /\ usable /\ usable' = FALSE
  /\ sent' = <<>>
  /\ UNCHANGED <<phone, piFix, resolver>>

LinkReturns ==
  /\ ~usable /\ usable' = TRUE
  /\ UNCHANGED <<phone, piFix, sent, resolver>>

\* Router.handle meets a gps_data frame.
GpsDataArrives ==
  /\ sent # <<>>
  /\ StorePosition
  /\ sent' = Tail(sent)
  /\ UNCHANGED <<phone, piFix, usable>>

\* Mutant of Learns: only the reply to gps_data feeds the gps store.
LearnsFromReplies(th) ==
  IF usable /\ th = "loop" /\ call[th].at = "returned"
  THEN piFix' = (call[th].answer.from \in {"bettercap", "gpsd"})
  ELSE UNCHANGED piFix

\* handleMessage of lib/stores.ts: stats and gps_update set the gps store. An
\* answer on the hook thread goes into a sidecar and a handshake push, which
\* do not.
Learns(th) ==
  IF usable /\ th \in {"loop", "ticker"} /\ call[th].at = "returned"
  THEN piFix' = (call[th].answer.from \in {"bettercap", "gpsd"})
  ELSE UNCHANGED piFix

\* The caller of current() uses the answer, or catches what it raised.
Answered(th) ==
  /\ call[th].at \in {"returned", "raised"}
  /\ Learns(th)
  /\ call' = [call EXCEPT ![th] = Resting]
  /\ UNCHANGED <<phone, usable, sent, caches, stored>>

Init == GeoInit /\ ResolverInit

Unit == ResolverNext /\ UNCHANGED <<phone, piFix, usable, sent>>
OnPhone == GeoNext /\ UNCHANGED resolver

Next ==
  \/ OnPhone \/ Unit
  \/ LinkDrops \/ LinkReturns \/ GpsDataArrives
  \/ \E th \in Threads : Answered(th)

Spec == Init /\ [][Next]_vars

\* The browser fires the push timer, the loop and the ticker run, and the
\* platform's callbacks are delivered. Watches, taps, hides, the link, the
\* device sources and the clock owe nothing.
Fairness ==
  /\ WF_vars(OnPhone /\ \E g \in running : TimerFires(g))
  /\ SF_vars(GpsDataArrives)
  /\ WF_vars(Answered("ticker") \/ (Unit /\ CurrentStep("ticker")))
  /\ \A th \in Threads \ {"ticker"} :
       WF_vars(Answered(th) \/ (Unit /\ call[th].at # "idle"
                                     /\ (CurrentStep(th) \/ (th = "loop" /\ StampPosition))))

FairSpec == Spec /\ Fairness

-----------------------------------------------------------------------------
(* Properties *)

TypeOK == GeoTypeOK /\ ResolverTypeOK

\* SPEC.md 4.6.2: "a unit whose on-Pi fix drops while the app is open must
\* start receiving pushes without anyone touching the control". While nothing
\* else stands in the way, the phone's position is stored again and again.
Sharing ==
  /\ control /\ ~hidden /\ last # 0 /\ usable
  /\ source # "none" /\ ~bettercap /\ ~gpsd
PushesResume == []<>(Sharing => call["loop"].at = "stamp")
=============================================================================
