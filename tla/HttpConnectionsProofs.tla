------------------------ MODULE HttpConnectionsProofs ------------------------
(***************************************************************************)
(* For any caps, deadlines and number of connections: the HTTPS listener   *)
(* stays within its caps, loses no socket, is silent about its own closes, *)
(* keeps what was used last, limits its reports and ends every handshake   *)
(* when it stops.                                                          *)
(***************************************************************************)
EXTENDS HttpConnections, FiniteSetTheorems, TLAPS

Phases == {"idle", "accepted", "spawned", "handshake", "shaken", "broken", "expiring", "counted",
           "failed", "setup", "headers", "reading", "responding", "timedout", "errored", "teardown",
           "released", "closing", "done"}
\* The phases in which the connection is the listener's to shut.
Early == Phases \ {"idle", "closing", "done"}
Starting == {"count", "report", "close", "spawn"}
ServerAts == {"poll", "accepting", "cleanup", "exited"} \cup Starting
Owners == {"up", "asked", "drained", "closed", "stopped"}

\* The variables have the shapes the code gives them.
TypeOK ==
  /\ phase \in [Conns -> Phases]
  /\ deadline \in [Conns -> Nat] /\ now \in Nat
  /\ allowance \in [Conns -> Nat] /\ since \in [Conns -> Nat] /\ partial \subseteq Conns
  /\ begun \subseteq Conns
  /\ open \subseteq Conns /\ pending \subseteq Conns /\ live \subseteq Conns
  /\ evicted \subseteq Conns /\ drained \subseteq Conns
  /\ server \in [at : ServerAts, new : SUBSET Conns, victims : SUBSET Conns]
  /\ owner \in Owners
  /\ cause \in [Conns -> {"none", "thread", "listener", "peer", "deadline", "cut"}]

\* The newcomer the accept loop has in hand, and that a drain finds no loop.
Accepting ==
  /\ server.at \in {"poll", "accepting", "exited"} => server.new = {}
  /\ server.at \in ServerAts \ {"count", "report", "close"} => server.victims = {}
  /\ \A c, d \in server.new : c = d
  /\ \A c \in Conns : phase[c] = "accepted" <=> server.at \in Starting /\ c \in server.new
  /\ owner \in {"drained", "closed", "stopped"} => server.at = "exited" /\ pending = {}
  /\ owner # "drained" => drained = {}

\* Where a connection may be: which registries hold it, who has closed or is
\* closing it, and that a close of the listener's own is on record for as
\* long as the connection's thread may trip over it.
Held(c) ==
  /\ c \in pending => phase[c] \in Early \ (Serving \cup {"timedout", "released"}) /\ c \in live
  /\ c \in live => phase[c] \in Early
  /\ c \in evicted => phase[c] \in Early
  /\ c \in open => phase[c] \in Early \cup {"closing"}
  /\ c \in open => c \in live \cup server.victims \/ phase[c] = "closing"
  /\ c \in open /\ phase[c] \in {"accepted", "spawned", "handshake"} =>
       c \in pending \cup server.victims \cup drained
  /\ c \in server.victims \cup drained => phase[c] # "idle"
Excused(c) ==
  /\ phase[c] \in Early => c \in open \cup evicted
  /\ phase[c] \in Early /\ c \in server.victims \cup drained => c \in evicted
  /\ phase[c] \in {"expiring", "counted"} => c \in evicted
  /\ phase[c] \in Early /\ cause[c] = "listener" => c \in evicted \/ (phase[c] = "broken" /\ Late(c))
  /\ phase[c] = "idle" => cause[c] = "none"
  /\ phase[c] = "timedout" => cause[c] \in {"deadline", "peer"}
  /\ cause[c] = "deadline" => phase[c] \in {"timedout", "teardown", "released", "closing", "done"}

\* Every set of keys has a first in the order.
WellOrdered(order, keys) == \A s \in SUBSET keys : s # {} => First(order, s) # {}

Capped ==
  /\ IsFiniteSet(pending) /\ Cardinality(pending) <= MaxPending /\ WellOrdered(arrived, pending)
  /\ IsFiniteSet(live) /\ Cardinality(live) <= MaxLive /\ WellOrdered(recency, live)

\* What was used last comes before nothing.
Latest == \A a \in lastActive : \A b \in live \ {a} : <<a, b>> \notin recency

\* A window opens after the last report, and both lie in the past.
Windows ==
  /\ window \subseteq 0 .. now /\ lastReport \subseteq 0 .. now
  /\ \A t \in lastReport, w \in window : t <= w

IInv ==
  /\ TypeOK /\ Accepting /\ \A c \in Conns : Held(c) /\ Excused(c)
  /\ Capped /\ Latest /\ Windows /\ OwnClosesAreSilent

USE DEF Early, Starting

-----------------------------------------------------------------------------
(* The ordered dictionaries *)

\* A set past its cap by one is back at it without its first key.
LEMMA VictimsMakeRoom ==
  ASSUME NEW keys, NEW order, NEW cap \in Nat, IsFiniteSet(keys), Cardinality(keys) <= cap + 1,
         WellOrdered(order, keys)
  PROVE  LET kept == keys \ Victims(keys, order, cap)
         IN  IsFiniteSet(kept) /\ Cardinality(kept) <= cap
<1>1. CASE Cardinality(keys) <= cap
  <2>1. ~(Cardinality(keys) > cap)  BY <1>1, FS_CardinalityType
  <2>2. keys \ Victims(keys, order, cap) = keys  BY <2>1 DEF Victims
  <2> QED  BY <1>1, <2>2
<1>2. CASE Cardinality(keys) > cap
  <2>1. keys # {}  BY <1>2, FS_EmptySet
  <2>2. PICK a \in keys : a \in First(order, keys)  BY <2>1 DEF WellOrdered, First
  <2>3. IsFiniteSet(keys \ {a}) /\ Cardinality(keys \ {a}) <= cap
    BY <1>2, FS_RemoveElement, FS_CardinalityType
  <2>4. keys \ Victims(keys, order, cap) \subseteq keys \ {a}  BY <1>2, <2>2 DEF Victims
  <2>5. /\ IsFiniteSet(keys \ Victims(keys, order, cap))
        /\ Cardinality(keys \ Victims(keys, order, cap)) <= Cardinality(keys \ {a})
    BY <2>3, <2>4, FS_Subset
  <2> QED  BY <2>3, <2>5, FS_CardinalityType
<1> QED  BY <1>1, <1>2, FS_CardinalityType

\* A key put at the end keeps the set well ordered; so does taking keys out.
LEMMA ToEndOrdered ==
  ASSUME NEW keys, NEW order, NEW c, WellOrdered(order, keys)
  PROVE  WellOrdered(ToEnd(order, keys, c), keys \cup {c})
<1> DEFINE o == ToEnd(order, keys, c)
<1> SUFFICES ASSUME NEW s \in SUBSET (keys \cup {c}), s # {} PROVE First(o, s) # {}
  BY DEF WellOrdered
<1>1. CASE s \ {c} = {}
  <2>1. s = {c}  BY <1>1
  <2>2. c \in First(o, s)  BY <2>1 DEF First
  <2> QED  BY <2>2
<1>2. CASE s \ {c} # {}
  <2>1. First(order, s \ {c}) # {}  BY <1>2 DEF WellOrdered
  <2>2. PICK a \in s \ {c} : \A b \in (s \ {c}) \ {a} : <<a, b>> \in order  BY <2>1 DEF First
  <2>3. ASSUME NEW b \in s \ {a} PROVE <<a, b>> \in o
    <3>1. CASE b = c  BY <3>1 DEF ToEnd
    <3>2. CASE b # c
      <4>1. <<a, b>> \in order  BY <2>2, <3>2
      <4> QED  BY <3>2, <4>1 DEF ToEnd
    <3> QED  BY <3>1, <3>2
  <2>4. a \in First(o, s)  BY <2>3 DEF First
  <2> QED  BY <2>4
<1> QED  BY <1>1, <1>2

LEMMA FewerOrdered ==
  ASSUME NEW keys, NEW fewer \in SUBSET keys, NEW order, WellOrdered(order, keys)
  PROVE  WellOrdered(order, fewer)
  BY DEF WellOrdered

LEMMA VictimsAreKeys ==
  ASSUME NEW keys, NEW order, NEW cap PROVE Victims(keys, order, cap) \subseteq keys
  BY DEF Victims, First

-----------------------------------------------------------------------------
(* Typing *)

LEMMA TypeStep == ASSUME TypeOK, Next PROVE TypeOK'
<1> USE DEF TypeOK, Phases, registries, history, activity, waits, unload, Serving
<1>1. ASSUME NEW c \in Conns, EnterHandshake(c) PROVE TypeOK'
  BY <1>1, HttpAssumption DEF EnterHandshake, HttpAssumption, Phases
<1>2. ASSUME NEW c \in Conns, HandshakeSucceeds(c) PROVE TypeOK'
  BY <1>2 DEF HandshakeSucceeds
<1>3. ASSUME NEW c \in Conns, HandshakeRaises(c) PROVE TypeOK'
  BY <1>3 DEF HandshakeRaises
<1>4. ASSUME NEW c \in Conns, JudgeFailure(c) PROVE TypeOK'
  BY <1>4 DEF JudgeFailure, Marked
<1>5. ASSUME NEW c \in Conns, CountExpiry(c) PROVE TypeOK'
  BY <1>5 DEF CountExpiry
<1>6. ASSUME NEW c \in Conns, ReportExpiry(c) PROVE TypeOK'
  BY <1>6 DEF ReportExpiry
<1>7. ASSUME NEW c \in Conns, HandshakeDone(c) PROVE TypeOK'
  BY <1>7 DEF HandshakeDone
<1>8. ASSUME NEW c \in Conns, Setup(c) PROVE TypeOK'
  BY <1>8, HttpAssumption DEF Setup, HttpAssumption
<1>9. ASSUME NEW c \in Conns, StartRead(c) PROVE TypeOK'
  BY <1>9 DEF StartRead, Late
<1>10. ASSUME NEW c \in Conns, PartArrives(c) PROVE TypeOK'
  BY <1>10 DEF PartArrives
<1>11. ASSUME NEW c \in Conns, LineArrives(c) PROVE TypeOK'
  BY <1>11 DEF LineArrives, Returned
<1>12. ASSUME NEW c \in Conns, HeadersEnd(c) PROVE TypeOK'
  BY <1>12, HttpAssumption DEF HeadersEnd, HttpAssumption
<1>13. ASSUME NEW c \in Conns, Write(c) PROVE TypeOK'
  BY <1>13 DEF Write, Touch
<1>14. ASSUME NEW c \in Conns, TimesOut(c) PROVE TypeOK'
  BY <1>14 DEF TimesOut, Expired, Returned
<1>15. ASSUME NEW c \in Conns, LogError(c) PROVE TypeOK'
  BY <1>15 DEF LogError
<1>16. ASSUME NEW c \in Conns, ServeEnds(c) PROVE TypeOK'
  BY <1>16 DEF ServeEnds, Returned
<1>17. ASSUME NEW c \in Conns, ServeRaises(c) PROVE TypeOK'
  BY <1>17 DEF ServeRaises, Returned
<1>18. ASSUME NEW c \in Conns, HandleError(c) PROVE TypeOK'
  BY <1>18 DEF HandleError
<1>19. ASSUME NEW c \in Conns, ReleaseSlot(c) PROVE TypeOK'
  BY <1>19 DEF ReleaseSlot
<1>20. ASSUME NEW c \in Conns, Forget(c) PROVE TypeOK'
  BY <1>20 DEF Forget
<1>21. ASSUME NEW c \in Conns, CloseOwn(c) PROVE TypeOK'
  BY <1>21 DEF CloseOwn
<1>22. ASSUME NEW c \in Conns, WrapFails(c) PROVE TypeOK'
  BY <1>22 DEF WrapFails, NoVictims, ServerAts
<1>23. ASSUME NEW c \in Conns, Register(c) PROVE TypeOK'
  <2>1. Victims(pending \cup {c}, arrived', MaxPending) \subseteq pending \cup {c}  BY VictimsAreKeys
  <2> DEFINE rest == (live \cup {c}) \ Victims(pending \cup {c}, arrived', MaxPending)
  <2>2. Victims(rest, recency', MaxLive) \subseteq rest  BY VictimsAreKeys
  <2>3. /\ UNCHANGED <<deadline, allowance, since, partial, begun, now, drained, owner, cause, logged>>
        /\ open' \subseteq Conns
        /\ phase' = [phase EXCEPT ![c] = "accepted"]  BY <1>23 DEF Register
  <2>4. pending' \subseteq Conns /\ live' \subseteq Conns  BY <1>23, <2>1, <2>2 DEF Register
  <2>5. evicted' \subseteq Conns  BY <1>23, <2>1, <2>2 DEF Register, Marked
  <2>6. server' \in [at : ServerAts, new : SUBSET Conns, victims : SUBSET Conns]
    BY <1>23, <2>1, <2>2 DEF Register, ServerAts
  <2> QED  BY <2>3, <2>4, <2>5, <2>6
<1>24. ASSUME NEW c \in Conns, Spawn(c) PROVE TypeOK'
  BY <1>24 DEF Spawn, NoVictims, ServerAts
<1>25. ASSUME NEW c \in Conns, CleanupDone(c) PROVE TypeOK'
  BY <1>25 DEF CleanupDone, NoVictims, ServerAts
<1>26. CASE Poll
  BY <1>26 DEF Poll, ServerAts
<1>27. CASE CountClosure
  BY <1>27 DEF CountClosure, ServerAts
<1>28. CASE ReportClosure
  BY <1>28 DEF ReportClosure, ServerAts
<1>29. CASE CloseVictims
  BY <1>29 DEF CloseVictims, ServerAts
<1>30. CASE AskShutdown
  BY <1>30 DEF AskShutdown, Owners
<1>31. CASE LoopExits
  BY <1>31 DEF LoopExits, ServerAts
<1>32. CASE Drain
  BY <1>32 DEF Drain, Marked, Owners
<1>33. CASE CloseDrained
  BY <1>33 DEF CloseDrained, Owners
<1>34. CASE FinalReport
  BY <1>34 DEF FinalReport, Owners
<1>35. CASE Tick
  BY <1>35 DEF Tick
<1>36. ASSUME NEW c \in Conns, ParseFails(c) PROVE TypeOK'
  BY <1>36 DEF ParseFails
<1>37. ASSUME NEW c \in Conns, RefuseRequest(c) PROVE TypeOK'
  BY <1>37 DEF RefuseRequest
<1> QED
  BY <1>1, <1>2, <1>3, <1>4, <1>5, <1>6, <1>7, <1>8, <1>9, <1>10, <1>11, <1>12, <1>13, <1>14,
     <1>15, <1>16, <1>17, <1>18, <1>19, <1>20, <1>21, <1>22, <1>23, <1>24, <1>25, <1>26, <1>27,
     <1>28, <1>29, <1>30, <1>31, <1>32, <1>33, <1>34, <1>35,
     <1>36, <1>37 DEF Next, Handler, Peer, AcceptLoop,
     Owner

-----------------------------------------------------------------------------
(* The accept loop and the drain *)

LEMMA AcceptingStep == ASSUME TypeOK, TypeOK', Accepting, Next PROVE Accepting'
<1> USE DEF TypeOK, Accepting, Phases, ServerAts, Owners,
            registries, history, activity, waits, unload, Serving
<1>1. ASSUME NEW c \in Conns, EnterHandshake(c) PROVE Accepting'
  BY <1>1 DEF EnterHandshake
<1>2. ASSUME NEW c \in Conns, HandshakeSucceeds(c) PROVE Accepting'
  BY <1>2 DEF HandshakeSucceeds
<1>3. ASSUME NEW c \in Conns, HandshakeRaises(c) PROVE Accepting'
  BY <1>3 DEF HandshakeRaises
<1>4. ASSUME NEW c \in Conns, JudgeFailure(c) PROVE Accepting'
  BY <1>4 DEF JudgeFailure
<1>5. ASSUME NEW c \in Conns, CountExpiry(c) PROVE Accepting'
  BY <1>5 DEF CountExpiry
<1>6. ASSUME NEW c \in Conns, ReportExpiry(c) PROVE Accepting'
  BY <1>6 DEF ReportExpiry
<1>7. ASSUME NEW c \in Conns, HandshakeDone(c) PROVE Accepting'
  BY <1>7 DEF HandshakeDone
<1>8. ASSUME NEW c \in Conns, Setup(c) PROVE Accepting'
  BY <1>8 DEF Setup
<1>9. ASSUME NEW c \in Conns, StartRead(c) PROVE Accepting'
  BY <1>9 DEF StartRead, Touch
<1>10. ASSUME NEW c \in Conns, PartArrives(c) PROVE Accepting'
  BY <1>10 DEF PartArrives
<1>11. ASSUME NEW c \in Conns, LineArrives(c) PROVE Accepting'
  BY <1>11 DEF LineArrives, Returned
<1>12. ASSUME NEW c \in Conns, HeadersEnd(c) PROVE Accepting'
  BY <1>12 DEF HeadersEnd
<1>13. ASSUME NEW c \in Conns, Write(c) PROVE Accepting'
  BY <1>13 DEF Write, Touch
<1>14. ASSUME NEW c \in Conns, TimesOut(c) PROVE Accepting'
  BY <1>14 DEF TimesOut, Expired, Returned
<1>15. ASSUME NEW c \in Conns, LogError(c) PROVE Accepting'
  BY <1>15 DEF LogError
<1>16. ASSUME NEW c \in Conns, ServeEnds(c) PROVE Accepting'
  BY <1>16 DEF ServeEnds, Returned
<1>17. ASSUME NEW c \in Conns, ServeRaises(c) PROVE Accepting'
  BY <1>17 DEF ServeRaises, Returned
<1>18. ASSUME NEW c \in Conns, HandleError(c) PROVE Accepting'
  BY <1>18 DEF HandleError
<1>19. ASSUME NEW c \in Conns, ReleaseSlot(c) PROVE Accepting'
  BY <1>19 DEF ReleaseSlot
<1>20. ASSUME NEW c \in Conns, Forget(c) PROVE Accepting'
  BY <1>20 DEF Forget
<1>21. ASSUME NEW c \in Conns, CloseOwn(c) PROVE Accepting'
  BY <1>21 DEF CloseOwn
<1>22. ASSUME NEW c \in Conns, WrapFails(c) PROVE Accepting'
  BY <1>22 DEF WrapFails, NoVictims
<1>23. ASSUME NEW c \in Conns, Register(c) PROVE Accepting'
  BY <1>23 DEF Register, NoVictims
<1>24. ASSUME NEW c \in Conns, Spawn(c) PROVE Accepting'
  BY <1>24 DEF Spawn, NoVictims
<1>25. ASSUME NEW c \in Conns, CleanupDone(c) PROVE Accepting'
  BY <1>25 DEF CleanupDone, NoVictims
<1>26. CASE Poll
  BY <1>26 DEF Poll
<1>27. CASE CountClosure
  BY <1>27 DEF CountClosure
<1>28. CASE ReportClosure
  BY <1>28 DEF ReportClosure
<1>29. CASE CloseVictims
  BY <1>29 DEF CloseVictims
<1>30. CASE AskShutdown
  BY <1>30 DEF AskShutdown
<1>31. CASE LoopExits
  BY <1>31 DEF LoopExits
<1>32. CASE Drain
  BY <1>32 DEF Drain, LoopGone
<1>33. CASE CloseDrained
  BY <1>33 DEF CloseDrained
<1>34. CASE FinalReport
  BY <1>34 DEF FinalReport
<1>35. CASE Tick
  BY <1>35 DEF Tick
<1>36. ASSUME NEW c \in Conns, ParseFails(c) PROVE Accepting'
  BY <1>36 DEF ParseFails
<1>37. ASSUME NEW c \in Conns, RefuseRequest(c) PROVE Accepting'
  BY <1>37 DEF RefuseRequest
<1> QED
  BY <1>1, <1>2, <1>3, <1>4, <1>5, <1>6, <1>7, <1>8, <1>9, <1>10, <1>11, <1>12, <1>13, <1>14,
     <1>15, <1>16, <1>17, <1>18, <1>19, <1>20, <1>21, <1>22, <1>23, <1>24, <1>25, <1>26, <1>27,
     <1>28, <1>29, <1>30, <1>31, <1>32, <1>33, <1>34, <1>35,
     <1>36, <1>37 DEF Next, Handler, Peer, AcceptLoop,
     Owner

-----------------------------------------------------------------------------
(* Where a connection is, and on whose account *)

\* The connections of interest are those Held and Excused.
Kept == \A c \in Conns : Held(c) /\ Excused(c)

LEMMA HeldStep == ASSUME TypeOK, TypeOK', Accepting, Kept, NEW d \in Conns, Next PROVE Held(d)'
<1> USE DEF TypeOK, Kept, Held, Accepting, Phases, ServerAts, Owners,
            registries, history, activity, waits, unload, Serving
<1>1. ASSUME NEW c \in Conns, EnterHandshake(c) PROVE Held(d)'
  BY <1>1 DEF EnterHandshake
<1>2. ASSUME NEW c \in Conns, HandshakeSucceeds(c) PROVE Held(d)'
  BY <1>2 DEF HandshakeSucceeds
<1>3. ASSUME NEW c \in Conns, HandshakeRaises(c) PROVE Held(d)'
  BY <1>3 DEF HandshakeRaises
<1>4. ASSUME NEW c \in Conns, JudgeFailure(c) PROVE Held(d)'
  BY <1>4 DEF JudgeFailure, Marked
<1>5. ASSUME NEW c \in Conns, CountExpiry(c) PROVE Held(d)'
  BY <1>5 DEF CountExpiry
<1>6. ASSUME NEW c \in Conns, ReportExpiry(c) PROVE Held(d)'
  BY <1>6 DEF ReportExpiry
<1>7. ASSUME NEW c \in Conns, HandshakeDone(c) PROVE Held(d)'
  BY <1>7 DEF HandshakeDone
<1>8. ASSUME NEW c \in Conns, Setup(c) PROVE Held(d)'
  BY <1>8 DEF Setup
<1>9. ASSUME NEW c \in Conns, StartRead(c) PROVE Held(d)'
  BY <1>9 DEF StartRead, Touch
<1>10. ASSUME NEW c \in Conns, PartArrives(c) PROVE Held(d)'
  BY <1>10 DEF PartArrives
<1>11. ASSUME NEW c \in Conns, LineArrives(c) PROVE Held(d)'
  BY <1>11 DEF LineArrives, Returned
<1>12. ASSUME NEW c \in Conns, HeadersEnd(c) PROVE Held(d)'
  BY <1>12 DEF HeadersEnd
<1>13. ASSUME NEW c \in Conns, Write(c) PROVE Held(d)'
  BY <1>13 DEF Write, Touch
<1>14. ASSUME NEW c \in Conns, TimesOut(c) PROVE Held(d)'
  BY <1>14 DEF TimesOut, Expired, Returned
<1>15. ASSUME NEW c \in Conns, LogError(c) PROVE Held(d)'
  BY <1>15 DEF LogError
<1>16. ASSUME NEW c \in Conns, ServeEnds(c) PROVE Held(d)'
  BY <1>16 DEF ServeEnds, Returned
<1>17. ASSUME NEW c \in Conns, ServeRaises(c) PROVE Held(d)'
  BY <1>17 DEF ServeRaises, Returned
<1>18. ASSUME NEW c \in Conns, HandleError(c) PROVE Held(d)'
  BY <1>18 DEF HandleError
<1>19. ASSUME NEW c \in Conns, ReleaseSlot(c) PROVE Held(d)'
  BY <1>19 DEF ReleaseSlot
<1>20. ASSUME NEW c \in Conns, Forget(c) PROVE Held(d)'
  BY <1>20 DEF Forget
<1>21. ASSUME NEW c \in Conns, CloseOwn(c) PROVE Held(d)'
  BY <1>21 DEF CloseOwn
<1>22. ASSUME NEW c \in Conns, WrapFails(c) PROVE Held(d)'
  BY <1>22 DEF WrapFails, NoVictims
<1>23. ASSUME NEW c \in Conns, Register(c) PROVE Held(d)'
  <2> DEFINE h == Victims(pending \cup {c}, arrived', MaxPending)
            rest == (live \cup {c}) \ h
            i == Victims(rest, recency', MaxLive)
  <2>1. h \subseteq pending \cup {c} /\ i \subseteq rest  BY VictimsAreKeys
  <2>2. /\ pending' = ((pending \cup {c}) \ h) \ i /\ live' = rest \ i
        /\ evicted' = evicted \cup (h \cup i) /\ server'.victims = h \cup i
        /\ open' = open \cup {c} /\ phase' = [phase EXCEPT ![c] = "accepted"]
        /\ phase[c] = "idle" /\ UNCHANGED <<deadline, now, drained, owner, cause, logged>>
    BY <1>23 DEF Register, Marked
  <2>3. server.victims = {} /\ drained = {}  BY <1>23 DEF Register
  <2> HIDE DEF h, i
  <2> QED  BY <2>1, <2>2, <2>3
<1>24. ASSUME NEW c \in Conns, Spawn(c) PROVE Held(d)'
  BY <1>24 DEF Spawn, NoVictims
<1>25. ASSUME NEW c \in Conns, CleanupDone(c) PROVE Held(d)'
  BY <1>25 DEF CleanupDone, NoVictims
<1>26. CASE Poll
  BY <1>26 DEF Poll
<1>27. CASE CountClosure
  BY <1>27 DEF CountClosure
<1>28. CASE ReportClosure
  BY <1>28 DEF ReportClosure
<1>29. CASE CloseVictims
  BY <1>29 DEF CloseVictims
<1>30. CASE AskShutdown
  BY <1>30 DEF AskShutdown
<1>31. CASE LoopExits
  BY <1>31 DEF LoopExits
<1>32. CASE Drain
  BY <1>32 DEF Drain, LoopGone, Marked
<1>33. CASE CloseDrained
  BY <1>33 DEF CloseDrained
<1>34. CASE FinalReport
  BY <1>34 DEF FinalReport
<1>35. CASE Tick
  BY <1>35 DEF Tick
<1>36. ASSUME NEW c \in Conns, ParseFails(c) PROVE Held(d)'
  BY <1>36 DEF ParseFails
<1>37. ASSUME NEW c \in Conns, RefuseRequest(c) PROVE Held(d)'
  BY <1>37 DEF RefuseRequest
<1> QED
  BY <1>1, <1>2, <1>3, <1>4, <1>5, <1>6, <1>7, <1>8, <1>9, <1>10, <1>11, <1>12, <1>13, <1>14,
     <1>15, <1>16, <1>17, <1>18, <1>19, <1>20, <1>21, <1>22, <1>23, <1>24, <1>25, <1>26, <1>27,
     <1>28, <1>29, <1>30, <1>31, <1>32, <1>33, <1>34, <1>35,
     <1>36, <1>37 DEF Next, Handler, Peer, AcceptLoop,
     Owner

LEMMA ExcusedStep == ASSUME TypeOK, TypeOK', Accepting, Kept, NEW d \in Conns, Next PROVE Excused(d)'
<1> USE DEF TypeOK, Kept, Held, Excused, Accepting, Late, Phases, ServerAts, Owners,
            registries, history, activity, waits, unload, Serving
<1>1. ASSUME NEW c \in Conns, EnterHandshake(c) PROVE Excused(d)'
  BY <1>1 DEF EnterHandshake
<1>2. ASSUME NEW c \in Conns, HandshakeSucceeds(c) PROVE Excused(d)'
  BY <1>2 DEF HandshakeSucceeds
<1>3. ASSUME NEW c \in Conns, HandshakeRaises(c) PROVE Excused(d)'
  BY <1>3 DEF HandshakeRaises
<1>4. ASSUME NEW c \in Conns, JudgeFailure(c) PROVE Excused(d)'
  BY <1>4 DEF JudgeFailure, Marked
<1>5. ASSUME NEW c \in Conns, CountExpiry(c) PROVE Excused(d)'
  BY <1>5 DEF CountExpiry
<1>6. ASSUME NEW c \in Conns, ReportExpiry(c) PROVE Excused(d)'
  BY <1>6 DEF ReportExpiry
<1>7. ASSUME NEW c \in Conns, HandshakeDone(c) PROVE Excused(d)'
  BY <1>7 DEF HandshakeDone
<1>8. ASSUME NEW c \in Conns, Setup(c) PROVE Excused(d)'
  BY <1>8 DEF Setup
<1>9. ASSUME NEW c \in Conns, StartRead(c) PROVE Excused(d)'
  BY <1>9 DEF StartRead, Touch
<1>10. ASSUME NEW c \in Conns, PartArrives(c) PROVE Excused(d)'
  BY <1>10 DEF PartArrives
<1>11. ASSUME NEW c \in Conns, LineArrives(c) PROVE Excused(d)'
  BY <1>11 DEF LineArrives, Returned
<1>12. ASSUME NEW c \in Conns, HeadersEnd(c) PROVE Excused(d)'
  BY <1>12 DEF HeadersEnd
<1>13. ASSUME NEW c \in Conns, Write(c) PROVE Excused(d)'
  BY <1>13 DEF Write, Touch
<1>14. ASSUME NEW c \in Conns, TimesOut(c) PROVE Excused(d)'
  BY <1>14 DEF TimesOut, Expired, Returned
<1>15. ASSUME NEW c \in Conns, LogError(c) PROVE Excused(d)'
  BY <1>15 DEF LogError
<1>16. ASSUME NEW c \in Conns, ServeEnds(c) PROVE Excused(d)'
  BY <1>16 DEF ServeEnds, Returned
<1>17. ASSUME NEW c \in Conns, ServeRaises(c) PROVE Excused(d)'
  BY <1>17 DEF ServeRaises, Returned
<1>18. ASSUME NEW c \in Conns, HandleError(c) PROVE Excused(d)'
  BY <1>18 DEF HandleError
<1>19. ASSUME NEW c \in Conns, ReleaseSlot(c) PROVE Excused(d)'
  BY <1>19 DEF ReleaseSlot
<1>20. ASSUME NEW c \in Conns, Forget(c) PROVE Excused(d)'
  BY <1>20 DEF Forget
<1>21. ASSUME NEW c \in Conns, CloseOwn(c) PROVE Excused(d)'
  BY <1>21 DEF CloseOwn
<1>22. ASSUME NEW c \in Conns, WrapFails(c) PROVE Excused(d)'
  BY <1>22 DEF WrapFails, NoVictims
<1>23. ASSUME NEW c \in Conns, Register(c) PROVE Excused(d)'
  <2> DEFINE h == Victims(pending \cup {c}, arrived', MaxPending)
            rest == (live \cup {c}) \ h
            i == Victims(rest, recency', MaxLive)
  <2>1. h \subseteq pending \cup {c} /\ i \subseteq rest  BY VictimsAreKeys
  <2>2. /\ pending' = ((pending \cup {c}) \ h) \ i /\ live' = rest \ i
        /\ evicted' = evicted \cup (h \cup i) /\ server'.victims = h \cup i
        /\ open' = open \cup {c} /\ phase' = [phase EXCEPT ![c] = "accepted"]
        /\ phase[c] = "idle" /\ UNCHANGED <<deadline, now, drained, owner, cause, logged>>
    BY <1>23 DEF Register, Marked
  <2>3. server.victims = {} /\ drained = {}  BY <1>23 DEF Register
  <2> HIDE DEF h, i
  <2> QED  BY <2>1, <2>2, <2>3
<1>24. ASSUME NEW c \in Conns, Spawn(c) PROVE Excused(d)'
  BY <1>24 DEF Spawn, NoVictims
<1>25. ASSUME NEW c \in Conns, CleanupDone(c) PROVE Excused(d)'
  BY <1>25 DEF CleanupDone, NoVictims
<1>26. CASE Poll
  BY <1>26 DEF Poll
<1>27. CASE CountClosure
  BY <1>27 DEF CountClosure
<1>28. CASE ReportClosure
  BY <1>28 DEF ReportClosure
<1>29. CASE CloseVictims
  BY <1>29 DEF CloseVictims
<1>30. CASE AskShutdown
  BY <1>30 DEF AskShutdown
<1>31. CASE LoopExits
  BY <1>31 DEF LoopExits
<1>32. CASE Drain
  BY <1>32 DEF Drain, LoopGone, Marked
<1>33. CASE CloseDrained
  BY <1>33 DEF CloseDrained
<1>34. CASE FinalReport
  BY <1>34 DEF FinalReport
<1>35. CASE Tick
  BY <1>35 DEF Tick
<1>36. ASSUME NEW c \in Conns, ParseFails(c) PROVE Excused(d)'
  BY <1>36 DEF ParseFails
<1>37. ASSUME NEW c \in Conns, RefuseRequest(c) PROVE Excused(d)'
  BY <1>37 DEF RefuseRequest
<1> QED
  BY <1>1, <1>2, <1>3, <1>4, <1>5, <1>6, <1>7, <1>8, <1>9, <1>10, <1>11, <1>12, <1>13, <1>14,
     <1>15, <1>16, <1>17, <1>18, <1>19, <1>20, <1>21, <1>22, <1>23, <1>24, <1>25, <1>26, <1>27,
     <1>28, <1>29, <1>30, <1>31, <1>32, <1>33, <1>34, <1>35,
     <1>36, <1>37 DEF Next, Handler, Peer, AcceptLoop,
     Owner

-----------------------------------------------------------------------------
(* The caps, the recency order, the report *)

\* Registering a newcomer makes room for it at both caps.
LEMMA RegisterCaps ==
  ASSUME TypeOK, Capped, NEW c \in Conns, Register(c)
  PROVE  Capped'
<1> DEFINE more == pending \cup {c}
           h == Victims(more, arrived', MaxPending)
           rest == (live \cup {c}) \ h
           i == Victims(rest, recency', MaxLive)
<1>1. /\ pending' = (more \ h) \ i /\ live' = rest \ i
      /\ arrived' = ToEnd(arrived, pending, c) /\ recency' = ToEnd(recency, live, c)
  BY DEF Register
<1>2. WellOrdered(arrived', more) /\ WellOrdered(recency', live \cup {c})
  BY <1>1, ToEndOrdered DEF Capped
<1> HIDE DEF h, rest, i
<1>12. Cardinality(pending) \in Nat /\ Cardinality(live) \in Nat
  BY FS_CardinalityType DEF Capped
<1>3. IsFiniteSet(more) /\ Cardinality(more) <= MaxPending + 1
  <2>1. /\ IsFiniteSet(more)
        /\ Cardinality(more) = IF c \in pending THEN Cardinality(pending) ELSE Cardinality(pending) + 1
    BY FS_AddElement DEF Capped
  <2> QED  BY <1>12, <2>1, HttpAssumption DEF Capped, HttpAssumption
<1>4. IsFiniteSet(more \ h) /\ Cardinality(more \ h) <= MaxPending
  BY <1>2, <1>3, VictimsMakeRoom, HttpAssumption DEF HttpAssumption, h
<1>5. IsFiniteSet(live \cup {c}) /\ Cardinality(live \cup {c}) <= MaxLive + 1
  <2>1. /\ IsFiniteSet(live \cup {c})
        /\ Cardinality(live \cup {c}) = IF c \in live THEN Cardinality(live) ELSE Cardinality(live) + 1
    BY FS_AddElement DEF Capped
  <2> QED  BY <1>12, <2>1, HttpAssumption DEF Capped, HttpAssumption
<1>6. rest \subseteq live \cup {c}  BY DEF rest
<1>7. IsFiniteSet(rest) /\ Cardinality(rest) <= MaxLive + 1
  BY <1>5, <1>6, FS_Subset, FS_CardinalityType, HttpAssumption DEF HttpAssumption
<1>8. WellOrdered(recency', rest)  BY <1>2, <1>6, FewerOrdered
<1>9. IsFiniteSet(rest \ i) /\ Cardinality(rest \ i) <= MaxLive
  BY <1>7, <1>8, VictimsMakeRoom, HttpAssumption DEF HttpAssumption, i
<1>10. IsFiniteSet(pending') /\ Cardinality(pending') <= MaxPending
  <2>1. pending' \subseteq more \ h  BY <1>1
  <2>2. IsFiniteSet(pending') /\ Cardinality(pending') <= Cardinality(more \ h)
    BY <1>4, <2>1, FS_Subset
  <2> QED  BY <1>4, <2>2, FS_CardinalityType, HttpAssumption DEF HttpAssumption
<1>11. WellOrdered(arrived', pending') /\ WellOrdered(recency', live')
  BY <1>1, <1>2, <1>8, FewerOrdered
<1> QED  BY <1>1, <1>9, <1>10, <1>11 DEF Capped

\* Everything else only takes keys out, or moves one to the end.
LEMMA FewerCapped ==
  ASSUME Capped, pending' \subseteq pending, live' \subseteq live, UNCHANGED arrived,
         recency' = recency \/ \E c \in live : recency' = ToEnd(recency, live, c)
  PROVE  Capped'
<1>1. /\ IsFiniteSet(pending') /\ Cardinality(pending') <= MaxPending
      /\ IsFiniteSet(live') /\ Cardinality(live') <= MaxLive
  BY FS_Subset, FS_CardinalityType, HttpAssumption DEF Capped, HttpAssumption
<1>2. WellOrdered(arrived', pending')  BY FewerOrdered DEF Capped
<1>3. CASE recency' = recency
  <2>1. WellOrdered(recency', live')  BY <1>3, FewerOrdered DEF Capped
  <2> QED  BY <1>1, <1>2, <2>1 DEF Capped
<1>4. ASSUME NEW c \in live, recency' = ToEnd(recency, live, c) PROVE Capped'
  <2>1. WellOrdered(recency', live)
    <3>1. live \cup {c} = live  OBVIOUS
    <3> QED  BY <1>4, <3>1, ToEndOrdered DEF Capped
  <2>2. WellOrdered(recency', live')  BY <2>1, FewerOrdered
  <2> QED  BY <1>1, <1>2, <2>2 DEF Capped
<1> QED  BY <1>3, <1>4

\* The only actions that add a key or move one.
LEMMA RegistriesShrink ==
  ASSUME TypeOK, Next
  PROVE  \/ \E c \in Conns : Register(c) \/ StartRead(c) \/ Write(c)
         \/ /\ pending' \subseteq pending /\ live' \subseteq live
            /\ lastActive' \subseteq lastActive /\ UNCHANGED <<arrived, recency>>
<1> USE DEF registries, activity
<1>1. ASSUME NEW c \in Conns,
            \/ EnterHandshake(c) \/ HandshakeSucceeds(c) \/ HandshakeRaises(c)
            \/ JudgeFailure(c) \/ CountExpiry(c)
      PROVE  /\ pending' \subseteq pending /\ live' \subseteq live
             /\ lastActive' \subseteq lastActive /\ UNCHANGED <<arrived, recency>>
  BY <1>1 DEF EnterHandshake, HandshakeSucceeds, HandshakeRaises, JudgeFailure, CountExpiry
<1>2. ASSUME NEW c \in Conns,
            \/ ReportExpiry(c) \/ HandshakeDone(c) \/ ServeEnds(c)
            \/ ServeRaises(c) \/ HandleError(c)
      PROVE  /\ pending' \subseteq pending /\ live' \subseteq live
             /\ lastActive' \subseteq lastActive /\ UNCHANGED <<arrived, recency>>
  BY <1>2 DEF ReportExpiry, HandshakeDone, ServeEnds, ServeRaises, HandleError
<1>3. ASSUME NEW c \in Conns,
            \/ ReleaseSlot(c) \/ Forget(c) \/ CloseOwn(c)
            \/ WrapFails(c) \/ Spawn(c) \/ CleanupDone(c)
      PROVE  /\ pending' \subseteq pending /\ live' \subseteq live
             /\ lastActive' \subseteq lastActive /\ UNCHANGED <<arrived, recency>>
  BY <1>3 DEF ReleaseSlot, Forget, CloseOwn, WrapFails, Spawn, CleanupDone
<1>4. CASE Poll \/ CountClosure \/ ReportClosure \/ CloseVictims \/ AskShutdown
  BY <1>4 DEF Poll, CountClosure, ReportClosure, CloseVictims, AskShutdown
<1>5. CASE LoopExits \/ Drain \/ CloseDrained \/ FinalReport \/ Tick
  BY <1>5 DEF LoopExits, Drain, CloseDrained, FinalReport, Tick
<1>6. ASSUME NEW c \in Conns,
            \/ Setup(c) \/ PartArrives(c) \/ LineArrives(c)
            \/ HeadersEnd(c) \/ ParseFails(c) \/ RefuseRequest(c) \/ TimesOut(c) \/ LogError(c)
      PROVE  /\ pending' \subseteq pending /\ live' \subseteq live
             /\ lastActive' \subseteq lastActive /\ UNCHANGED <<arrived, recency>>
  BY <1>6 DEF Setup, PartArrives, LineArrives, HeadersEnd, ParseFails, RefuseRequest,
            TimesOut, LogError
<1> QED
  BY <1>1, <1>2, <1>3, <1>4, <1>5, <1>6 DEF Next, Handler, Peer, AcceptLoop, Owner

LEMMA CappedStep == ASSUME TypeOK, Capped, Next PROVE Capped'
<1>1. ASSUME NEW c \in Conns, Register(c) PROVE Capped'  BY <1>1, RegisterCaps
<1>2. ASSUME NEW c \in Conns, StartRead(c) \/ Write(c) PROVE Capped'
  BY <1>2, FewerCapped DEF StartRead, Write, Touch, MarkUsed
<1> QED  BY <1>1, <1>2, RegistriesShrink, FewerCapped

LEMMA LatestStep == ASSUME TypeOK, Latest, Next PROVE Latest'
<1>1. ASSUME NEW c \in Conns, Register(c) PROVE Latest'
  <2>1. lastActive' = {c} /\ recency' = ToEnd(recency, live, c)  BY <1>1 DEF Register
  <2> QED  BY <2>1 DEF Latest, ToEnd
<1>2. ASSUME NEW c \in Conns, StartRead(c) \/ Write(c) PROVE Latest'
  <2>1. lastActive' = {c} \cap live /\ recency' = IF c \in live THEN ToEnd(recency, live, c) ELSE recency
    BY <1>2 DEF StartRead, Write, Touch, MarkUsed
  <2>2. UNCHANGED live  BY <1>2 DEF StartRead, Write
  <2> QED  BY <2>1, <2>2 DEF Latest, ToEnd
<1> QED  BY <1>1, <1>2, RegistriesShrink DEF Latest

\* What the actions do to the report.
LEMMA Reports ==
  ASSUME TypeOK, Next
  PROVE  \/ UNCHANGED counters /\ now' \in {now, now + 1}
         \/ OpenWindow /\ UNCHANGED <<lastReport, now>>
         \/ (Flush(FALSE) \/ FinalReport) /\ UNCHANGED now
<1> USE DEF counters
<1>1. ASSUME NEW c \in Conns,
            \/ EnterHandshake(c) \/ HandshakeSucceeds(c) \/ HandshakeRaises(c)
            \/ JudgeFailure(c) \/ CountExpiry(c)
      PROVE  \/ UNCHANGED counters /\ now' \in {now, now + 1}
             \/ OpenWindow /\ UNCHANGED <<lastReport, now>>
             \/ Flush(FALSE) /\ UNCHANGED now
  BY <1>1 DEF EnterHandshake, HandshakeSucceeds, HandshakeRaises, JudgeFailure, CountExpiry
<1>2. ASSUME NEW c \in Conns,
            \/ ReportExpiry(c) \/ HandshakeDone(c) \/ ServeEnds(c)
            \/ ServeRaises(c) \/ HandleError(c) \/ StartRead(c) \/ Write(c)
      PROVE  \/ UNCHANGED counters /\ now' \in {now, now + 1}
             \/ OpenWindow /\ UNCHANGED <<lastReport, now>>
             \/ Flush(FALSE) /\ UNCHANGED now
  BY <1>2 DEF ReportExpiry, HandshakeDone, ServeEnds, ServeRaises, HandleError, StartRead, Write
<1>3. ASSUME NEW c \in Conns,
            \/ ReleaseSlot(c) \/ Forget(c) \/ CloseOwn(c) \/ WrapFails(c)
            \/ Spawn(c) \/ CleanupDone(c) \/ Register(c)
      PROVE  \/ UNCHANGED counters /\ now' \in {now, now + 1}
             \/ OpenWindow /\ UNCHANGED <<lastReport, now>>
             \/ Flush(FALSE) /\ UNCHANGED now
  BY <1>3 DEF ReleaseSlot, Forget, CloseOwn, WrapFails, Spawn, CleanupDone, Register
<1>4. CASE Poll \/ CountClosure \/ ReportClosure \/ CloseVictims \/ AskShutdown
  BY <1>4 DEF Poll, CountClosure, ReportClosure, CloseVictims, AskShutdown
<1>5. CASE LoopExits \/ Drain \/ CloseDrained \/ FinalReport \/ Tick
  BY <1>5 DEF LoopExits, Drain, CloseDrained, FinalReport, Tick
<1>6. ASSUME NEW c \in Conns,
            \/ Setup(c) \/ PartArrives(c) \/ LineArrives(c)
            \/ HeadersEnd(c) \/ ParseFails(c) \/ RefuseRequest(c) \/ TimesOut(c) \/ LogError(c)
      PROVE  UNCHANGED counters /\ now' = now
  BY <1>6 DEF Setup, PartArrives, LineArrives, HeadersEnd, ParseFails, RefuseRequest,
            TimesOut, LogError
<1> QED
  BY <1>1, <1>2, <1>3, <1>4, <1>5, <1>6 DEF Next, Handler, Peer, AcceptLoop, Owner

LEMMA WindowsStep == ASSUME TypeOK, Windows, Next PROVE Windows'
<1> USE DEF Windows, TypeOK
<1>1. CASE UNCHANGED counters /\ now' \in {now, now + 1}  BY <1>1 DEF counters
<1>2. CASE OpenWindow /\ UNCHANGED <<lastReport, now>>  BY <1>2 DEF OpenWindow
<1>3. ASSUME NEW force \in BOOLEAN, Flush(force), UNCHANGED now PROVE Windows'
  <2>1. CASE Due(force)
    <3>1. window' = {} /\ lastReport' = IF force THEN lastReport ELSE {now}  BY <1>3, <2>1 DEF Flush
    <3> QED  BY <1>3, <3>1
  <2>2. CASE ~Due(force)  BY <1>3, <2>2 DEF Flush, counters
  <2> QED  BY <2>1, <2>2
<1> QED  BY <1>1, <1>2, <1>3, Reports DEF FinalReport

-----------------------------------------------------------------------------
(* The log *)

\* Who writes a line, and on whose account.
LEMMA Lines ==
  ASSUME TypeOK, Next
  PROVE  \/ logged' \subseteq logged \cup {"peer", "cut"}
         \/ \E c \in Conns : LogError(c) \/ HandleError(c)
<1> USE DEF history
<1>1. ASSUME NEW c \in Conns, ParseFails(c) \/ RefuseRequest(c)
      PROVE  logged' \subseteq logged \cup {"peer", "cut"}
  BY <1>1 DEF ParseFails, RefuseRequest
<1>2. ASSUME NEW c \in Conns,
            \/ EnterHandshake(c) \/ HandshakeSucceeds(c) \/ HandshakeRaises(c)
            \/ JudgeFailure(c) \/ CountExpiry(c) \/ ReportExpiry(c) \/ HandshakeDone(c)
      PROVE  logged' = logged
  BY <1>2 DEF EnterHandshake, HandshakeSucceeds, HandshakeRaises, JudgeFailure, CountExpiry,
              ReportExpiry, HandshakeDone
<1>3. ASSUME NEW c \in Conns,
            \/ Setup(c) \/ StartRead(c) \/ PartArrives(c) \/ LineArrives(c) \/ HeadersEnd(c)
            \/ Write(c) \/ TimesOut(c) \/ ServeEnds(c) \/ ServeRaises(c)
      PROVE  logged' = logged
  BY <1>3 DEF Setup, StartRead, PartArrives, LineArrives, HeadersEnd, Write, TimesOut, ServeEnds,
              ServeRaises
<1>4. ASSUME NEW c \in Conns,
            \/ ReleaseSlot(c) \/ Forget(c) \/ CloseOwn(c)
            \/ WrapFails(c) \/ Register(c) \/ Spawn(c) \/ CleanupDone(c)
      PROVE  logged' = logged
  BY <1>4 DEF ReleaseSlot, Forget, CloseOwn, WrapFails, Register, Spawn, CleanupDone
<1>5. CASE Poll \/ CountClosure \/ ReportClosure \/ CloseVictims \/ AskShutdown
  BY <1>5 DEF Poll, CountClosure, ReportClosure, CloseVictims, AskShutdown
<1>6. CASE LoopExits \/ Drain \/ CloseDrained \/ FinalReport \/ Tick
  BY <1>6 DEF LoopExits, Drain, CloseDrained, FinalReport, Tick
<1> QED
  BY <1>1, <1>2, <1>3, <1>4, <1>5, <1>6 DEF Next, Handler, Peer, AcceptLoop, Owner

\* handle_error finds a close of the listener's own on record, and log_error
\* knows the request deadline.
LEMMA SilentStep ==
  ASSUME TypeOK, Kept, OwnClosesAreSilent, Next
  PROVE  OwnClosesAreSilent'
<1> USE DEF OwnClosesAreSilent
<1>1. ASSUME NEW c \in Conns, LogError(c) PROVE OwnClosesAreSilent'
  <2>1. cause[c] \in {"deadline", "peer"}  BY <1>1 DEF LogError, Kept, Excused
  <2> QED  BY <1>1, <2>1 DEF LogError
<1>2. ASSUME NEW c \in Conns, HandleError(c) PROVE OwnClosesAreSilent'
  <2>1. phase[c] = "errored"  BY <1>2 DEF HandleError
  <2>2. cause[c] = "listener" => c \in evicted  BY <2>1 DEF Kept, Excused, Phases
  <2>3. cause[c] # "deadline"  BY <2>1 DEF Kept, Excused
  <2> QED  BY <1>2, <2>2, <2>3 DEF HandleError
<1> QED  BY <1>1, <1>2, Lines

-----------------------------------------------------------------------------
LEMMA Initially == Init => IInv
<1> SUFFICES ASSUME Init PROVE IInv
  OBVIOUS
<1> USE DEF Init
<1>1. TypeOK  BY DEF TypeOK, NoVictims, Phases, ServerAts, Owners
<1>2. Accepting  BY DEF Accepting, NoVictims, ServerAts
<1>3. \A c \in Conns : Held(c) /\ Excused(c)  BY DEF Held, Excused, NoVictims, Phases
<1>4. Capped
  <2>1. WellOrdered({}, {})  BY DEF WellOrdered
  <2> QED  BY <2>1, FS_EmptySet, HttpAssumption DEF Capped, HttpAssumption
<1>5. Latest /\ Windows /\ OwnClosesAreSilent  BY DEF Latest, Windows, OwnClosesAreSilent
<1> QED  BY <1>1, <1>2, <1>3, <1>4, <1>5 DEF IInv

LEMMA Inductive == IInv /\ [Next]_vars => IInv'
<1> SUFFICES ASSUME IInv, [Next]_vars PROVE IInv'
  OBVIOUS
<1>1. CASE Next
  <2>1. TypeOK'  BY <1>1, TypeStep DEF IInv
  <2>2. Kept  BY DEF IInv, Kept
  <2>3. \A c \in Conns : Held(c)' /\ Excused(c)'
    BY <1>1, <2>1, <2>2, HeldStep, ExcusedStep DEF IInv
  <2>4. Accepting'  BY <1>1, <2>1, AcceptingStep DEF IInv
  <2>5. OwnClosesAreSilent'  BY <1>1, <2>2, SilentStep DEF IInv
  <2> QED  BY <1>1, <2>1, <2>3, <2>4, CappedStep, LatestStep, WindowsStep, <2>5 DEF IInv
<1>2. CASE UNCHANGED vars
  <2> USE <1>2 DEF vars, registries, counters, history, activity, waits, unload
  <2>1. TypeOK' /\ Accepting'  BY DEF IInv, TypeOK, Accepting
  <2>2. \A c \in Conns : Held(c)' /\ Excused(c)'  BY DEF IInv, Held, Excused, Late
  <2>3. Capped' /\ Latest' /\ Windows'  BY DEF IInv, Capped, WellOrdered, First, Latest, Windows
  <2>4. OwnClosesAreSilent'  BY DEF IInv, OwnClosesAreSilent
  <2> QED  BY <2>1, <2>2, <2>3, <2>4 DEF IInv
<1> QED  BY <1>1, <1>2

\* IInv holds of the accept loop, the handlers, the unload and the clock.
THEOREM Invariant == Spec => []IInv
  BY Initially, Inductive, PTL DEF Spec

-----------------------------------------------------------------------------
(* The properties *)

\* Neither registry outgrows its cap and no socket escapes them, for any caps
\* and any number of connections (get_request's two evictions).
THEOREM RegistriesBounded == Spec => []Bounded
<1>1. IInv => Bounded
  <2> SUFFICES ASSUME IInv PROVE Bounded
    OBVIOUS
  <2>1. Cardinality(pending) <= MaxPending /\ Cardinality(live) <= MaxLive  BY DEF IInv, Capped
  <2>2. pending \subseteq live  BY DEF IInv, Held, TypeOK
  <2>3. ASSUME NEW c \in open
        PROVE  c \in live \cup server.victims \cup drained \/ phase[c] \in {"released", "closing"}
    BY <2>3 DEF IInv, Held, TypeOK
  <2> QED  BY <2>1, <2>2, <2>3 DEF Bounded
<1> QED  BY <1>1, Invariant, PTL

\* SPEC.md 2.15.2: no line is written about a close of the listener's own or
\* about the request deadline, but for a request line that the close cut short.
THEOREM EvictionsAreSilent == Spec => []OwnClosesAreSilent
<1>1. IInv => OwnClosesAreSilent  BY DEF IInv
<1> QED  BY <1>1, Invariant, PTL

\* After _shutdown_http no handler waits in a handshake on an open socket.
THEOREM StopReachesHandshakes == Spec => []StopEndsHandshakes
<1>1. IInv => StopEndsHandshakes
  BY DEF IInv, Held, Accepting, ServerAts, StopEndsHandshakes, TypeOK
<1> QED  BY <1>1, Invariant, PTL

\* A report is an interval after the one before (_flush_closure_report).
THEOREM ReportsAreRateLimited == Spec => RateLimited
<1>1. ASSUME IInv, [Next]_vars
      PROVE  [window # {} /\ window' = {} /\ owner' = owner
                => \A t \in lastReport : now - t >= ReportInterval]_vars
  <2> SUFFICES ASSUME Next, window # {}, window' = {}, owner' = owner, NEW t \in lastReport
               PROVE  now - t >= ReportInterval
    BY <1>1 DEF vars
  <2>1. CASE Flush(FALSE)
    <3>1. PICK w \in window : now - w >= ReportInterval  BY <2>1 DEF Flush, Due, counters
    <3>2. t <= w /\ t \in Nat /\ w \in Nat /\ now \in Nat  BY <1>1 DEF IInv, Windows, TypeOK
    <3> QED  BY <3>1, <3>2, HttpAssumption DEF HttpAssumption
  <2>2. ~FinalReport  BY DEF FinalReport
  <2>3. ~UNCHANGED counters  BY DEF counters
  <2>4. ~OpenWindow  BY DEF OpenWindow
  <2> QED  BY <1>1, <2>1, <2>2, <2>3, <2>4, Reports DEF IInv
<1> QED  BY <1>1, Invariant, PTL DEF Spec, RateLimited

\* A connection leaves the live registry when its thread is through with it,
\* or for a newcomer.
LEMMA LiveLoses ==
  ASSUME TypeOK, Next
  PROVE  live' = live \/ \E c \in Conns : Register(c) \/ Forget(c)
<1> USE DEF registries
<1>1. ASSUME NEW c \in Conns,
            \/ EnterHandshake(c) \/ HandshakeSucceeds(c) \/ HandshakeRaises(c)
            \/ JudgeFailure(c) \/ CountExpiry(c)
      PROVE  live' = live
  BY <1>1 DEF EnterHandshake, HandshakeSucceeds, HandshakeRaises, JudgeFailure, CountExpiry
<1>2. ASSUME NEW c \in Conns,
            \/ ReportExpiry(c) \/ HandshakeDone(c) \/ ServeEnds(c)
            \/ ServeRaises(c) \/ HandleError(c) \/ StartRead(c) \/ Write(c)
      PROVE  live' = live
  BY <1>2 DEF ReportExpiry, HandshakeDone, ServeEnds, ServeRaises, HandleError, StartRead, Write
<1>3. ASSUME NEW c \in Conns,
            \/ ReleaseSlot(c) \/ CloseOwn(c) \/ WrapFails(c) \/ Spawn(c) \/ CleanupDone(c)
      PROVE  live' = live
  BY <1>3 DEF ReleaseSlot, CloseOwn, WrapFails, Spawn, CleanupDone
<1>4. CASE Poll \/ CountClosure \/ ReportClosure \/ CloseVictims \/ AskShutdown
  BY <1>4 DEF Poll, CountClosure, ReportClosure, CloseVictims, AskShutdown
<1>5. CASE LoopExits \/ Drain \/ CloseDrained \/ FinalReport \/ Tick
  BY <1>5 DEF LoopExits, Drain, CloseDrained, FinalReport, Tick
<1>6. ASSUME NEW c \in Conns,
            \/ Setup(c) \/ PartArrives(c) \/ LineArrives(c)
            \/ HeadersEnd(c) \/ ParseFails(c) \/ RefuseRequest(c) \/ TimesOut(c) \/ LogError(c)
      PROVE  live' = live
  BY <1>6 DEF Setup, PartArrives, LineArrives, HeadersEnd, ParseFails, RefuseRequest,
            TimesOut, LogError
<1> QED
  BY <1>1, <1>2, <1>3, <1>4, <1>5, <1>6 DEF Next, Handler, Peer, AcceptLoop, Owner

\* A newcomer does not displace the connection that was used last, if there
\* is room for two.
LEMMA NewcomerSpares ==
  ASSUME MaxLive > 1, IInv, NEW n \in Conns, Register(n), NEW c \in live, c \notin live',
         phase[c] \in Serving
  PROVE  c \notin lastActive
<1> SUFFICES ASSUME c \in lastActive PROVE FALSE
  OBVIOUS
<1> DEFINE h == Victims(pending \cup {n}, arrived', MaxPending)
           rest == (live \cup {n}) \ h
<1>1. c \in Conns /\ c # n  BY DEF IInv, TypeOK, Register, Serving
<1>2. c \notin pending  BY <1>1 DEF IInv, Held, Serving
<1>3. h \subseteq pending \cup {n}  BY VictimsAreKeys
<1>4. live' = rest \ Victims(rest, recency', MaxLive) /\ recency' = ToEnd(recency, live, n)
  BY DEF Register
<1>5. c \in Victims(rest, recency', MaxLive)  BY <1>1, <1>2, <1>3, <1>4
<1> HIDE DEF h
<1>6. Cardinality(rest) > MaxLive /\ c \in First(recency', rest)  BY <1>5 DEF Victims
<1>7. PICK b \in rest : b \notin {c, n}
  <2> SUFFICES ASSUME rest \subseteq {c, n} PROVE FALSE
    OBVIOUS
  <2>1. IsFiniteSet({c}) /\ Cardinality({c}) = 1  BY FS_Singleton
  <2>2. IsFiniteSet({c} \cup {n}) /\ Cardinality({c} \cup {n}) = 2
    <3>1. n \notin {c}  BY <1>1
    <3>2. Cardinality({c} \cup {n}) = Cardinality({c}) + 1  BY <2>1, <3>1, FS_AddElement
    <3> QED  BY <2>1, <3>2, FS_AddElement
  <2>3. rest \subseteq {c} \cup {n}  OBVIOUS
  <2>4. IsFiniteSet(rest) /\ Cardinality(rest) <= 2  BY <2>2, <2>3, FS_Subset
  <2> QED  BY <1>6, <2>4, FS_CardinalityType, HttpAssumption DEF HttpAssumption
<1>8. <<c, b>> \in recency'  BY <1>6, <1>7 DEF First
<1>9. <<c, b>> \in recency  BY <1>4, <1>7, <1>8 DEF ToEnd
<1> QED  BY <1>7, <1>9 DEF IInv, Latest

\* With room for two connections, the one that was last accepted, read or
\* written is not displaced while it is served (get_request, _mark_used).
THEOREM ActiveSurvives == ASSUME MaxLive > 1 PROVE Spec => LastUsedSurvives
<1>1. ASSUME IInv, [Next]_vars
      PROVE  [\A c \in Conns :
                 c \in live /\ c \notin live' /\ phase[c] \in Serving /\ phase'[c] \in Serving
                   => c \notin lastActive]_vars
  <2> SUFFICES ASSUME Next, NEW c \in live, c \notin live', phase[c] \in Serving,
                      phase'[c] \in Serving
               PROVE  c \notin lastActive
    BY <1>1 DEF vars
  <2>1. PICK n \in Conns : Register(n) \/ Forget(n)  BY <1>1, LiveLoses DEF IInv
  <2>2. ~Forget(n)
    <3>1. SUFFICES ASSUME Forget(n) PROVE FALSE
      OBVIOUS
    <3>2. live' = live \ {n}  BY <3>1 DEF Forget
    <3>3. c = n  BY <3>2
    <3>4. phase[n] = "released"  BY <3>1 DEF Forget
    <3> QED  BY <3>3, <3>4 DEF Serving
  <2> QED  BY <1>1, <2>1, <2>2, NewcomerSpares
<1> QED  BY <1>1, Invariant, PTL DEF Spec, LastUsedSurvives
=============================================================================
