---------------------------- MODULE MCLifecycle ----------------------------
(***************************************************************************)
(* Lifecycle on eight addresses, blocks of at most two of them.            *)
(***************************************************************************)
EXTENDS Lifecycle

A(a) == [kind |-> "address", a |-> a]
B(a, size) == [kind |-> "block", a |-> a, size |-> size]
Suffixed == Addresses

\* The default is the block {4, 5}.
MCDefaultBind == List({B(5, 2)})
Binds ==
  {Absent, Junk, List({}), List({A(0), Junk, A(6)}), List({B(1, 2), B(6, 4), A(7)})}

C(bind, p, r) == [tls |-> TRUE, bind |-> bind, poll |-> p, rebind |-> r]
MCConfigs ==
  {C(bind, Absent, Absent) : bind \in Binds}
    \cup {C(Absent, Number(9), Number(0)), C(Absent, Number(0), Number(9)),
           C(Absent, Number(0), Number(0)), C(Absent, Junk, Junk)}
    \cup {[C(Absent, Absent, Absent) EXCEPT !.tls = FALSE]}
MCHoldings == {{}, {0, 4, 6, Suffixed}, {1, 5, 7}}
=============================================================================
