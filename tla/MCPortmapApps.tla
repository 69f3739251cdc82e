---------------------------- MODULE MCPortmapApps ----------------------------
(* An instance of PortmapApps for TLC. *)
EXTENDS PortmapApps, TLC

CONSTANTS h1, h2, a1, a2, e1, e2, f1

TwoHandlers == {h1, h2}
TwoApps == {a1, a2}
Run(e) == [ep |-> e, running |-> TRUE]
Rest(e) == [ep |-> e, running |-> FALSE]

\* f1 has the port of e1 on another address.
ThreeEndpoints == {e1, e2, f1}
SharedPorts == e1 :> 1 @@ f1 :> 1 @@ e2 :> 2 @@ AnyPort :> 0

\* The first application may change its port.  The second one has the first
\* one's port on another address, or leaves it to the system, which may give it
\* an endpoint that the first one then asks for.
MixedPorts == a1 :> {Run(e1), Run(e2), Rest(e1)} @@ a2 :> {Run(f1), Run(AnyPort)}

\* Requests are interchangeable.
Symmetry == Permutations(Handlers)
=============================================================================
