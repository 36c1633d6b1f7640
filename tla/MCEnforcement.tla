--------------------------- MODULE MCEnforcement ---------------------------
(***************************************************************************)
(* Small instances of Enforcement for TLC.                                 *)
(***************************************************************************)
EXTENDS Enforcement, TLC

CONSTANTS f1, f3, e1, e2, c1, c2

MCExes == {e1, e2}
MCClients == {c1, c2}
MCOneClient == {c1}

\* One flow per executable.
MCTwoFlows == {f1, f3}
MCTwoOwners == f1 :> e1 @@ f3 :> e2
MCMates == f1 :> {e2} @@ f3 :> {e1}

\* Connections may be exchanged, and the executables together with their flows.
MCSwap == (e1 :> e2) @@ (e2 :> e1) @@ (f1 :> f3) @@ (f3 :> f1)
MCKeep == [x \in DOMAIN MCSwap |-> x]
MCSymmetry == {p @@ q : p \in Permutations(MCClients), q \in {MCSwap, MCKeep}}
=============================================================================
