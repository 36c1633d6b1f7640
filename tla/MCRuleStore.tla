---------------------------- MODULE MCRuleStore ----------------------------
(***************************************************************************)
(* Small instances of RuleStore for TLC.                                   *)
(***************************************************************************)
EXTENDS RuleStore, TLC

CONSTANTS c1, c2, e1, e2

In(e, a, p, t) == [exe |-> e, action |-> a, persistent |-> p, ttl |-> t]

\* One executable blocked for one tick or allowed, another blocked for good,
\* by a ttl that overflows the date.
MCInputs == {In(e1, "Block", FALSE, 1), In(e1, "Allow", TRUE, Never),
             In(e2, "Block", TRUE, 9)}

\* travelmodectl block --no-persist, without --ttl.
MCInputsNoPersist == {In(e1, "Block", FALSE, Never), In(e1, "Block", FALSE, 1),
                      In(e2, "Block", TRUE, Never)}

MCClients == {c1, c2}
MCOneClient == {c1}
MCExes == {e1, e2}
MCSymmetry == Permutations(MCClients)
=============================================================================
