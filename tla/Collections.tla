---------------------------- MODULE Collections ----------------------------
(***************************************************************************)
(* Two operations of Rust's collections that several modules use, each by  *)
(* what it returns.                                                        *)
(***************************************************************************)
EXTENDS Naturals, Sequences, FiniteSets

\* HashMap::insert
Put(f, x, y) == [z \in DOMAIN f \cup {x} |-> IF z = x THEN y ELSE f[z]]

\* Vec::retain: the elements of s that are in keep, in their order.
Retain(s, keep) ==
  LET at == {i \in DOMAIN s : s[i] \in keep}
  IN  [n \in 1 .. Cardinality(at) |->
         s[CHOOSE i \in at : Cardinality({j \in at : j <= i}) = n]]
=============================================================================
