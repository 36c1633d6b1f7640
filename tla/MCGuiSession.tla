--------------------------- MODULE MCGuiSession ----------------------------
(***************************************************************************)
(* A small instance of GuiSession for TLC: two flows of one executable.    *)
(***************************************************************************)
EXTENDS GuiSession

CONSTANTS k1, k2, e1

MCKeys == {k1, k2}
MCExecutables == {e1}
=============================================================================
