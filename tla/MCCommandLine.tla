--------------------------- MODULE MCCommandLine ---------------------------
(***************************************************************************)
(* A small instance of CommandLine for TLC: PATH has a program under the   *)
(* name `direct` and a link to it under `linked`.                          *)
(***************************************************************************)
EXTENDS CommandLine, TLC

CONSTANTS x, y, ln, txt, nf, direct, linked, q1

MCPrograms == {x, y}
MCNames == {direct, linked}
MCTargetOf == ln :> x
MCPathHits == direct :> <<txt, x>> @@ linked :> <<txt, ln>>
=============================================================================
