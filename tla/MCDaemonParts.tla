--------------------------- MODULE MCDaemonParts ---------------------------
(***************************************************************************)
(* Small instances, for TLC, of the parts that share no state and need no  *)
(* fairness: the GUI's session and its lists, the attribution of flows,    *)
(* the log of blocked packets, the daemon's locks, the command line, the   *)
(* network snapshot, the readers.  Each behaviour is one of the part it    *)
(* begins with, while the others rest in an initial state of theirs.       *)
(***************************************************************************)
EXTENDS GuiSession, Pages, Attribution, LogThrottle, DaemonLocks, CommandLine, NetSnapshot,
        Readers, TLC

VARIABLE part

CONSTANTS k1, k2, e1, b1, b2, i1, i2, p1,
          x, y, ln, txt, nf, direct, linked, other, q1, q2, w1, w2, w3

MCKeys == {k1, k2}
MCExecutables == {e1}

\* Two sockets of one port.
MCBinaries == {b1, b2}
MCInodes == {i1, i2}
MCPorts == {p1}
MCPort == [i \in MCInodes |-> p1]

MCProcIds == {q1, q2}
MCWidgets == {w1, w2, w3}

\* What may be exchanged: flows, inodes, pids or widgets, each in a part of its
\* own; and executables.
Along(p, a, b) == a :> (IF p[k1] = k1 THEN a ELSE b) @@ b :> (IF p[k1] = k1 THEN b ELSE a)
MCSymmetry == {p @@ Along(p, i1, i2) @@ Along(p, q1, q2) @@ Along(p, w1, w2)
                   @@ q :
                 p \in Permutations(MCKeys), q \in Permutations(MCBinaries)}

\* PATH has a text file, then a program, under the name `direct`; a text file,
\* then a link to that program, under `linked`; nothing under `other`.
MCPrograms == {x, y}
MCNames == {direct, linked, other}
MCTargetOf == ln :> x
MCPathHits == direct :> <<txt, x>> @@ linked :> <<txt, ln>> @@ other :> <<>>

\* Two interfaces.  Three applications, two with one text; a flow is like an
\* application that nobody blocks.
MCNameOf == 1 :> "eth0" @@ 2 :> "wg0"
MCGroupsOf == [k \in 1..3 |-> {"allowed", "blocked"}]
MCLabel == [k \in 1..3 |-> IF k = 3 THEN 2 ELSE 1]

PartsInit ==
  /\ part \in {"session", "pages", "attribution", "log", "locks", "cli", "network", "readers"}
  /\ SessionInit /\ PageInit /\ AttribInit /\ LogInit /\ LockInit /\ ReadInit
  /\ CliInit /\ (part # "cli" => served /\ running = NoProcess)
  /\ NetInit /\ (part # "network" => DOMAIN given = {})

PartsNext ==
  /\ UNCHANGED part
  /\ \/ /\ part = "session" /\ SessionNext
        /\ UNCHANGED <<pageVars, attribVars, logVars, lockVars, cliVars, netVars, readVars>>
     \/ /\ part = "pages" /\ PageNext
        /\ UNCHANGED <<sessionVars, attribVars, logVars, lockVars, cliVars, netVars, readVars>>
     \/ /\ part = "attribution" /\ AttribNext
        /\ UNCHANGED <<sessionVars, pageVars, logVars, lockVars, cliVars, netVars, readVars>>
     \/ /\ part = "log" /\ LogNext
        /\ UNCHANGED <<sessionVars, pageVars, attribVars, lockVars, cliVars, netVars, readVars>>
     \/ /\ part = "locks" /\ LockNext
        /\ UNCHANGED <<sessionVars, pageVars, attribVars, logVars, cliVars, netVars, readVars>>
     \/ /\ part = "cli" /\ CliNext
        /\ UNCHANGED <<sessionVars, pageVars, attribVars, logVars, lockVars, netVars, readVars>>
     \/ /\ part = "network" /\ NetNext
        /\ UNCHANGED <<sessionVars, pageVars, attribVars, logVars, lockVars, cliVars, readVars>>
     \/ /\ part = "readers" /\ ReadNext
        /\ UNCHANGED <<sessionVars, pageVars, attribVars, logVars, lockVars, cliVars, netVars>>

partsVars == <<part, sessionVars, pageVars, attribVars, logVars, lockVars, cliVars, netVars,
               readVars>>
PartsSpec == PartsInit /\ [][PartsNext]_partsVars
=============================================================================
