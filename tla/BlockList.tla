----------------------------- MODULE BlockList -----------------------------
(***************************************************************************)
(* What the rule store promises to the rest of the daemon: one verdict per *)
(* executable, changed for one executable at a time, a temporary block     *)
(* that may lapse on its own, a permanent one that may not, and a durable  *)
(* copy that is replaced whole and is all a restart brings back.           *)
(***************************************************************************)
CONSTANT Exes

VARIABLES running,   \* the daemon is up
          verdict,   \* what the daemon enforces, per executable
          durable    \* what a daemon starting now would enforce

vars == <<running, verdict, durable>>

Verdicts == {"allowed", "temporary", "permanent"}

Open == [e \in Exes |-> "allowed"]

Init == running = TRUE /\ verdict = Open /\ durable = Open

\* One request changes the verdict of one executable.
SetVerdict(e, v) ==
  /\ running
  /\ verdict' = [verdict EXCEPT ![e] = v]
  /\ UNCHANGED <<running, durable>>

\* The durable copy is replaced by the current verdicts, all of them at once.
Flush ==
  /\ running
  /\ durable' = verdict
  /\ UNCHANGED <<running, verdict>>

\* `later` is `f` with some temporary blocks lapsed.
LapsedFrom(f, later) ==
  \A e \in Exes : \/ later[e] = f[e]
                  \/ f[e] = "temporary" /\ later[e] = "allowed"

\* Time passes.
Lapse ==
  /\ verdict' \in [Exes -> Verdicts] /\ LapsedFrom(verdict, verdict')
  /\ durable' \in [Exes -> Verdicts] /\ LapsedFrom(durable, durable')
  /\ UNCHANGED running

\* The daemon dies: nothing is enforced until it is back.
Die == running /\ running' = FALSE /\ verdict' = Open /\ UNCHANGED durable

Restart == ~running /\ running' = TRUE /\ verdict' = durable /\ UNCHANGED durable

Next == \/ \E e \in Exes, v \in Verdicts : SetVerdict(e, v)
        \/ Flush
        \/ Lapse
        \/ Die
        \/ Restart

Spec == Init /\ [][Next]_vars
=============================================================================
