---------------------------- MODULE DaemonLocks ----------------------------
(***************************************************************************)
(* The locks that the queue worker, the background tasks and the request   *)
(* handlers of travelmoded share, and the order in which each takes them.  *)
(* An operation is the sequence of what it does to locks; the work between *)
(* two of them is left out.  The RwLocks let a waiting writer go first, as *)
(* std's do.  Mutexes: attrib, rules, log; RwLocks: conns, procs.          *)
(***************************************************************************)
EXTENDS Sequences

CONSTANTS Requests,                        \* requests handled at the same time
          Worker, PollTask, ScanTask, ReapTask

Lockers == Requests \cup {Worker, PollTask, ScanTask, ReapTask}
Locks == {"attrib", "rules", "log", "conns", "procs"}

Excl(l) == <<"excl", l>>                   \* Mutex::lock, RwLock::write
Shared(l) == <<"shared", l>>               \* RwLock::read
Free(l) == <<"free", l>>                   \* the guard is dropped
Briefly(l) == <<Excl(l), Free(l)>>

VARIABLES todo,    \* what is left of each thread's operation
          excl,    \* locks each thread holds for itself
          shared   \* locks each thread has for reading
lockVars == <<todo, excl, shared>>

-----------------------------------------------------------------------------
(* The operations *)

\* The guard of the attributor ends with its statement, before the process map
\* is read; without a pid, the map is not read.
Attribute == {Briefly("attrib"), Briefly("attrib") \o <<Shared("procs"), Free("procs")>>}

\* An accepted packet stops early; a blocked one goes on to the log limiter.
Decide == {<<>>} \cup UNION {{a, a \o Briefly("rules"), a \o Briefly("rules") \o Briefly("log")} :
                             a \in Attribute}

\* The map of connections is locked before new flows are attributed, one by
\* one; closed and updated flows need nothing more.
PollOnce == {<<Excl("conns")>> \o flows \o <<Free("conns")>> :
             flows \in {<<>>} \cup Attribute
                       \cup {a \o b : a \in Attribute, b \in Attribute}}

KillFlows == <<Shared("conns"), Free("conns")>>

\* Saved rules are listed, then each Block kills its flows.
EnforceSaved == Briefly("rules") \o KillFlows

ScanOnce == <<Excl("procs"), Free("procs")>>

\* The guards of both maps are temporaries of one expression: they end with it.
\* Faulty variant of GetStatus: the fields are filled in the other order.
GetStatus_Swapped == Briefly("rules") \o
  <<Shared("procs"), Shared("conns"), Free("conns"), Free("procs")>>

GetStatus == Briefly("rules") \o
  <<Shared("conns"), Shared("procs"), Free("procs"), Free("conns")>>

GetTop == <<Shared("conns")>> \o Briefly("rules") \o <<Free("conns")>>
GetProcesses == <<Shared("procs"), Free("procs")>>
GetConnections == <<Shared("conns"), Free("conns")>>
RuleRequest == Briefly("rules")
AddBlock == Briefly("rules") \o KillFlows

Operations(t) ==
  CASE t = Worker   -> Decide
    [] t = PollTask -> PollOnce \cup {EnforceSaved}
    [] t = ScanTask -> {ScanOnce}
    [] t = ReapTask -> {Briefly("rules")}
    [] OTHER        -> {GetStatus, GetTop, GetProcesses, GetConnections, RuleRequest, AddBlock}

-----------------------------------------------------------------------------
LockInit ==
  /\ todo = [t \in Lockers |-> <<>>]
  /\ excl = [t \in Lockers |-> {}] /\ shared = [t \in Lockers |-> {}]

Busy(t) == todo[t] # <<>>
Wants(t, kind, l) == Busy(t) /\ Head(todo[t]) = <<kind, l>>

Begin(t) ==
  /\ ~Busy(t)
  /\ \E op \in Operations(t) \ {<<>>} : todo' = [todo EXCEPT ![t] = op]
  /\ UNCHANGED <<excl, shared>>

\* A thread that asks again for what it holds waits for itself.
MayExclude(t, l) == Wants(t, "excl", l) /\ \A u \in Lockers : l \notin excl[u] \cup shared[u]
MayShare(t, l) == Wants(t, "shared", l)
                  /\ \A u \in Lockers : l \notin excl[u] /\ ~Wants(u, "excl", l)

Advance(t) == todo' = [todo EXCEPT ![t] = Tail(@)]

LockExcl(t, l) ==
  /\ MayExclude(t, l) /\ Advance(t)
  /\ excl' = [excl EXCEPT ![t] = @ \cup {l}] /\ UNCHANGED shared

LockShared(t, l) ==
  /\ MayShare(t, l) /\ Advance(t)
  /\ shared' = [shared EXCEPT ![t] = @ \cup {l}] /\ UNCHANGED excl

Release(t, l) ==
  /\ Wants(t, "free", l) /\ Advance(t)
  /\ excl' = [excl EXCEPT ![t] = @ \ {l}] /\ shared' = [shared EXCEPT ![t] = @ \ {l}]

StepOn(t, l) == LockExcl(t, l) \/ LockShared(t, l) \/ Release(t, l)

LockNext == \E t \in Lockers : Begin(t) \/ \E l \in Locks : StepOn(t, l)

LockSpec == LockInit /\ [][LockNext]_lockVars

-----------------------------------------------------------------------------
(* Properties *)

\* However the worker, the poll, the scanner, the reaper and the requests take
\* their locks, somebody can always go on: nobody waits in a circle, also through
\* a writer that waits and keeps readers out (conntrack.rs:80-105, main.rs:173-174,
\* procs.rs:40, main.rs:240-269).
NoDeadlock ==
  (\E t \in Lockers : Busy(t)) =>
     \E t \in Lockers, l \in Locks : MayExclude(t, l) \/ MayShare(t, l) \/ Wants(t, "free", l)
=============================================================================
