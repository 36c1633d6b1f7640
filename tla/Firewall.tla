------------------------------ MODULE Firewall ------------------------------
(***************************************************************************)
(* The nftables side of the daemon: the table that setup installs, the     *)
(* global pause switch and the teardown (daemon/src/firewall.rs, main.rs). *)
(* SetPaused stores a flag, publishes it, spawns a task that runs nft, and *)
(* answers Ok before that task has run.  The tasks take the tokio mutex    *)
(* around `state.firewall` in whatever order the runtime polls them.  At   *)
(* shutdown the handle is taken out under the same mutex and the table is  *)
(* deleted; a daemon that dies leaves its table in the kernel.             *)
(***************************************************************************)
EXTENDS Integers, FiniteSets

CONSTANTS Connections,  \* connections that send SetPaused
          MaxToggles,   \* bound: SetPaused requests
          MaxFailures,  \* bound: nft commands that fail
          MaxStarts     \* bound: starts of the daemon

ASSUME Bounds == MaxToggles \in Nat /\ MaxFailures \in Nat /\ MaxStarts \in Nat

Absent == -1            \* there is no table
Free   == 0             \* the firewall mutex is free
TaskIds == 1 .. MaxToggles
Unasked == [pause |-> FALSE, task |-> 0]

VARIABLES phase,        \* of main: see Phases
          paused,       \* state.paused
          handle,       \* state.firewall is Some
          queueRules,   \* queue rules in the chain, or Absent
          worker,       \* the NFQUEUE worker: none, binding, bound or stopped
          active,       \* state.filtering_active
          request,      \* the SetPaused that a connection is handling, or Unasked
          tasks,        \* spawned toggles: id -> the pause they are to bring
          mutex,        \* task that holds the firewall mutex, or Free
          announced,    \* last PausedChanged sent to subscribers
          toggles, failures, starts,
          overlapped,   \* a SetPaused met another one under way (history)
          failed        \* some nft command failed since the start (history)

kernel == <<queueRules>>
counts == <<toggles, failures, starts>>
hist   == <<overlapped, failed>>
switchVars == <<phase, paused, handle, kernel, worker, active, request, tasks, mutex,
                announced, counts, hist>>

Phases == {"down", "setup", "up", "stopping", "teardown", "exiting"}
Serving == {"up", "stopping", "teardown", "exiting"}

SwitchInit ==
  /\ phase = "down" /\ paused = FALSE /\ handle = FALSE /\ queueRules = Absent
  /\ worker = "none" /\ active = FALSE
  /\ request = [c \in Connections |-> Unasked]
  /\ tasks = <<>>                         \* the empty function
  /\ mutex = Free /\ announced = FALSE
  /\ toggles = 0 /\ failures = 0 /\ starts = 0
  /\ overlapped = FALSE /\ failed = FALSE

-----------------------------------------------------------------------------
(* nft: what a command makes of the chain, unless it fails *)

\* Faulty variant of Toggled: pause deletes one rule where it should flush the chain.
Toggled_OneRule(n, pause) ==
  IF n = Absent THEN Absent ELSE IF pause THEN IF n = 0 THEN 0 ELSE n - 1 ELSE n + 1

\* Faulty variant of Toggled: resume adds nothing.
Toggled_NoResume(n, pause) == IF n = Absent THEN Absent ELSE IF pause THEN 0 ELSE n

\* pause flushes the chain, resume appends a rule; both need the table.
Toggled(n, pause) == IF n = Absent THEN Absent ELSE IF pause THEN 0 ELSE n + 1

\* An nft command that would turn the chain into n, or fails and leaves it.
Nft(n) ==
  \/ queueRules' = n /\ UNCHANGED <<failures, failed>>
  \/ /\ failures < MaxFailures
     /\ failures' = failures + 1 /\ failed' = TRUE
     /\ UNCHANGED queueRules

-----------------------------------------------------------------------------
(* Start *)

\* Faulty variant of Boot: a stale table is not deleted.
Boot_KeepStale ==
  /\ phase = "down" /\ starts < MaxStarts
  /\ phase' = "setup" /\ starts' = starts + 1
  /\ overlapped' = FALSE
  /\ failed' = FALSE
  /\ UNCHANGED <<paused, handle, queueRules, worker, active, request, tasks, mutex, announced,
                 toggles, failures>>

\* A new process: delete whatever table an earlier one left behind.
Boot ==
  /\ phase = "down" /\ starts < MaxStarts
  /\ phase' = "setup" /\ starts' = starts + 1
  /\ overlapped' = FALSE
  /\ \/ queueRules' = Absent /\ failed' = FALSE /\ UNCHANGED failures
     \/ /\ failures < MaxFailures /\ failures' = failures + 1 /\ failed' = TRUE
        /\ UNCHANGED queueRules
  /\ UNCHANGED <<paused, handle, worker, active, request, tasks, mutex, announced, toggles>>

\* nft -f: table, chain and (never paused at this point) the queue rule, all or
\* nothing; without them there is no worker and the daemon only reports.
Install ==
  /\ phase = "setup" /\ phase' = "up"
  /\ Nft(IF queueRules = Absent THEN 1 ELSE queueRules + 1)
  /\ handle' = (failures' = failures)
  /\ worker' = IF failures' = failures THEN "binding" ELSE "none"
  /\ UNCHANGED <<paused, active, request, tasks, mutex, announced, toggles, starts, overlapped>>

\* The worker binds the queue, or its bind or a later recv fails for good.
Bind ==
  /\ worker = "binding" /\ worker' = "bound" /\ active' = TRUE
  /\ UNCHANGED <<phase, paused, handle, kernel, request, tasks, mutex, announced, counts, hist>>

WorkerStops ==
  /\ worker \in {"binding", "bound"} /\ failures < MaxFailures
  /\ worker' = "stopped" /\ active' = FALSE /\ failures' = failures + 1
  /\ UNCHANGED <<phase, paused, handle, kernel, request, tasks, mutex, announced, toggles, starts,
                 hist>>

-----------------------------------------------------------------------------
(* SetPaused *)

Busy == tasks # <<>> \/ \E c \in Connections : request[c] # Unasked

SetPaused(c, p) ==
  /\ phase \in Serving /\ request[c] = Unasked
  /\ toggles < MaxToggles /\ toggles' = toggles + 1
  /\ paused' = p
  /\ request' = [request EXCEPT ![c] = [pause |-> p, task |-> toggles']]
  /\ overlapped' = (overlapped \/ Busy)
  /\ UNCHANGED <<phase, handle, kernel, worker, active, tasks, mutex, announced, failures, starts,
                 failed>>

\* Publish the event, spawn the toggle, answer Ok.
Answer(c) ==
  /\ phase \in Serving /\ request[c] # Unasked
  /\ announced' = request[c].pause
  /\ tasks' = [k \in DOMAIN tasks \cup {request[c].task} |->
                IF k = request[c].task THEN request[c].pause ELSE tasks[k]]
  /\ request' = [request EXCEPT ![c] = Unasked]
  /\ UNCHANGED <<phase, paused, handle, kernel, worker, active, mutex, counts, hist>>

Ended(k) == tasks' = [j \in DOMAIN tasks \ {k} |-> tasks[j]]

\* Faulty variant of Lock: the task does not look whether there is a firewall.
Lock_NoHandle(k) ==
  /\ k \in DOMAIN tasks /\ mutex = Free
  /\ mutex' = k
  /\ UNCHANGED <<phase, paused, handle, kernel, worker, active, request, tasks, announced, counts,
                 hist>>

\* The task gets the mutex; with no firewall behind it there is nothing to do.
Lock(k) ==
  /\ k \in DOMAIN tasks /\ mutex = Free
  /\ IF handle THEN mutex' = k /\ UNCHANGED tasks
               ELSE Ended(k) /\ UNCHANGED mutex
  /\ UNCHANGED <<phase, paused, handle, kernel, worker, active, request, announced, counts, hist>>

\* Faulty variant of Toggle: an early return that leaves the mutex locked.
Toggle_KeepsMutex(k) ==
  /\ k \in DOMAIN tasks /\ mutex = k
  /\ Nft(Toggled(queueRules, tasks[k]))
  /\ Ended(k) /\ mutex' = IF failures' = failures THEN Free ELSE k
  /\ UNCHANGED <<phase, paused, handle, worker, active, request, announced, toggles, starts,
                 overlapped>>

\* nft has run; its failure is logged and the flag keeps its value.
Toggle(k) ==
  /\ k \in DOMAIN tasks /\ mutex = k
  /\ Nft(Toggled(queueRules, tasks[k]))
  /\ Ended(k) /\ mutex' = Free
  /\ UNCHANGED <<phase, paused, handle, worker, active, request, announced, toggles, starts,
                 overlapped>>

-----------------------------------------------------------------------------
(* Stop *)

Signal ==
  /\ phase = "up" /\ phase' = "stopping"
  /\ UNCHANGED <<paused, handle, kernel, worker, active, request, tasks, mutex, announced, counts,
                 hist>>

\* Faulty variant of Take: the handle is taken without the mutex.
Take_NoWait ==
  /\ phase = "stopping"
  /\ phase' = IF handle THEN "teardown" ELSE "exiting"
  /\ handle' = FALSE
  /\ UNCHANGED <<paused, kernel, worker, active, request, tasks, mutex, announced, counts, hist>>

\* state.firewall.lock().await.take(): waits for the toggle that is running.
Take ==
  /\ phase = "stopping" /\ mutex = Free
  /\ phase' = IF handle THEN "teardown" ELSE "exiting"
  /\ handle' = FALSE
  /\ UNCHANGED <<paused, kernel, worker, active, request, tasks, mutex, announced, counts, hist>>

Teardown ==
  /\ phase = "teardown" /\ phase' = "exiting"
  /\ Nft(Absent)
  /\ UNCHANGED <<paused, handle, worker, active, request, tasks, mutex, announced, toggles, starts,
                 overlapped>>

\* The process is gone, with its tasks, its flag and its queue binding.
Gone ==
  /\ phase' = "down" /\ paused' = FALSE /\ handle' = FALSE
  /\ worker' = "none" /\ active' = FALSE
  /\ request' = [c \in Connections |-> Unasked] /\ tasks' = <<>> /\ mutex' = Free /\ announced' = FALSE
  /\ UNCHANGED <<kernel, counts, hist>>

ExitProcess  == phase = "exiting" /\ Gone
KillProcess == phase \notin {"down", "exiting"} /\ Gone

SwitchNext ==
  \/ Boot \/ Install \/ Bind \/ WorkerStops
  \/ \E c \in Connections : \/ \E p \in BOOLEAN : SetPaused(c, p)
                            \/ Answer(c)
  \/ \E k \in TaskIds : Lock(k) \/ Toggle(k)
  \/ Signal \/ Take \/ Teardown \/ ExitProcess \/ KillProcess

SwitchSpec == SwitchInit /\ [][SwitchNext]_switchVars

(***************************************************************************)
(* The runtime polls every task, the tokio mutex is first come first       *)
(* served, and an nft process ends.  Nobody has to send a request, and     *)
(* nothing has to crash.                                                   *)
(***************************************************************************)
SwitchFairness ==
  /\ WF_switchVars(Install) /\ WF_switchVars(Bind)
  /\ \A c \in Connections : WF_switchVars(Answer(c))
  /\ \A k \in TaskIds : SF_switchVars(Lock(k)) /\ WF_switchVars(Toggle(k))
  /\ SF_switchVars(Take) /\ WF_switchVars(Teardown) /\ WF_switchVars(ExitProcess)

SwitchFairSpec == SwitchSpec /\ SwitchFairness

-----------------------------------------------------------------------------
(* Properties *)

\* Types, and the firewall mutex is held by a spawned toggle that has a
\* firewall to work on: `take` cannot pull the handle from under it.
SwitchTypeOK ==
  /\ phase \in Phases /\ paused \in BOOLEAN /\ handle \in BOOLEAN
  /\ queueRules \in Int /\ queueRules >= Absent
  /\ worker \in {"none", "binding", "bound", "stopped"} /\ active \in BOOLEAN
  /\ \A c \in Connections : request[c] \in [pause : BOOLEAN, task : 0 .. MaxToggles]
  /\ DOMAIN tasks \subseteq TaskIds /\ \A k \in DOMAIN tasks : tasks[k] \in BOOLEAN
  /\ mutex # Free => mutex \in DOMAIN tasks /\ handle
  /\ announced \in BOOLEAN

Quiet == phase = "up" /\ handle /\ ~failed /\ ~Busy

\* Sent one after the other's nft command, SetPaused requests leave the chain
\* as the flag says, and subscribers too: paused means no queue rule, running
\* means at least one, also after a crash left a table behind.
SerialTogglesAgree ==
  Quiet /\ ~overlapped => /\ paused = (queueRules = 0)
                          /\ announced = paused

\* When nothing is under way, an unpaused daemon has its queue rule: resume
\* re-adds it (firewall.rs:47) and Ok was the answer to every request.
UnpausedMeansQueued == Quiet /\ ~paused => queueRules >= 1

\* A start leaves one queue rule, whatever tables and rules an earlier process
\* left in the kernel (firewall.rs:31 deletes any stale table).
FreshStartHasOneRule ==
  [][phase = "setup" /\ phase' = "up" /\ ~failed' => queueRules' = 1]_switchVars

\* Once a clean shutdown has deleted the table no late toggle brings anything
\* back: the kernel stays as the daemon left it until the next start.
ShutdownIsFinal ==
  [][phase' # "setup" /\ phase \in {"exiting", "down"} => UNCHANGED queueRules]_switchVars

\* A toggle takes effect: without overlap and failure the chain follows the
\* flag, or the daemon is on its way out.
TogglesTakeEffect ==
  \A p \in BOOLEAN :
    (phase = "up" /\ handle /\ (paused = p))
      ~> \/ paused # p
         \/ (queueRules = 0) = p
         \/ overlapped \/ failed \/ phase # "up"

\* A shutdown gets through: the toggles do not hold it up for ever.
ShutdownEnds == phase = "stopping" ~> phase = "down"
=============================================================================
