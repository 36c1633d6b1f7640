--------------------------- MODULE FirewallProofs ---------------------------
(***************************************************************************)
(* Proofs about Firewall, for any connections and any bounds.              *)
(***************************************************************************)
EXTENDS Firewall, TLAPS

-----------------------------------------------------------------------------
(* The inductive invariant *)

\* What TypeOK says, with the ranges of the counters.
Flags ==
  /\ paused \in BOOLEAN /\ handle \in BOOLEAN /\ active \in BOOLEAN
  /\ announced \in BOOLEAN /\ overlapped \in BOOLEAN /\ failed \in BOOLEAN
Numbers ==
  /\ queueRules \in Int /\ queueRules >= Absent
  /\ toggles \in 0 .. MaxToggles /\ failures \in Nat /\ starts \in Nat
Work ==
  /\ phase \in Phases
  /\ worker \in {"none", "binding", "bound", "stopped"}
  /\ request \in [Connections -> {Unasked} \cup [pause : BOOLEAN, task : TaskIds]]
  /\ DOMAIN tasks \subseteq TaskIds /\ \A k \in DOMAIN tasks : tasks[k] \in BOOLEAN
Types == Flags /\ Numbers /\ Work

\* The mutex is held by a toggle that has a firewall to work on.
Mutex == mutex # Free => mutex \in DOMAIN tasks /\ handle

NoRequest == \A c \in Connections : request[c] = Unasked

\* A process that is not serving has nothing under way and is not paused.
Fresh ==
  phase \in {"down", "setup"} =>
    NoRequest /\ DOMAIN tasks = {} /\ ~handle /\ ~paused /\ ~announced

\* The handle stands for a table, and is gone before the table is.
Handle ==
  /\ handle => queueRules # Absent
  /\ phase \in {"teardown", "exiting"} => ~handle

\* setup starts from no table if nft could delete the stale one.
Clean == phase = "setup" /\ ~failed => queueRules = Absent

\* Serial requests: nothing is under way and the chain follows the flag, or one
\* request is handled, or one toggle is to run; both carry the flag.
Serial ==
  phase = "up" /\ handle /\ ~failed /\ ~overlapped =>
    \/ NoRequest /\ DOMAIN tasks = {} /\ (paused <=> queueRules = 0) /\ announced = paused
    \/ /\ DOMAIN tasks = {}
       /\ \E c \in Connections : /\ request[c] # Unasked /\ request[c].pause = paused
                                 /\ \A d \in Connections \ {c} : request[d] = Unasked
    \/ /\ NoRequest /\ announced = paused
       /\ \E k \in DOMAIN tasks : DOMAIN tasks = {k} /\ tasks[k] = paused

IInv == Types /\ Mutex /\ Fresh /\ Handle /\ Clean /\ Serial

-----------------------------------------------------------------------------
(* Helpers *)

\* What an nft command leaves behind.
LEMMA NftLeaves ==
  ASSUME NEW STATE n, n \in Int, n >= Absent, Types, Nft(n)
  PROVE  /\ queueRules' \in Int /\ queueRules' >= Absent
         /\ failed' \in BOOLEAN /\ failures' \in Nat
         /\ failures' = failures => queueRules' = n /\ failed' = failed
         /\ ~failed' => queueRules' = n /\ ~failed /\ failures' = failures
         /\ failures' # failures => queueRules' = queueRules
<1> USE DEF Types
<1>1. CASE queueRules' = n /\ UNCHANGED <<failures, failed>>
  BY <1>1 DEF Numbers, Flags
<1>2. CASE failures < MaxFailures /\ failures' = failures + 1 /\ failed' = TRUE /\ UNCHANGED queueRules
  <2>1. failed' \in BOOLEAN /\ failed'
    BY <1>2
  <2>2. failures' \in Nat /\ failures' # failures /\ queueRules' = queueRules
    BY <1>2 DEF Numbers
  <2> QED BY <2>1, <2>2 DEF Numbers
<1> QED BY <1>1, <1>2 DEF Nft

\* A toggle keeps the table, and with a table the chain then follows the toggle.
LEMMA ToggledTypes ==
  ASSUME NEW STATE n, n \in Int, n >= Absent, NEW STATE p, p \in BOOLEAN
  PROVE  /\ Toggled(n, p) \in Int /\ Toggled(n, p) >= Absent
         /\ n # Absent => Toggled(n, p) # Absent /\ (p <=> Toggled(n, p) = 0)
BY DEF Toggled, Absent

\* With nothing under way there is no task and no request.
LEMMA NotBusy ==
  ASSUME ~Busy
  PROVE  NoRequest /\ DOMAIN tasks = {}
BY DEF Busy, NoRequest

-----------------------------------------------------------------------------
(* The steps *)

LEMMA InitIInv == SwitchInit => IInv
<1> SUFFICES ASSUME SwitchInit PROVE IInv OBVIOUS
<1>1a. Flags
  BY DEF SwitchInit, Flags
<1>1. Numbers
  BY Bounds DEF SwitchInit, Numbers, Absent
<1>2. DOMAIN tasks = {}
  BY DEF SwitchInit
<1>3. Work
  BY <1>2 DEF SwitchInit, Work, Phases
<1>4. Mutex /\ Fresh /\ Handle /\ Clean /\ Serial
  BY <1>2 DEF SwitchInit, Mutex, Fresh, NoRequest, Handle, Clean, Serial
<1> QED BY <1>1a, <1>1, <1>3, <1>4 DEF IInv, Types

LEMMA BootStep == IInv /\ Boot => IInv'
<1> SUFFICES ASSUME IInv, Boot PROVE IInv' OBVIOUS
<1> USE DEF IInv, Types
<1>1. Flags'
  BY DEF Boot, Flags
<1>2. Numbers' /\ Work'
  BY DEF Boot, Numbers, Work, Phases, Absent
<1>3. Mutex' /\ Fresh' /\ Handle' /\ Clean' /\ Serial'
  BY DEF Boot, Mutex, Fresh, NoRequest, Handle, Clean, Serial
<1> QED BY <1>1, <1>2, <1>3

LEMMA InstallStep == IInv /\ Install => IInv'
<1> SUFFICES ASSUME IInv, Install PROVE IInv' OBVIOUS
<1> USE DEF IInv, Types
<1> DEFINE n == IF queueRules = Absent THEN 1 ELSE queueRules + 1
<1>1. n \in Int /\ n >= 1 /\ Nft(n)
  BY DEF Numbers, Absent, Install
<1>2. /\ queueRules' \in Int /\ queueRules' >= Absent
      /\ failed' \in BOOLEAN /\ failures' \in Nat
      /\ failures' = failures => queueRules' = n /\ failed' = failed
      /\ ~failed' => queueRules' = n /\ ~failed /\ failures' = failures
  <2> HIDE DEF n
  <2> QED BY <1>1, NftLeaves DEF Absent
<1>3. Flags'
  BY <1>2 DEF Install, Flags
<1>4. Numbers' /\ Work'
  BY <1>2 DEF Install, Numbers, Work, Phases
<1> HIDE DEF n
<1>4a. Mutex' /\ Fresh' /\ Clean'
  BY DEF Install, Mutex, Fresh, Clean
<1>5. Handle'
  <2>1. CASE failures' = failures
    BY <1>1, <1>2, <2>1 DEF Install, Handle, Absent
  <2>2. CASE failures' # failures
    BY <2>2 DEF Install, Handle
  <2> QED BY <2>1, <2>2
<1>6. Serial'
  BY <1>1, <1>2 DEF Install, Serial, Fresh, NoRequest, Flags
<1> QED BY <1>3, <1>4, <1>4a, <1>5, <1>6

\* Steps of the worker do not touch the switch.
LEMMA WorkerStep == IInv /\ (Bind \/ WorkerStops) => IInv'
<1> SUFFICES ASSUME IInv, Bind \/ WorkerStops PROVE IInv' OBVIOUS
<1> USE DEF IInv, Types, Bind, WorkerStops, kernel, counts, hist
<1>1. Flags'
  BY DEF Flags
<1>2. Numbers' /\ Work'
  BY DEF Numbers, Work
<1>3. Mutex' /\ Fresh' /\ Handle' /\ Clean'
  BY DEF Mutex, Fresh, NoRequest, Handle, Clean
<1>4. Serial'
  BY DEF Serial, NoRequest
<1> QED BY <1>1, <1>2, <1>3, <1>4

LEMMA SetPausedStep ==
  ASSUME IInv, NEW c \in Connections, NEW p \in BOOLEAN, SetPaused(c, p)
  PROVE  IInv'
<1> USE DEF IInv, Types, SetPaused, kernel
<1>1. Flags'
  BY DEF Flags
<1>2. Numbers' /\ Work'
  <2>1. toggles' \in TaskIds
    BY Bounds DEF Numbers, TaskIds
  <2> QED BY <2>1 DEF Numbers, Work, TaskIds
<1>3. Mutex' /\ Handle' /\ Clean'
  BY DEF Mutex, Handle, Clean
<1>4. Fresh'
  BY DEF Fresh, Serving
<1>5. Serial'
  <2> SUFFICES ASSUME ~overlapped' PROVE Serial' BY DEF Serial
  <2>1. NoRequest /\ DOMAIN tasks = {}
    BY NotBusy DEF Flags
  <2>2. request'[c] = [pause |-> p, task |-> toggles'] /\ toggles' # 0
    BY DEF Numbers, Work
  <2>3. request'[c] # Unasked /\ request'[c].pause = p
    BY <2>2 DEF Unasked
  <2>4. \A d \in Connections \ {c} : request'[d] = Unasked
    BY <2>1 DEF NoRequest, Work
  <2> QED BY <2>1, <2>3, <2>4 DEF Serial
<1> QED BY <1>1, <1>2, <1>3, <1>4, <1>5

LEMMA AnswerStep ==
  ASSUME IInv, NEW c \in Connections, Answer(c)
  PROVE  IInv'
<1> USE DEF IInv, Types, Answer, kernel, counts, hist
<1> DEFINE t == request[c].task
<1>1. t \in TaskIds /\ request[c].pause \in BOOLEAN
  BY DEF Work
<1>2. /\ DOMAIN tasks' = DOMAIN tasks \cup {t} /\ tasks'[t] = request[c].pause
      /\ \A k \in DOMAIN tasks \ {t} : tasks'[k] = tasks[k]
  OBVIOUS
<1>3. Flags'
  BY <1>1 DEF Flags
<1>4. Numbers'
  BY DEF Numbers
<1>5. Work'
  BY <1>1, <1>2 DEF Work
<1>6. Mutex' /\ Handle' /\ Clean'
  BY <1>2 DEF Mutex, Handle, Clean
<1>7. Fresh'
  BY DEF Fresh, Serving
<1>8. Serial'
  <2> SUFFICES ASSUME phase = "up", handle, ~failed, ~overlapped
               PROVE  /\ NoRequest' /\ announced' = paused'
                      /\ \E k \in DOMAIN tasks' : DOMAIN tasks' = {k} /\ tasks'[k] = paused'
    BY DEF Serial
  <2>1. /\ DOMAIN tasks = {} /\ request[c].pause = paused
        /\ \A d \in Connections \ {c} : request[d] = Unasked
    BY DEF Serial, NoRequest
  <2>2. NoRequest'
    BY <2>1 DEF NoRequest, Work
  <2>3. DOMAIN tasks' = {t} /\ tasks'[t] = paused' /\ announced' = paused'
    BY <1>2, <2>1
  <2> QED BY <2>2, <2>3
<1> QED BY <1>3, <1>4, <1>5, <1>6, <1>7, <1>8

\* What is left of the tasks when one ends.
LEMMA EndedTasks ==
  ASSUME NEW k, Ended(k)
  PROVE  /\ DOMAIN tasks' = DOMAIN tasks \ {k}
         /\ \A j \in DOMAIN tasks' : tasks'[j] = tasks[j]
BY DEF Ended

LEMMA LockStep ==
  ASSUME IInv, NEW k \in TaskIds, Lock(k)
  PROVE  IInv'
<1> USE DEF IInv, Types, Lock, kernel, counts, hist
<1>1. CASE handle
  <2> USE <1>1
  <2>1. Flags' /\ Numbers'
    BY DEF Flags, Numbers
  <2>2. Work'
    BY DEF Work
  <2>3. Mutex' /\ Handle' /\ Clean' /\ Fresh'
    BY DEF Mutex, Handle, Clean, Fresh, NoRequest
  <2>4. Serial'
    BY DEF Serial, NoRequest
  <2> QED BY <2>1, <2>2, <2>3, <2>4
<1>2. CASE ~handle
  <2> USE <1>2, EndedTasks
  <2>1. Flags' /\ Numbers'
    BY DEF Flags, Numbers
  <2>2. Work'
    BY DEF Work
  <2>3. Mutex' /\ Handle' /\ Clean' /\ Fresh' /\ Serial'
    BY DEF Mutex, Handle, Clean, Fresh, NoRequest, Serial
  <2> QED BY <2>1, <2>2, <2>3
<1> QED BY <1>1, <1>2

LEMMA ToggleStep ==
  ASSUME IInv, NEW k \in TaskIds, Toggle(k)
  PROVE  IInv'
<1> USE DEF IInv, Types
<1> DEFINE n == Toggled(queueRules, tasks[k])
<1>1. handle /\ k \in DOMAIN tasks /\ tasks[k] \in BOOLEAN /\ mutex' = Free /\ Nft(n)
  BY DEF Toggle, Mutex, Free, TaskIds, Work
<1>2. n \in Int /\ n >= Absent /\ n # Absent /\ (tasks[k] <=> n = 0)
  BY <1>1, ToggledTypes DEF Numbers, Handle
<1> HIDE DEF n
<1>3. /\ queueRules' \in Int /\ queueRules' >= Absent
      /\ failed' \in BOOLEAN /\ failures' \in Nat
      /\ ~failed' => queueRules' = n /\ ~failed
      /\ queueRules' = n \/ queueRules' = queueRules
  BY <1>1, <1>2, NftLeaves
<1>4. /\ DOMAIN tasks' = DOMAIN tasks \ {k}
      /\ \A j \in DOMAIN tasks' : tasks'[j] = tasks[j]
  BY EndedTasks DEF Toggle
<1>5. Flags'
  BY <1>3 DEF Flags, Toggle
<1>6. Numbers' /\ Work'
  BY <1>3, <1>4 DEF Numbers, Work, Toggle
<1>7. Mutex' /\ Handle' /\ Fresh'
  BY <1>1, <1>2, <1>3 DEF Mutex, Handle, Fresh, Toggle
<1>8. Clean'
  BY <1>1 DEF Clean, Fresh, Toggle
<1>9. Serial'
  <2> SUFFICES ASSUME phase = "up", ~failed', ~overlapped
               PROVE  NoRequest' /\ DOMAIN tasks' = {} /\ (paused' <=> queueRules' = 0) /\ announced' = paused'
    BY DEF Serial, Toggle
  <2>1. NoRequest /\ announced = paused /\ DOMAIN tasks = {k} /\ tasks[k] = paused
    BY <1>1, <1>3 DEF Serial
  <2>2. NoRequest' /\ DOMAIN tasks' = {} /\ announced' = paused'
    BY <2>1, <1>4 DEF NoRequest, Toggle
  <2>3. paused' <=> queueRules' = 0
    BY <2>1, <1>2, <1>3 DEF Toggle
  <2> QED BY <2>2, <2>3
<1> QED BY <1>5, <1>6, <1>7, <1>8, <1>9

\* Signal, Take and Teardown.
LEMMA StopStep == IInv /\ (Signal \/ Take \/ Teardown) => IInv'
<1> SUFFICES ASSUME IInv, Signal \/ Take \/ Teardown PROVE IInv' OBVIOUS
<1> USE DEF IInv, Types, kernel, counts, hist
<1>1. CASE Signal \/ Take
  <2> USE <1>1 DEF Signal, Take
  <2>1. Flags'
    BY DEF Flags
  <2>2. Numbers' /\ Work'
    BY DEF Numbers, Work, Phases
  <2>3. Mutex' /\ Handle' /\ Clean' /\ Fresh' /\ Serial'
    BY DEF Mutex, Handle, Clean, Fresh, Serial
  <2> QED BY <2>1, <2>2, <2>3
<1>2. CASE Teardown
  <2>1. Nft(Absent) /\ Absent \in Int /\ ~handle
    BY <1>2 DEF Teardown, Absent, Handle
  <2>2. /\ queueRules' \in Int /\ queueRules' >= Absent
        /\ failed' \in BOOLEAN /\ failures' \in Nat
    BY <2>1, NftLeaves DEF Absent
  <2>3. Flags'
    BY <1>2, <2>2 DEF Flags, Teardown
  <2>4. Numbers' /\ Work'
    BY <1>2, <2>2 DEF Numbers, Work, Phases, Teardown
  <2>5. Mutex' /\ Handle' /\ Clean' /\ Fresh' /\ Serial'
    BY <1>2, <2>1 DEF Mutex, Handle, Clean, Fresh, Serial, Teardown
  <2> QED BY <2>3, <2>4, <2>5
<1> QED BY <1>1, <1>2

LEMMA GoneStep == IInv /\ Gone => IInv'
<1> SUFFICES ASSUME IInv, Gone PROVE IInv' OBVIOUS
<1> USE DEF IInv, Types, Gone, kernel, counts, hist
<1>1. Flags'
  BY DEF Flags
<1>2. DOMAIN tasks' = {}
  OBVIOUS
<1>3. Numbers' /\ Work'
  BY <1>2 DEF Numbers, Work, Phases
<1>4. Mutex' /\ Handle' /\ Clean' /\ Fresh' /\ Serial'
  BY <1>2 DEF Mutex, Handle, Clean, Fresh, NoRequest, Serial
<1> QED BY <1>1, <1>3, <1>4

\* Steps that change nothing.
LEMMA Stutter == IInv /\ UNCHANGED switchVars => IInv'
<1> SUFFICES ASSUME IInv, UNCHANGED switchVars PROVE IInv' OBVIOUS
<1> USE DEF IInv, Types, switchVars, kernel, counts, hist
<1>1. Flags' /\ Numbers' /\ Work'
  BY DEF Flags, Numbers, Work
<1>2. Mutex' /\ Handle' /\ Clean' /\ Fresh'
  BY DEF Mutex, Handle, Clean, Fresh, NoRequest
<1>3. Serial'
  BY DEF Serial, NoRequest
<1> QED BY <1>1, <1>2, <1>3

LEMMA NextIInv == IInv /\ [SwitchNext]_switchVars => IInv'
<1> SUFFICES ASSUME IInv, [SwitchNext]_switchVars PROVE IInv' OBVIOUS
<1>1. CASE Boot BY <1>1, BootStep
<1>2. CASE Install BY <1>2, InstallStep
<1>3. CASE Bind \/ WorkerStops BY <1>3, WorkerStep
<1>4. ASSUME NEW c \in Connections, NEW p \in BOOLEAN, SetPaused(c, p) PROVE IInv'
  BY <1>4, SetPausedStep
<1>5. ASSUME NEW c \in Connections, Answer(c) PROVE IInv'
  BY <1>5, AnswerStep
<1>6. ASSUME NEW k \in TaskIds, Lock(k) PROVE IInv'
  BY <1>6, LockStep
<1>7. ASSUME NEW k \in TaskIds, Toggle(k) PROVE IInv'
  BY <1>7, ToggleStep
<1>8. CASE Signal \/ Take \/ Teardown BY <1>8, StopStep
<1>9. CASE ExitProcess \/ KillProcess BY <1>9, GoneStep DEF ExitProcess, KillProcess
<1>10. CASE UNCHANGED switchVars BY <1>10, Stutter
<1> QED BY <1>1, <1>2, <1>3, <1>4, <1>5, <1>6, <1>7, <1>8, <1>9, <1>10 DEF SwitchNext

-----------------------------------------------------------------------------
(* The results *)

\* The inductive invariant holds in every reachable state: of the switch, its
\* tasks, the table and the mutex.
THEOREM Invariance == SwitchSpec => []IInv
BY InitIInv, NextIInv, PTL DEF SwitchSpec

\* Types, and only a toggle that has a firewall to work on holds the mutex.
THEOREM TypeCorrect == SwitchSpec => []SwitchTypeOK
<1>1. IInv => SwitchTypeOK
  <2> SUFFICES ASSUME IInv PROVE SwitchTypeOK OBVIOUS
  <2>1. \A c \in Connections : request[c] \in [pause : BOOLEAN, task : 0 .. MaxToggles]
    <3>1. Unasked \in [pause : BOOLEAN, task : 0 .. MaxToggles]
      BY Bounds DEF Unasked
    <3>2. [pause : BOOLEAN, task : TaskIds] \subseteq [pause : BOOLEAN, task : 0 .. MaxToggles]
      BY Bounds DEF TaskIds
    <3> QED BY <3>1, <3>2 DEF IInv, Types, Work
  <2> QED BY <2>1 DEF IInv, Types, Flags, Numbers, Work, Mutex, SwitchTypeOK
<1> QED BY <1>1, Invariance, PTL

\* SetPaused requests that do not overlap leave chain, flag and subscribers in
\* agreement, for any number of requests, crashes and starts.
THEOREM SerialToggles == SwitchSpec => []SerialTogglesAgree
<1>1. IInv => SerialTogglesAgree
  <2> SUFFICES ASSUME IInv, Quiet, ~overlapped
               PROVE  paused = (queueRules = 0) /\ announced = paused
    BY DEF SerialTogglesAgree
  <2>1. NoRequest /\ DOMAIN tasks = {}
    BY NotBusy DEF Quiet
  <2>2. (paused <=> queueRules = 0) /\ announced = paused
    BY <2>1 DEF IInv, Serial, Quiet, NoRequest
  <2> QED BY <2>2 DEF IInv, Types, Flags
<1> QED BY <1>1, Invariance, PTL

\* A start that nft does not fail leaves one queue rule, whatever the table was.
THEOREM FreshStart == SwitchSpec => FreshStartHasOneRule
<1>1. IInv /\ [SwitchNext]_switchVars => [phase = "setup" /\ phase' = "up" /\ ~failed' => queueRules' = 1]_switchVars
  <2> SUFFICES ASSUME IInv, SwitchNext, phase = "setup", phase' = "up", ~failed'
               PROVE  queueRules' = 1
    OBVIOUS
  <2>1. Install
    BY DEF SwitchNext, Boot, Install, Bind, WorkerStops, SetPaused, Answer, Lock, Toggle, Signal,
           Take, Teardown, ExitProcess, KillProcess, Gone, Serving
  <2> QED BY <2>1 DEF Install, Nft, IInv, Clean
<1> QED BY <1>1, Invariance, PTL DEF SwitchSpec, FreshStartHasOneRule

\* After the teardown no late toggle touches the kernel until the next start.
THEOREM Final == SwitchSpec => ShutdownIsFinal
<1>1. IInv /\ [SwitchNext]_switchVars =>
        [phase' # "setup" /\ phase \in {"exiting", "down"} => UNCHANGED queueRules]_switchVars
  <2> SUFFICES ASSUME IInv, SwitchNext, phase' # "setup", phase \in {"exiting", "down"}
               PROVE  UNCHANGED queueRules
    OBVIOUS
  <2>1. mutex = Free
    BY DEF IInv, Mutex, Handle, Fresh
  <2>2. ASSUME NEW k \in TaskIds PROVE ~Toggle(k)
    BY <2>1, <2>2 DEF Toggle, TaskIds, Free
  <2> QED BY <2>2 DEF SwitchNext, Boot, Install, Bind, WorkerStops, SetPaused, Answer, Lock, Signal,
                            Take, Teardown, ExitProcess, KillProcess, Gone, kernel
<1> QED BY <1>1, Invariance, PTL DEF SwitchSpec, ShutdownIsFinal
=============================================================================
