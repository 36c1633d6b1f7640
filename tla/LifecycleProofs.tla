-------------------------- MODULE LifecycleProofs --------------------------
(***************************************************************************)
(* Lifecycle, for any daemons and any number of starts, failures and       *)
(* deaths: a daemon that has been alone is in control, and its clean stop  *)
(* leaves nothing but what nft and remove_file have failed to remove.      *)
(***************************************************************************)
EXTENDS Lifecycle, TLAPS

Starting == {"delete", "install"}
Labels == Starting \cup {"off", "unlink", "listen", "serving", "stopping", "giving up",
                         "unsocket", "exit 0", "exit 1"}

Types ==
  /\ table \in BOOLEAN /\ stale \in BOOLEAN
  /\ queue \in Daemons \cup {Nobody} /\ sock \in Daemons \cup {Nobody}
  /\ pc \in [Daemons -> Labels]
  /\ last \in [Daemons -> {"clean", "failed"}]
  /\ thread \in [Daemons -> {"none", "opening", "bound", "refused", "failed"}]
  /\ fw \in [Daemons -> BOOLEAN] /\ active \in [Daemons -> BOOLEAN]
  /\ company \in [Daemons -> BOOLEAN]
  /\ kept \in [Daemons -> SUBSET {"table", "socket"}]

\* What a process holds in the kernel and in memory goes with it, and it holds no
\* table before it has installed one.
HoldsWhileAlive(d) ==
  /\ pc[d] = "off" => sock # d
  /\ pc[d] \in Starting \cup {"off"} => ~fw[d] /\ thread[d] = "none"
  /\ thread[d] = "bound" <=> queue = d
  /\ active[d] => thread[d] = "bound"

\* A daemon without company is the only one.
Alone(d) == pc[d] # "off" /\ ~company[d]
AloneIsAlone(d) == Alone(d) => \A o \in Daemons \ {d} : pc[o] = "off"

\* What a daemon that is alone has reached: its table, one that it failed to delete,
\* or none; its socket, one that it failed to remove, or none.
Control(d) ==
  Alone(d) => /\ thread[d] # "refused"
              /\ pc[d] # "delete" => (table <=> fw[d] \/ "table" \in kept[d])
              /\ pc[d] \in {"unsocket", "exit 0"} => ~fw[d]
              /\ pc[d] = "listen" => sock = Nobody /\ ~stale
              /\ pc[d] = "exit 0" => (sock # Nobody \/ stale <=> "socket" \in kept[d])
              /\ pc[d] = "serving" => sock = d

\* The inductive invariant.
IInv ==
  /\ Types
  /\ \A d \in Daemons : HoldsWhileAlive(d) /\ AloneIsAlone(d) /\ Control(d)

-----------------------------------------------------------------------------
(* The invariant is inductive: one lemma per action *)

USE NobodyIsNoDaemon

LEMMA Initially == LifeInit => IInv
<1> SUFFICES ASSUME LifeInit PROVE IInv
  OBVIOUS
<1> USE DEF LifeInit
<1>1. Types
  BY DEF Types, Labels, Starting
<1>2. ASSUME NEW d \in Daemons PROVE HoldsWhileAlive(d)
  <2>1. queue # d /\ sock # d
    OBVIOUS
  <2>2. pc[d] = "off" /\ thread[d] = "none" /\ fw[d] = FALSE /\ active[d] = FALSE
    OBVIOUS
  <2>3. QED
    BY <2>1, <2>2 DEF HoldsWhileAlive
<1>3. ASSUME NEW d \in Daemons PROVE AloneIsAlone(d) /\ Control(d)
  BY DEF AloneIsAlone, Control, Alone
<1>4. QED
  BY <1>1, <1>2, <1>3 DEF IInv

LEMMA StartedKeeps ==
  ASSUME IInv, NEW d \in Daemons, Started(d)
  PROVE  IInv'
<1> USE DEF IInv, Types, Labels, Starting, Started, Alive, Goto, kernel
<1>1. Types'
  OBVIOUS
<1>2. ASSUME NEW c \in Daemons PROVE HoldsWhileAlive(c)'
  BY DEF HoldsWhileAlive
<1>3. ASSUME NEW c \in Daemons PROVE AloneIsAlone(c)'
  BY DEF AloneIsAlone, Alone, HoldsWhileAlive
<1>4. ASSUME NEW c \in Daemons, Alone(c)' PROVE Control(c)'
  BY <1>4 DEF Control, AloneIsAlone, Alone, HoldsWhileAlive
<1>5. QED
  BY <1>1, <1>2, <1>3, <1>4 DEF Control

\* The bookkeeping of what was not removed stays well typed.
LEMMA KeptIsTyped ==
  ASSUME Types, NEW d \in Daemons, NEW what \in {"table", "socket"},
         \/ Keeps(d, what) \/ Clears(d, what)
         \/ kept' = [kept EXCEPT ![d] = {}] \/ kept' = [kept EXCEPT ![d] = {what}]
         \/ UNCHANGED kept
  PROVE  kept' \in [Daemons -> SUBSET {"table", "socket"}]
<1>1. kept \in [Daemons -> SUBSET {"table", "socket"}]
  BY DEF Types
<1>2. kept[d] \cup {what} \in SUBSET {"table", "socket"} /\ kept[d] \ {what} \in SUBSET {"table", "socket"}
  BY <1>1
<1>3. {what} \in SUBSET {"table", "socket"} /\ {} \in SUBSET {"table", "socket"}
  OBVIOUS
<1>4. UNCHANGED kept \/ \E k \in SUBSET {"table", "socket"} : kept' = [kept EXCEPT ![d] = k]
  BY <1>2, <1>3 DEF Keeps, Clears
<1>5. QED
  BY <1>1, <1>4

LEMMA KeptChanges ==
  ASSUME Types, NEW d \in Daemons, NEW what
  PROVE  /\ Keeps(d, what) => \A o : o \in kept'[d] <=> o \in kept[d] \/ o = what
         /\ Clears(d, what) => \A o : o \in kept'[d] <=> o \in kept[d] /\ o # what
BY DEF Types, Keeps, Clears

LEMMA DeleteKeeps ==
  ASSUME IInv, NEW d \in Daemons, DeleteStale(d)
  PROVE  IInv'
<1> USE DEF IInv, Types, Labels, Starting, DeleteStale, Goto, Fault
<1>0. kept' \in [Daemons -> SUBSET {"table", "socket"}]
  BY KeptIsTyped
<1>1. Types'
  BY <1>0
<1>2. ASSUME NEW c \in Daemons PROVE HoldsWhileAlive(c)'
  BY DEF HoldsWhileAlive
<1>3. ASSUME NEW c \in Daemons PROVE AloneIsAlone(c)'
  BY DEF AloneIsAlone, Alone, HoldsWhileAlive
<1>4. ASSUME NEW c \in Daemons, Alone(c)' PROVE Control(c)'
  <2>1. CASE c # d
    BY <1>4, <2>1 DEF Control, AloneIsAlone, Alone, HoldsWhileAlive
  <2>2. CASE c = d
    <3>1. CASE table' = FALSE /\ kept' = [kept EXCEPT ![d] = {}]
      <4>1. ~table' /\ "table" \notin kept'[d]
        BY <3>1
      <4>2. QED
        BY <1>4, <2>2, <4>1 DEF Control, Alone, HoldsWhileAlive
    <3>2. CASE table /\ UNCHANGED table /\ kept' = [kept EXCEPT ![d] = {"table"}]
      <4>1. table' /\ "table" \in kept'[d]
        BY <3>2
      <4>2. QED
        BY <1>4, <2>2, <4>1 DEF Control, Alone, HoldsWhileAlive
    <3>3. QED
      BY <3>1, <3>2
  <2>3. QED
    BY <2>1, <2>2
<1>5. QED
  BY <1>1, <1>2, <1>3, <1>4 DEF Control

LEMMA InstallKeeps ==
  ASSUME IInv, NEW d \in Daemons, Install(d)
  PROVE  IInv'
<1>k. /\ Keeps(d, "table") => \A o : o \in kept'[d] <=> o \in kept[d] \/ o = "table"
      /\ Clears(d, "table") => \A o : o \in kept'[d] <=> o \in kept[d] /\ o # "table"
  BY KeptChanges DEF IInv
<1> USE DEF IInv, Types, Labels, Starting, Install, Goto, Fault
<1>0. kept' \in [Daemons -> SUBSET {"table", "socket"}]
  BY KeptIsTyped
<1>1. Types'
  BY <1>0
<1>2. ASSUME NEW c \in Daemons PROVE HoldsWhileAlive(c)'
  BY DEF HoldsWhileAlive
<1>3. ASSUME NEW c \in Daemons PROVE AloneIsAlone(c)'
  BY DEF AloneIsAlone, Alone, HoldsWhileAlive
<1>4. ASSUME NEW c \in Daemons, Alone(c)' PROVE Control(c)'
  <2>1. CASE c # d
    BY <1>4, <2>1 DEF Control, AloneIsAlone, Alone, HoldsWhileAlive
  <2>2. CASE c = d
    <3>1. (thread[d] # "refused")'
      BY <1>4, <2>2 DEF Control, Alone
    <3>2. (pc[d] # "delete" => (table <=> fw[d] \/ "table" \in kept[d]))'
      BY <1>k, <1>4, <2>2 DEF Control, Alone, HoldsWhileAlive
    <3>3. (pc[d] \in {"unsocket", "exit 0"} => ~fw[d])'
      BY <1>4, <2>2 DEF Control, Alone
    <3>4. /\ (pc[d] = "listen" => sock = Nobody /\ ~stale)'
          /\ (pc[d] = "exit 0" => (sock # Nobody \/ stale <=> "socket" \in kept[d]))'
      BY <1>4, <2>2 DEF Control, Alone
    <3>5. (pc[d] = "serving" => sock = d)'
      BY <1>4, <2>2 DEF Control, Alone
    <3>6. QED
      BY <2>2, <3>1, <3>2, <3>3, <3>4, <3>5 DEF Control
  <2>3. QED
    BY <2>1, <2>2
<1>5. QED
  BY <1>1, <1>2, <1>3, <1>4 DEF Control

LEMMA BindKeeps ==
  ASSUME IInv, NEW d \in Daemons, BindQueue(d)
  PROVE  IInv'
<1> USE DEF IInv, Types, Labels, Starting, BindQueue, Alive
<1>1. Types'
  OBVIOUS
<1>2. ASSUME NEW c \in Daemons PROVE HoldsWhileAlive(c)'
  <2>1. CASE c # d
    BY <2>1 DEF HoldsWhileAlive
  <2>2. CASE c = d
    <3>1. (pc[d] = "off")' => (sock # d)'
      BY DEF HoldsWhileAlive
    <3>2. (pc[d] \in Starting \cup {"off"})' => (~fw[d] /\ thread[d] = "none")'
      BY DEF HoldsWhileAlive
    <3>3. (thread[d] = "bound" <=> queue = d)' /\ (active[d] => thread[d] = "bound")'
      BY DEF HoldsWhileAlive
    <3>4. QED
      BY <2>2, <3>1, <3>2, <3>3 DEF HoldsWhileAlive
  <2>3. QED
    BY <2>1, <2>2
<1>3. ASSUME NEW c \in Daemons PROVE AloneIsAlone(c)'
  BY DEF AloneIsAlone, Alone, HoldsWhileAlive
<1>4. ASSUME NEW c \in Daemons, Alone(c)' PROVE Control(c)'
  <2>1. CASE c # d
    BY <1>4, <2>1 DEF Control, AloneIsAlone, Alone, HoldsWhileAlive
  <2>2. CASE c = d
    <3>1. Alone(d)
      BY <1>4, <2>2 DEF Alone
    <3>2. \A o \in Daemons \ {d} : queue # o
      BY <3>1 DEF AloneIsAlone, HoldsWhileAlive
    <3>3. queue = Nobody
      BY <3>2 DEF HoldsWhileAlive
    <3>4. QED
      BY <2>2, <3>1, <3>3 DEF Control
  <2>3. QED
    BY <2>1, <2>2
<1>5. QED
  BY <1>1, <1>2, <1>3, <1>4 DEF Control

LEMMA WorkerFailsKeeps ==
  ASSUME IInv, NEW d \in Daemons, WorkerFails(d)
  PROVE  IInv'
<1> USE DEF IInv, Types, Labels, Starting, WorkerFails, Alive, Fault
<1>1. Types'
  OBVIOUS
<1>2. ASSUME NEW c \in Daemons PROVE HoldsWhileAlive(c)'
  BY DEF HoldsWhileAlive
<1>3. ASSUME NEW c \in Daemons PROVE AloneIsAlone(c)'
  BY DEF AloneIsAlone, Alone, HoldsWhileAlive
<1>4. ASSUME NEW c \in Daemons, Alone(c)' PROVE Control(c)'
  BY <1>4 DEF Control, AloneIsAlone, Alone, HoldsWhileAlive
<1>5. QED
  BY <1>1, <1>2, <1>3, <1>4 DEF Control

LEMMA RemoveStaleKeeps ==
  ASSUME IInv, NEW d \in Daemons, RemoveStale(d)
  PROVE  IInv'
<1> USE DEF IInv, Types, Labels, Starting, RemoveStale, Goto, Fault
<1>1. Types'
  OBVIOUS
<1>2. ASSUME NEW c \in Daemons PROVE HoldsWhileAlive(c)'
  BY DEF HoldsWhileAlive
<1>3. ASSUME NEW c \in Daemons PROVE AloneIsAlone(c)'
  BY DEF AloneIsAlone, Alone, HoldsWhileAlive
<1>4. ASSUME NEW c \in Daemons, Alone(c)' PROVE Control(c)'
  <2>1. Alone(c)
    BY <1>4 DEF Alone
  <2>2. CASE c # d
    BY <2>1, <2>2 DEF AloneIsAlone
  <2>3. CASE c = d
    <3>1. CASE Goto(d, "listen") /\ sock' = Nobody /\ stale' = FALSE
      BY <2>1, <2>3, <3>1 DEF Control
    <3>2. CASE Goto(d, "giving up") /\ UNCHANGED <<sock, stale>>
      BY <2>1, <2>3, <3>2 DEF Control
    <3>3. QED
      BY <3>1, <3>2
  <2>4. QED
    BY <2>2, <2>3
<1>5. QED
  BY <1>1, <1>2, <1>3, <1>4 DEF Control

LEMMA ListenKeeps ==
  ASSUME IInv, NEW d \in Daemons, Listen(d)
  PROVE  IInv'
<1> USE DEF IInv, Types, Labels, Starting, Listen, Goto, Fault
<1>1. Types'
  OBVIOUS
<1>2. ASSUME NEW c \in Daemons PROVE HoldsWhileAlive(c)'
  <2>1. CASE c # d
    BY <2>1 DEF HoldsWhileAlive
  <2>2. CASE c = d
    <3>1. (pc[d] = "off")' => (sock # d)'
      BY DEF HoldsWhileAlive
    <3>2. (pc[d] \in Starting \cup {"off"})' => (~fw[d] /\ thread[d] = "none")'
      BY DEF HoldsWhileAlive
    <3>3. (thread[d] = "bound" <=> queue = d)' /\ (active[d] => thread[d] = "bound")'
      BY DEF HoldsWhileAlive
    <3>4. QED
      BY <2>2, <3>1, <3>2, <3>3 DEF HoldsWhileAlive
  <2>3. QED
    BY <2>1, <2>2
<1>3. ASSUME NEW c \in Daemons PROVE AloneIsAlone(c)'
  BY DEF AloneIsAlone, Alone, HoldsWhileAlive
<1>4. ASSUME NEW c \in Daemons, Alone(c)' PROVE Control(c)'
  <2>1. CASE c # d
    BY <1>4, <2>1 DEF Control, AloneIsAlone, Alone, HoldsWhileAlive
  <2>2. CASE c = d
    <3>1. (thread[d] # "refused")'
      BY <1>4, <2>2 DEF Control, Alone
    <3>2. (pc[d] # "delete" => (table <=> fw[d] \/ "table" \in kept[d]))'
      BY <1>4, <2>2 DEF Control, Alone, HoldsWhileAlive
    <3>3. (pc[d] \in {"unsocket", "exit 0"} => ~fw[d])'
      BY <1>4, <2>2 DEF Control, Alone
    <3>4. /\ (pc[d] = "listen" => sock = Nobody /\ ~stale)'
          /\ (pc[d] = "exit 0" => (sock # Nobody \/ stale <=> "socket" \in kept[d]))'
      BY <1>4, <2>2 DEF Control, Alone
    <3>5. (pc[d] = "serving" => sock = d)'
      BY <1>4, <2>2 DEF Control, Alone
    <3>6. QED
      BY <2>2, <3>1, <3>2, <3>3, <3>4, <3>5 DEF Control
  <2>3. QED
    BY <2>1, <2>2
<1>5. QED
  BY <1>1, <1>2, <1>3, <1>4 DEF Control

LEMMA SignalKeeps ==
  ASSUME IInv, NEW d \in Daemons, Signal(d)
  PROVE  IInv'
<1> USE DEF IInv, Types, Labels, Starting, Signal, Goto, kernel
<1>1. Types'
  OBVIOUS
<1>2. ASSUME NEW c \in Daemons PROVE HoldsWhileAlive(c)'
  BY DEF HoldsWhileAlive
<1>3. ASSUME NEW c \in Daemons PROVE AloneIsAlone(c)'
  BY DEF AloneIsAlone, Alone, HoldsWhileAlive
<1>4. ASSUME NEW c \in Daemons, Alone(c)' PROVE Control(c)'
  BY <1>4 DEF Control, AloneIsAlone, Alone, HoldsWhileAlive
<1>5. QED
  BY <1>1, <1>2, <1>3, <1>4 DEF Control

LEMMA TeardownKeeps ==
  ASSUME IInv, NEW d \in Daemons, Teardown(d)
  PROVE  IInv'
<1>k. /\ Keeps(d, "table") => \A o : o \in kept'[d] <=> o \in kept[d] \/ o = "table"
      /\ Clears(d, "table") => \A o : o \in kept'[d] <=> o \in kept[d] /\ o # "table"
  BY KeptChanges DEF IInv
<1> USE DEF IInv, Types, Labels, Starting, Teardown, Goto, Fault
<1>0. kept' \in [Daemons -> SUBSET {"table", "socket"}]
  BY KeptIsTyped
<1>1. Types'
  BY <1>0
<1>2. ASSUME NEW c \in Daemons PROVE HoldsWhileAlive(c)'
  BY DEF HoldsWhileAlive
<1>3. ASSUME NEW c \in Daemons PROVE AloneIsAlone(c)'
  BY DEF AloneIsAlone, Alone, HoldsWhileAlive
<1>4. ASSUME NEW c \in Daemons, Alone(c)' PROVE Control(c)'
  <2>1. CASE c # d
    BY <1>4, <2>1 DEF Control, AloneIsAlone, Alone, HoldsWhileAlive
  <2>2. CASE c = d
    <3>1. (thread[d] # "refused")'
      BY <1>4, <2>2 DEF Control, Alone
    <3>2. (pc[d] # "delete" => (table <=> fw[d] \/ "table" \in kept[d]))'
      <4>1. ~fw'[d] /\ (table <=> fw[d] \/ "table" \in kept[d])
        BY <1>4, <2>2 DEF Control, Alone
      <4>2. CASE ~fw[d] /\ UNCHANGED <<table, kept>>
        BY <4>1, <4>2
      <4>3. CASE table' = FALSE /\ Clears(d, "table")
        <5>1. ~table' /\ "table" \notin kept'[d]
          BY <1>k, <4>3
        <5>2. QED
          BY <4>1, <5>1
      <4>4. CASE table /\ UNCHANGED table /\ Keeps(d, "table")
        <5>1. table' /\ "table" \in kept'[d]
          BY <1>k, <4>4
        <5>2. QED
          BY <4>1, <5>1
      <4>5. QED
        BY <4>2, <4>3, <4>4
    <3>3. (pc[d] \in {"unsocket", "exit 0"} => ~fw[d])'
      BY <1>4, <2>2 DEF Control, Alone
    <3>4. /\ (pc[d] = "listen" => sock = Nobody /\ ~stale)'
          /\ (pc[d] = "exit 0" => (sock # Nobody \/ stale <=> "socket" \in kept[d]))'
      BY <1>4, <2>2 DEF Control, Alone
    <3>5. (pc[d] = "serving" => sock = d)'
      BY <1>4, <2>2 DEF Control, Alone
    <3>6. QED
      BY <2>2, <3>1, <3>2, <3>3, <3>4, <3>5 DEF Control
  <2>3. QED
    BY <2>1, <2>2
<1>5. QED
  BY <1>1, <1>2, <1>3, <1>4 DEF Control

LEMMA UnsocketKeeps ==
  ASSUME IInv, NEW d \in Daemons, Unsocket(d)
  PROVE  IInv'
<1>k. /\ Keeps(d, "socket") => \A o : o \in kept'[d] <=> o \in kept[d] \/ o = "socket"
      /\ Clears(d, "socket") => \A o : o \in kept'[d] <=> o \in kept[d] /\ o # "socket"
  BY KeptChanges DEF IInv
<1> USE DEF IInv, Types, Labels, Starting, Unsocket, Goto, Fault
<1>0. kept' \in [Daemons -> SUBSET {"table", "socket"}]
  BY KeptIsTyped
<1>1. Types'
  BY <1>0
<1>2. ASSUME NEW c \in Daemons PROVE HoldsWhileAlive(c)'
  BY DEF HoldsWhileAlive
<1>3. ASSUME NEW c \in Daemons PROVE AloneIsAlone(c)'
  BY DEF AloneIsAlone, Alone, HoldsWhileAlive
<1>4. ASSUME NEW c \in Daemons, Alone(c)' PROVE Control(c)'
  <2>1. CASE c # d
    BY <1>4, <2>1 DEF Control, AloneIsAlone, Alone, HoldsWhileAlive
  <2>2. CASE c = d
    <3>1. /\ "table" \in kept'[d] <=> "table" \in kept[d]
          /\ sock' # Nobody \/ stale' <=> "socket" \in kept'[d]
      BY <1>k
    <3>2. QED
      BY <1>4, <2>2, <3>1 DEF Control, Alone, HoldsWhileAlive
  <2>3. QED
    BY <2>1, <2>2
<1>5. QED
  BY <1>1, <1>2, <1>3, <1>4 DEF Control

\* However a process ends, nobody is alone in it afterwards.
LEMMA GoneKeeps ==
  ASSUME IInv, NEW d \in Daemons, NEW how \in {"clean", "failed"}, pc[d] # "off", Gone(d, how)
  PROVE  IInv'
<1> USE DEF IInv, Types, Labels, Starting, Gone, Goto
<1>1. Types'
  OBVIOUS
<1>2. ASSUME NEW c \in Daemons PROVE HoldsWhileAlive(c)'
  <2>1. CASE c # d
    <3>1. /\ pc'[c] = pc[c] /\ fw'[c] = fw[c] /\ thread'[c] = thread[c] /\ active'[c] = active[c]
      BY <2>1
    <3>2. (queue' = c <=> queue = c) /\ (sock' = c <=> sock = c)
      BY <2>1
    <3>3. QED
      BY <3>1, <3>2 DEF HoldsWhileAlive
  <2>2. CASE c = d
    BY <2>2 DEF HoldsWhileAlive
  <2>3. QED
    BY <2>1, <2>2
<1>3. ASSUME NEW c \in Daemons PROVE ~Alone(c)' \/ (c # d /\ Alone(c))
  BY DEF Alone
<1>4. ASSUME NEW c \in Daemons PROVE ~Alone(c)'
  BY <1>3 DEF AloneIsAlone
<1>5. QED
  BY <1>1, <1>2, <1>4 DEF AloneIsAlone, Control

LEMMA StepKeeps == IInv /\ [LifeNext]_lifeVars => IInv'
<1> SUFFICES ASSUME IInv, [LifeNext]_lifeVars PROVE IInv'
  OBVIOUS
<1>1. CASE UNCHANGED lifeVars
  BY <1>1 DEF lifeVars, kernel, IInv, Types, HoldsWhileAlive, AloneIsAlone, Alone, Control
<1>2. CASE LifeNext
  <2>1. CASE StartAgain /\ Service \in Daemons
    BY <2>1, StartedKeeps DEF StartAgain
  <2>2. ASSUME NEW d \in Daemons, Exit(d) \/ Die(d) PROVE IInv'
    <3>1. pc[d] # "off" /\ \E how \in {"clean", "failed"} : Gone(d, how)
      BY <2>2 DEF Exit, Die, Alive
    <3>2. QED
      BY <3>1, GoneKeeps
  <2>3. ASSUME NEW d \in Daemons, StartByHand(d) \/ Runs(d) \/ BindQueue(d)
                                  \/ Signal(d) \/ WorkerFails(d) \/ Die(d)
        PROVE IInv'
    BY <2>2, <2>3, StartedKeeps, DeleteKeeps, InstallKeeps, BindKeeps, WorkerFailsKeeps,
       RemoveStaleKeeps, ListenKeeps, SignalKeeps, TeardownKeeps, UnsocketKeeps
       DEF StartByHand, Runs
  <2>4. QED
    BY <1>2, <2>1, <2>3, ServiceIsADaemon DEF LifeNext
<1>3. QED
  BY <1>1, <1>2

-----------------------------------------------------------------------------
(* The theorems *)

\* The inductive invariant holds in every reachable state (main.rs:41-128).
THEOREM Invariance == LifeSpec => []IInv
BY Initially, StepKeeps, PTL DEF LifeSpec

LEMMA Implied == IInv => AloneIsInControl
<1> SUFFICES ASSUME IInv, NEW d \in Daemons, Alive(d), ~company[d]
             PROVE  /\ pc[d] = "serving" => sock = d
                    /\ fw[d] => table
                    /\ thread[d] # "refused"
                    /\ active[d] => queue = d
  BY DEF AloneIsInControl
<1>1. Alone(d) /\ Control(d) /\ HoldsWhileAlive(d)
  BY DEF IInv, Alone, Alive
<1>2. QED
  BY <1>1 DEF Control, HoldsWhileAlive, Starting

\* Whatever earlier daemons and overlaps have left, a daemon that has been alone
\* since its start is in control (firewall.rs:34-37, ipc.rs:31-35, main.rs:62-112).
THEOREM InControl == LifeSpec => []AloneIsInControl
BY Invariance, Implied, PTL

LEMMA CleanStep ==
  ASSUME IInv, [LifeNext]_lifeVars, NEW d \in Daemons,
         pc[d] = "exit 0", pc'[d] = "off", ~company[d]
  PROVE  /\ (table' <=> "table" \in kept[d]) /\ queue' = Nobody
         /\ sock' = Nobody /\ (stale' <=> "socket" \in kept[d])
<1>1. PICK how : Gone(d, how)
  <2>1. ASSUME NEW e \in Daemons, Gone(e, "clean") \/ Gone(e, "failed") PROVE \E how : Gone(d, how)
    <3>1. pc'[e] = "off" /\ (e # d => pc'[d] = pc[d])
      BY <2>1 DEF Gone, Goto, IInv, Types
    <3>2. QED
      BY <2>1, <3>1
  <2>2. QED
    BY <2>1 DEF IInv, Types, LifeNext, StartAgain, StartByHand, Started, Runs, DeleteStale, Install,
         BindQueue, WorkerFails, RemoveStale, Listen, Signal, Teardown, Unsocket, Exit, Die,
         Goto, lifeVars, kernel
<1>2. Alone(d) /\ Control(d) /\ HoldsWhileAlive(d) /\ AloneIsAlone(d)
  BY DEF IInv, Alone
<1>3. (table <=> "table" \in kept[d]) /\ (sock # Nobody \/ stale <=> "socket" \in kept[d])
  BY <1>2 DEF Control
<1>4. queue \in {d, Nobody} /\ sock \in {d, Nobody}
  BY <1>2 DEF AloneIsAlone, HoldsWhileAlive, IInv, Types, Starting
<1>5. queue' = Nobody /\ sock' = Nobody /\ (stale' <=> stale \/ sock = d) /\ table' = table
  BY <1>1, <1>4 DEF Gone
<1>6. stale' <=> "socket" \in kept[d]
  BY <1>3, <1>4, <1>5
<1>7. QED
  BY <1>3, <1>5, <1>6

\* A daemon that was alone and stopped in good order leaves no queue behind, and a table
\* or a socket file only if nft or remove_file has failed to remove it and it was not
\* replaced or removed later (main.rs:115-128, firewall.rs:35, 66-73).
THEOREM CleanStop == LifeSpec => StopLeavesOnlyWhatFailed
<1>1. IInv /\ [LifeNext]_lifeVars
        => [\A d \in Daemons : pc[d] = "exit 0" /\ pc'[d] = "off" /\ ~company[d]
              => /\ (table' <=> "table" \in kept[d]) /\ queue' = Nobody
                 /\ sock' = Nobody /\ (stale' <=> "socket" \in kept[d])]_lifeVars
  BY CleanStep
<1>2. QED
  BY <1>1, Invariance, PTL DEF LifeSpec, StopLeavesOnlyWhatFailed
=============================================================================
