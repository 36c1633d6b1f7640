------------------------- MODULE EnforcementProofs -------------------------
(***************************************************************************)
(* The safety properties of Enforcement, for any flows, executables and    *)
(* clients and any number of changes, misses and faults: what an answered  *)
(* block, a pause and a start promise about each flow, and for whose rules *)
(* a flow can suffer.                                                      *)
(***************************************************************************)
EXTENDS Enforcement, TLAPS

States == {"none", "queued", "open", "refused", "killed", "closed"}
Begun == {"open", "killed", "closed"}     \* a flow that has been let through
Jobs == [pc : {"idle", "added", "kill"}, exe : Exes \cup {Unknown}, victims : SUBSET Flows]
Deciders == {"attribute", "lookup", "accept", "drop"}

Types ==
  /\ net \in [Flows -> States]
  /\ on \in BOOLEAN /\ bound \in BOOLEAN /\ paused \in BOOLEAN /\ chain \in BOOLEAN
  /\ blocked \subseteq Exes /\ acked \subseteq blocked /\ everBlocked \subseteq Exes
  /\ tracked \in [Flows -> SUBSET (Exes \cup {Unknown})]
  /\ poll \in [pc : {"read", "apply", "enforce"}, seen : SUBSET Flows, first : BOOLEAN]
  /\ kill \in [Killers -> Jobs]
  /\ known \subseteq Flows /\ atBoot \subseteq Flows /\ spared \subseteq Flows
  /\ guarded \subseteq Flows /\ freed \subseteq Flows
  /\ named \in [Flows -> SUBSET Exes]

\* The worker has one packet in hand, and that one still waits for its verdict.
InHand ==
  /\ worker.pc \in {"recv", "stopped"} \cup Deciders
  /\ worker.pc \in Deciders => worker.flow \in Flows /\ net[worker.flow] = "queued"

\* A flow under an acknowledged block is queued or refused, and the worker has
\* not decided to let it through.
Guarded ==
  /\ paused => guarded = {}
  /\ \A f \in guarded : Owner[f] \in blocked /\ net[f] \in {"queued", "refused"}
  /\ worker.pc = "accept" => worker.flow \notin guarded
  /\ worker.pc = "lookup" /\ worker.flow \in guarded => worker.exe = Owner[worker.flow]

\* A flow that began under pause is in the worker's hands only to be let through.
Freed ==
  /\ ~paused => freed = {}
  /\ \A f \in freed : net[f] # "refused"
  /\ worker.pc \in Deciders \ {"accept"} => worker.flow \notin freed

\* A lookup of the flow has named an executable that has had a rule.
Accused(f) == \E e \in named[f] : e \in everBlocked

\* Whatever is refused, about to be refused, or to be killed has been accused.
Blamed ==
  /\ blocked \subseteq everBlocked
  /\ \A f \in Flows : /\ tracked[f] \cap Exes \subseteq named[f] /\ named[f] \subseteq Answers(f)
                      /\ net[f] \in {"refused", "killed"} => Accused(f)
  /\ worker.pc = "lookup" => worker.exe \in named[worker.flow]
  /\ worker.pc = "drop" => Accused(worker.flow)
  /\ \A k \in Killers : /\ kill[k].pc = "added" => kill[k].exe \in everBlocked
                        /\ \A f \in kill[k].victims : Accused(f)

\* What the poll knows: it has only ever seen flows that had begun; it forgets
\* none that is still open; and whom it does not know right is spared.
Tracking ==
  /\ \A f \in poll.seen : net[f] \in Begun
  /\ \A f \in Flows :
       /\ tracked[f] = Untracked \/ \E e \in Answers(f) : tracked[f] = {e}
       /\ tracked[f] # Untracked => net[f] \in Begun
       /\ tracked[f] \notin {Untracked, {Owner[f]}} => f \in spared
       /\ poll.pc = "apply" /\ net[f] = "open" /\ tracked[f] # Untracked => f \in poll.seen

\* AddRule of the flow's executable is still to find it, or to kill it.
InReach(c, f) ==
  /\ kill[c].exe = Owner[f]
  /\ \/ kill[c].pc = "added" /\ tracked[f] = {Owner[f]}
     \/ kill[c].pc = "kill" /\ f \in kill[c].victims

\* A tracked flow of a new block that is still open will be dealt with by an
\* AddRule that has not answered.
Pursued ==
  /\ \A c \in Clients : kill[c].exe = Unknown <=> kill[c].pc = "idle"
  /\ \A f \in known : net[f] \in Begun
  /\ \A f \in known \ spared : Killable(f) /\ net[f] = "open" =>
       Owner[f] \notin acked /\ \E c \in Clients : InReach(c, f)

\* Where the start is: the first pass of the poll, then its follow-up.
Startups ==
  /\ kill[Startup].exe = Unknown /\ kill[Startup].pc # "added"
  /\ kill[Startup].pc = "kill" => poll.pc = "enforce"
  /\ poll.pc = "enforce" => poll.first
  /\ ~on => poll.pc = "read" /\ poll.first

\* An old flow that is still open is in the pass in hand, or tracked, or a victim.
Outdated ==
  /\ \A f \in atBoot : net[f] \in Begun
  /\ \A f \in atBoot \ spared : Killable(f) /\ net[f] = "open" =>
       /\ poll.first /\ Owner[f] \in blocked
       /\ poll.pc = "apply" => f \in poll.seen
       /\ poll.pc = "enforce" =>
            IF kill[Startup].pc = "idle" THEN tracked[f] = {Owner[f]}
            ELSE f \in kill[Startup].victims

\* The inductive invariant.
IInv == /\ Types /\ InHand /\ Guarded /\ Freed /\ Blamed
        /\ Tracking /\ Pursued /\ Startups /\ Outdated

-----------------------------------------------------------------------------
(* The invariant is inductive: one lemma per action *)

USE Owners, StartupIsNoClient DEF Killers, Untracked, Accused

LEMMA Initially == Init => IInv
<1> SUFFICES ASSUME Init PROVE IInv
  OBVIOUS
<1> USE DEF Init, States, Begun, Jobs, Deciders, NoVictims
<1>1. Types
  BY DEF Types
<1>2. InHand /\ Guarded /\ Freed
  BY DEF InHand, Guarded, Freed
<1>3. Blamed /\ Tracking
  BY DEF Blamed, Tracking
<1>4. Pursued /\ Startups /\ Outdated
  BY DEF Pursued, Startups, Outdated
<1>5. QED
  BY <1>1, <1>2, <1>3, <1>4 DEF IInv

LEMMA ConnectKeeps ==
  ASSUME IInv, NEW f \in Flows, Connect(f)
  PROVE  IInv'
<1> USE DEF IInv, Types, States, Begun, Jobs, Deciders, Connect, counts, daemonVars
<1>1. Types'
  OBVIOUS
<1>2. InHand'
  BY DEF InHand
<1>3. Guarded'
  BY DEF Guarded, InHand
<1>4. Freed'
  BY DEF Freed, InHand, Guarded
<1>5. Blamed'
  BY DEF Blamed, InHand, Tracking, Pursued
<1>6. Tracking'
  BY DEF Tracking, InHand
<1>7. Pursued'
  BY DEF Pursued, InReach, Tracking, InHand
<1>8. Startups'
  BY DEF Startups
<1>9. Outdated'
  BY DEF Outdated, Startups, Tracking, InHand
<1>10. QED
  BY <1>1, <1>2, <1>3, <1>4, <1>5, <1>6, <1>7, <1>8, <1>9

LEMMA OverflowKeeps ==
  ASSUME IInv, NEW f \in Flows, Overflow(f)
  PROVE  IInv'
<1> USE DEF IInv, Types, States, Begun, Jobs, Deciders, Overflow, daemonVars, ghosts
<1>1. Types'
  OBVIOUS
<1>2. InHand'
  BY DEF InHand
<1>3. Guarded'
  BY DEF Guarded, InHand
<1>4. Freed'
  BY DEF Freed, InHand, Guarded
<1>5. Blamed'
  BY DEF Blamed, InHand, Tracking, Pursued
<1>6. Tracking'
  BY DEF Tracking, InHand
<1>7. Pursued'
  BY DEF Pursued, InReach, Tracking, InHand
<1>8. Startups'
  BY DEF Startups
<1>9. Outdated'
  BY DEF Outdated, Startups, Tracking, InHand
<1>10. QED
  BY <1>1, <1>2, <1>3, <1>4, <1>5, <1>6, <1>7, <1>8, <1>9

LEMMA CloseKeeps ==
  ASSUME IInv, NEW f \in Flows, Close(f)
  PROVE  IInv'
<1> USE DEF IInv, Types, States, Begun, Jobs, Deciders, Close, counts, daemonVars, ghosts
<1>1. Types'
  OBVIOUS
<1>2. InHand'
  BY DEF InHand
<1>3. Guarded'
  BY DEF Guarded, InHand
<1>4. Freed'
  BY DEF Freed, InHand, Guarded
<1>5. Blamed'
  BY DEF Blamed, InHand, Tracking, Pursued
<1>6. Tracking'
  BY DEF Tracking, InHand
<1>7. Pursued'
  BY DEF Pursued, InReach, Tracking, InHand
<1>8. Startups'
  BY DEF Startups
<1>9. Outdated'
  BY DEF Outdated, Startups, Tracking, InHand
<1>10. QED
  BY <1>1, <1>2, <1>3, <1>4, <1>5, <1>6, <1>7, <1>8, <1>9

LEMMA BootKeeps ==
  ASSUME IInv, Boot
  PROVE  IInv'
<1> USE DEF IInv, Types, States, Begun, Jobs, Deciders, Boot, Open, counts
<1>1. Types'
  OBVIOUS
<1>2. InHand'
  BY DEF InHand
<1>3. Guarded'
  BY DEF Guarded, InHand
<1>4. Freed'
  BY DEF Freed, InHand, Guarded
<1>5. Blamed'
  BY DEF Blamed, InHand, Tracking, Pursued
<1>6. Tracking'
  BY DEF Tracking, InHand
<1>7. Pursued'
  BY DEF Pursued, InReach, Tracking, InHand
<1>8. Startups'
  BY DEF Startups
<1>9. Outdated'
  BY DEF Outdated, Startups, Tracking, InHand
<1>10. QED
  BY <1>1, <1>2, <1>3, <1>4, <1>5, <1>6, <1>7, <1>8, <1>9

LEMMA BindKeeps ==
  ASSUME IInv, Bind
  PROVE  IInv'
<1> USE DEF IInv, Types, States, Begun, Jobs, Deciders, Bind, counts, ghosts
<1>1. Types'
  OBVIOUS
<1>2. InHand'
  BY DEF InHand
<1>3. Guarded'
  BY DEF Guarded, InHand
<1>4. Freed'
  BY DEF Freed, InHand, Guarded
<1>5. Blamed'
  BY DEF Blamed, InHand, Tracking, Pursued
<1>6. Tracking'
  BY DEF Tracking, InHand
<1>7. Pursued'
  BY DEF Pursued, InReach, Tracking, InHand
<1>8. Startups'
  BY DEF Startups
<1>9. Outdated'
  BY DEF Outdated, Startups, Tracking, InHand
<1>10. QED
  BY <1>1, <1>2, <1>3, <1>4, <1>5, <1>6, <1>7, <1>8, <1>9

LEMMA WorkerStopsKeeps ==
  ASSUME IInv, WorkerStops
  PROVE  IInv'
<1> USE DEF IInv, Types, States, Begun, Jobs, Deciders, WorkerStops
<1>1. Types'
  OBVIOUS
<1>2. InHand'
  BY DEF InHand
<1>3. Guarded'
  BY DEF Guarded, InHand
<1>4. Freed'
  BY DEF Freed, InHand, Guarded
<1>5. Blamed'
  BY DEF Blamed, InHand, Tracking, Pursued
<1>6. Tracking'
  BY DEF Tracking, InHand
<1>7. Pursued'
  BY DEF Pursued, InReach, Tracking, InHand
<1>8. Startups'
  BY DEF Startups
<1>9. Outdated'
  BY DEF Outdated, Startups, Tracking, InHand
<1>10. QED
  BY <1>1, <1>2, <1>3, <1>4, <1>5, <1>6, <1>7, <1>8, <1>9

LEMMA RecvKeeps ==
  ASSUME IInv, NEW f \in Flows, Recv(f)
  PROVE  IInv'
<1> USE DEF IInv, Types, States, Begun, Jobs, Deciders, Recv, Going, WorkerOnly, daemonVars
<1>1. Types'
  OBVIOUS
<1>2. InHand'
  BY DEF InHand
<1>3. Guarded'
  BY DEF Guarded, InHand
<1>4. Freed'
  BY DEF Freed, InHand, Guarded
<1>5. Blamed'
  BY DEF Blamed, InHand, Tracking, Pursued
<1>6. Tracking'
  BY DEF Tracking, InHand
<1>7. Pursued'
  BY DEF Pursued, InReach, Tracking, InHand
<1>8. Startups'
  BY DEF Startups
<1>9. Outdated'
  BY DEF Outdated, Startups, Tracking, InHand
<1>10. QED
  BY <1>1, <1>2, <1>3, <1>4, <1>5, <1>6, <1>7, <1>8, <1>9

LEMMA AnswersAre == \A f \in Flows : Answers(f) \subseteq Exes \cup {Unknown}
BY Owners, MatesAreExes DEF Answers

LEMMA AttributeKeeps ==
  ASSUME IInv, NEW f \in Flows, Attribute(f)
  PROVE  IInv'
<1> USE DEF IInv, Types, States, Begun, Jobs, Deciders, Attribute, Deciding, Going, WorkerOnly, daemonVars
<1>1. Types'
  <2>1. PICK e \in Answers(f) : named' = [named EXCEPT ![f] = @ \cup ({e} \cap Exes)]
    OBVIOUS
  <2>2. named' \in [Flows -> SUBSET Exes]
    BY <2>1
  <2>3. QED
    BY <2>2
<1>2. InHand'
  BY DEF InHand
<1>3. Guarded'
  BY DEF Guarded, InHand
<1>4. Freed'
  BY DEF Freed, InHand, Guarded
<1>5. Blamed'
  <2>1. PICK e \in Answers(f) :
          /\ named' = [named EXCEPT ![f] = @ \cup ({e} \cap Exes)]
          /\ \/ e = Unknown /\ worker' = [pc |-> "accept", flow |-> f]
             \/ e # Unknown /\ worker' = [pc |-> "lookup", flow |-> f, exe |-> e]
    OBVIOUS
  <2>2. e \in Exes \cup {Unknown}
    BY <2>1, AnswersAre
  <2>3. \A o \in Flows : named[o] \subseteq named'[o]
    BY <2>1
  <2>4. \A o \in Flows : named'[o] \subseteq Answers(o)
    BY <2>1 DEF Blamed
  <2>5. \A o \in Flows : Accused(o) => Accused(o)'
    BY <2>3 DEF Accused
  <2>6. worker'.pc = "lookup" => worker'.exe \in named'[worker'.flow]
    BY <2>1, <2>2
  <2>7. worker'.pc # "drop"
    BY <2>1
  <2> HIDE DEF Accused
  <2>8. QED
    BY <2>3, <2>4, <2>5, <2>6, <2>7 DEF Blamed, Answers
<1>6. Tracking'
  BY DEF Tracking, InHand
<1>7. Pursued'
  BY DEF Pursued, InReach, Tracking, InHand
<1>8. Startups'
  BY DEF Startups
<1>9. Outdated'
  BY DEF Outdated, Startups, Tracking, InHand
<1>10. QED
  BY <1>1, <1>2, <1>3, <1>4, <1>5, <1>6, <1>7, <1>8, <1>9

LEMMA DecideKeeps ==
  ASSUME IInv, NEW f \in Flows, Decide(f)
  PROVE  IInv'
<1> USE DEF IInv, Types, States, Begun, Jobs, Deciders, Decide, Deciding, Going, WorkerOnly, daemonVars
<1>1. Types'
  OBVIOUS
<1>2. InHand'
  BY DEF InHand
<1>3. Guarded'
  BY DEF Guarded, InHand
<1>4. Freed'
  BY DEF Freed, InHand, Guarded
<1>5. Blamed'
  BY DEF Blamed, InHand, Tracking, Pursued
<1>6. Tracking'
  BY DEF Tracking, InHand
<1>7. Pursued'
  BY DEF Pursued, InReach, Tracking, InHand
<1>8. Startups'
  BY DEF Startups
<1>9. Outdated'
  BY DEF Outdated, Startups, Tracking, InHand
<1>10. QED
  BY <1>1, <1>2, <1>3, <1>4, <1>5, <1>6, <1>7, <1>8, <1>9

LEMMA VerdictKeeps ==
  ASSUME IInv, NEW f \in Flows, Verdict(f)
  PROVE  IInv'
<1> USE DEF IInv, Types, States, Begun, Jobs, Deciders, Verdict, counts, daemonVars, ghosts
<1>1. Types'
  OBVIOUS
<1>2. InHand'
  BY DEF InHand
<1>3. Guarded'
  BY DEF Guarded, InHand
<1>4. Freed'
  BY DEF Freed, InHand, Guarded
<1>5. Blamed'
  BY DEF Blamed, InHand, Tracking, Pursued
<1>6. Tracking'
  BY DEF Tracking, InHand
<1>7. Pursued'
  BY DEF Pursued, InReach, Tracking, InHand
<1>8. Startups'
  BY DEF Startups
<1>9. Outdated'
  BY DEF Outdated, Startups, Tracking, InHand
<1>10. QED
  BY <1>1, <1>2, <1>3, <1>4, <1>5, <1>6, <1>7, <1>8, <1>9

LEMMA ReadTableKeeps ==
  ASSUME IInv, ReadTable
  PROVE  IInv'
<1> USE DEF IInv, Types, States, Begun, Jobs, Deciders, ReadTable, Open, PollOnly, daemonVars
<1>1. Types'
  OBVIOUS
<1>2. InHand'
  BY DEF InHand
<1>3. Guarded'
  BY DEF Guarded, InHand
<1>4. Freed'
  BY DEF Freed, InHand, Guarded
<1>5. Blamed'
  BY DEF Blamed, InHand, Tracking, Pursued
<1>6. Tracking'
  BY DEF Tracking, InHand
<1>7. Pursued'
  BY DEF Pursued, InReach, Tracking, InHand
<1>8. Startups'
  BY DEF Startups
<1>9. Outdated'
  BY DEF Outdated, Startups, Tracking, InHand
<1>10. QED
  BY <1>1, <1>2, <1>3, <1>4, <1>5, <1>6, <1>7, <1>8, <1>9

LEMMA ReadFailsKeeps ==
  ASSUME IInv, ReadFails
  PROVE  IInv'
<1> USE DEF IInv, Types, States, Begun, Jobs, Deciders, ReadFails, PassEnds, PollOnly, daemonVars
<1>1. Types'
  OBVIOUS
<1>2. InHand'
  BY DEF InHand
<1>3. Guarded'
  BY DEF Guarded, InHand
<1>4. Freed'
  BY DEF Freed, InHand, Guarded
<1>5. Blamed'
  BY DEF Blamed, InHand, Tracking, Pursued
<1>6. Tracking'
  BY DEF Tracking, InHand
<1>7. Pursued'
  BY DEF Pursued, InReach, Tracking, InHand
<1>8. Startups'
  BY DEF Startups
<1>9. Outdated'
  BY DEF Outdated, Startups, Tracking, InHand
<1>10. QED
  BY <1>1, <1>2, <1>3, <1>4, <1>5, <1>6, <1>7, <1>8, <1>9

\* What a pass does with the attributions of the flows that are new to it.
Attributed(who) ==
  /\ \A f \in DOMAIN who : who[f] \in Answers(f)
  /\ spared' = spared \cup {f \in DOMAIN who : who[f] # Owner[f]}
  /\ tracked' = [f \in Flows |->
                   IF f \notin poll.seen THEN Untracked
                   ELSE IF f \in DOMAIN who THEN {who[f]} ELSE tracked[f]]
  /\ named' = [f \in Flows |-> IF f \in DOMAIN who THEN named[f] \cup ({who[f]} \cap Exes)
                                        ELSE named[f]]

LEMMA Attributions ==
  ASSUME Apply
  PROVE  \E who \in [{f \in poll.seen : tracked[f] = Untracked} -> Exes \cup {Unknown}] : Attributed(who)
BY DEF Apply, Attributed

LEMMA ApplyKeeps ==
  ASSUME IInv, Apply
  PROVE  IInv'
<1> USE DEF IInv, Types, States, Begun, Jobs, Deciders, Apply, PassEnds, PollOnly, daemonVars
<1>1. Types'
  OBVIOUS
<1>2. InHand'
  BY DEF InHand
<1>3. Guarded'
  BY DEF Guarded, InHand
<1>4. Freed'
  BY DEF Freed, InHand, Guarded
<1>5. Blamed'
  BY DEF Blamed, InHand, Tracking, Pursued
<1>6. Tracking'
  <2>1. PICK who \in [{f \in poll.seen : tracked[f] = Untracked} -> Exes \cup {Unknown}] : Attributed(who)
    BY Attributions
  <2>2. poll'.pc # "apply" /\ poll'.seen = {}
    OBVIOUS
  <2>3. QED
    BY <2>1, <2>2 DEF Tracking, Attributed
<1>7. Pursued'
  <2>1. PICK who \in [{f \in poll.seen : tracked[f] = Untracked} -> Exes \cup {Unknown}] : Attributed(who)
    BY Attributions
  <2>2. ASSUME NEW c \in Clients, NEW f \in Flows, InReach(c, f), net[f] = "open"
        PROVE  InReach(c, f)'
    BY <2>1, <2>2 DEF InReach, Tracking
  <2>3. QED
    BY <2>1, <2>2 DEF Pursued, Killable
<1>8. Startups'
  BY DEF Startups
<1>9. Outdated'
  BY DEF Outdated, Startups, Tracking, InHand
<1>10. QED
  BY <1>1, <1>2, <1>3, <1>4, <1>5, <1>6, <1>7, <1>8, <1>9

LEMMA EnforceSavedKeeps ==
  ASSUME IInv, EnforceSaved
  PROVE  IInv'
<1> USE DEF IInv, Types, States, Begun, Jobs, Deciders, EnforceSaved, Victims, KillOnly, daemonVars
<1>1. Types'
  OBVIOUS
<1>2. InHand'
  BY DEF InHand
<1>3. Guarded'
  BY DEF Guarded, InHand
<1>4. Freed'
  BY DEF Freed, InHand, Guarded
<1>5. Blamed'
  <2>1. ASSUME NEW f \in Flows, NEW e \in blocked, tracked[f] = {e} PROVE Accused(f)
    <3>1. tracked[f] \cap Exes \subseteq named[f] /\ e \in everBlocked /\ e \in Exes
      BY DEF Blamed
    <3> HIDE DEF IInv, Types
    <3>2. e \in named[f]
      BY <2>1, <3>1
    <3>3. QED
      BY <3>1, <3>2
  <2>2. kill' = [kill EXCEPT ![Startup] =
                  [pc |-> "kill", exe |-> Unknown, victims |-> Victims(blocked)]]
    OBVIOUS
  <2>3. QED
    BY <2>1, <2>2 DEF Blamed
<1>6. Tracking'
  BY DEF Tracking, InHand
<1>7. Pursued'
  BY DEF Pursued, InReach, Tracking, InHand
<1>8. Startups'
  BY DEF Startups
<1>9. Outdated'
  BY DEF Outdated, Startups, Tracking, InHand
<1>10. QED
  BY <1>1, <1>2, <1>3, <1>4, <1>5, <1>6, <1>7, <1>8, <1>9

LEMMA KillOneKeeps ==
  ASSUME IInv, NEW k \in Killers, NEW f \in Flows, KillOne(k, f)
  PROVE  IInv'
<1> USE DEF IInv, Types, States, Begun, Jobs, Deciders, KillOne, KillOnly, daemonVars
<1>1. Types'
  OBVIOUS
<1>2. InHand'
  BY DEF InHand
<1>3. Guarded'
  BY DEF Guarded, InHand
<1>4. Freed'
  BY DEF Freed, InHand, Guarded
<1>5. Blamed'
  BY DEF Blamed, InHand, Tracking, Pursued
<1>6. Tracking'
  BY DEF Tracking, InHand
<1>7. Pursued'
  BY DEF Pursued, InReach, Tracking, InHand
<1>8. Startups'
  BY DEF Startups
<1>9. Outdated'
  BY DEF Outdated, Startups, Tracking, InHand
<1>10. QED
  BY <1>1, <1>2, <1>3, <1>4, <1>5, <1>6, <1>7, <1>8, <1>9

LEMMA KillsDoneKeeps ==
  ASSUME IInv, NEW k \in Killers, KillsDone(k)
  PROVE  IInv'
<1> USE DEF IInv, Types, States, Begun, Jobs, Deciders, KillsDone, NoVictims, Pending, KillOnly, daemonVars
<1>1. Types'
  OBVIOUS
<1>2. InHand'
  BY DEF InHand
<1>3. Guarded'
  BY DEF Guarded, InHand
<1>4. Freed'
  BY DEF Freed, InHand, Guarded
<1>5. Blamed'
  BY DEF Blamed, InHand, Tracking, Pursued
<1>6. Tracking'
  BY DEF Tracking, InHand
<1>7. Pursued'
  BY DEF Pursued, InReach, Tracking, InHand
<1>8. Startups'
  BY DEF Startups
<1>9. Outdated'
  BY DEF Outdated, Startups, Tracking, InHand
<1>10. QED
  BY <1>1, <1>2, <1>3, <1>4, <1>5, <1>6, <1>7, <1>8, <1>9

LEMMA AddRuleKeeps ==
  ASSUME IInv, NEW c \in Clients, NEW e \in Exes, AddRule(c, e)
  PROVE  IInv'
<1> USE DEF IInv, Types, States, Begun, Jobs, Deciders, AddRule, Change, FlowsOf, Open
<1>1. Types'
  OBVIOUS
<1>2. InHand'
  BY DEF InHand
<1>3. Guarded'
  BY DEF Guarded, InHand
<1>4. Freed'
  BY DEF Freed, InHand, Guarded
<1>5. Blamed'
  BY DEF Blamed, InHand, Tracking, Pursued
<1>6. Tracking'
  BY DEF Tracking, InHand
<1>7. Pursued'
  <2>1. kill' = [kill EXCEPT ![c] = [pc |-> "added", exe |-> e, victims |-> {}]]
    OBVIOUS
  <2>2. ASSUME NEW d \in Clients PROVE (kill[d].exe = Unknown <=> kill[d].pc = "idle")'
    BY <2>1 DEF Pursued
  <2>3. ASSUME NEW f \in known', f \notin spared, Killable(f), net[f] = "open"
        PROVE  Owner[f] \notin acked' /\ \E d \in Clients : InReach(d, f)'
    <3>1. CASE Owner[f] = e
      <4>1. tracked[f] = {e}
        BY <2>3, <3>1
      <4>2. InReach(c, f)'
        BY <2>1, <3>1, <4>1 DEF InReach
      <4>3. QED
        BY <3>1, <4>2
    <3>2. CASE Owner[f] # e
      <4>1. f \in known
        BY <2>3, <3>2 DEF Tracking
      <4>2. PICK d \in Clients : InReach(d, f)
        BY <2>3, <4>1 DEF Pursued
      <4>3. d # c
        BY <4>2 DEF InReach
      <4>4. InReach(d, f)'
        BY <2>1, <4>2, <4>3 DEF InReach
      <4>5. QED
        BY <2>3, <4>1, <4>4 DEF Pursued
    <3>3. QED
      BY <3>1, <3>2
  <2>4. \A f \in known' : net[f] \in Begun
    BY DEF Pursued
  <2>5. QED
    BY <2>2, <2>3, <2>4 DEF Pursued, Killable
<1>8. Startups'
  BY DEF Startups
<1>9. Outdated'
  BY DEF Outdated, Startups, Tracking, InHand
<1>10. QED
  BY <1>1, <1>2, <1>3, <1>4, <1>5, <1>6, <1>7, <1>8, <1>9

LEMMA FindVictimsKeeps ==
  ASSUME IInv, NEW c \in Clients, FindVictims(c)
  PROVE  IInv'
<1> USE DEF IInv, Types, States, Begun, Jobs, Deciders, FindVictims, Victims, KillOnly, daemonVars
<1>1. Types'
  <2>1. [kill[c] EXCEPT !.pc = "kill", !.victims = Victims({kill[c].exe})] \in Jobs
    OBVIOUS
  <2>2. kill' = [kill EXCEPT ![c] = [kill[c] EXCEPT !.pc = "kill", !.victims = Victims({kill[c].exe})]]
    OBVIOUS
  <2>3. kill' \in [Killers -> Jobs]
    <3> HIDE DEF Jobs, Victims, FindVictims
    <3>1. QED
      BY <2>1, <2>2
  <2>4. QED
    BY <2>3
<1>2. InHand'
  BY DEF InHand
<1>3. Guarded'
  BY DEF Guarded, InHand
<1>4. Freed'
  BY DEF Freed, InHand, Guarded
<1>5. Blamed'
  BY DEF Blamed, InHand, Tracking, Pursued
<1>6. Tracking'
  BY DEF Tracking, InHand
<1>7. Pursued'
  BY DEF Pursued, InReach, Tracking, InHand
<1>8. Startups'
  BY DEF Startups
<1>9. Outdated'
  BY DEF Outdated, Startups, Tracking, InHand
<1>10. QED
  BY <1>1, <1>2, <1>3, <1>4, <1>5, <1>6, <1>7, <1>8, <1>9

LEMMA RemoveRuleKeeps ==
  ASSUME IInv, NEW e \in Exes, RemoveRule(e)
  PROVE  IInv'
<1> USE DEF IInv, Types, States, Begun, Jobs, Deciders, RemoveRule, Change, FlowsOf
<1>1. Types'
  OBVIOUS
<1>2. InHand'
  BY DEF InHand
<1>3. Guarded'
  BY DEF Guarded, InHand
<1>4. Freed'
  BY DEF Freed, InHand, Guarded
<1>5. Blamed'
  BY DEF Blamed, InHand, Tracking, Pursued
<1>6. Tracking'
  BY DEF Tracking, InHand
<1>7. Pursued'
  BY DEF Pursued, InReach, Tracking, InHand
<1>8. Startups'
  BY DEF Startups
<1>9. Outdated'
  BY DEF Outdated, Startups, Tracking, InHand
<1>10. QED
  BY <1>1, <1>2, <1>3, <1>4, <1>5, <1>6, <1>7, <1>8, <1>9

LEMMA SetPausedKeeps ==
  ASSUME IInv, SetPaused
  PROVE  IInv'
<1> USE DEF IInv, Types, States, Begun, Jobs, Deciders, SetPaused, Change
<1>1. Types'
  OBVIOUS
<1>2. InHand'
  BY DEF InHand
<1>3. Guarded'
  BY DEF Guarded, InHand
<1>4. Freed'
  BY DEF Freed, InHand, Guarded
<1>5. Blamed'
  BY DEF Blamed, InHand, Tracking, Pursued
<1>6. Tracking'
  BY DEF Tracking, InHand
<1>7. Pursued'
  BY DEF Pursued, InReach, Tracking, InHand
<1>8. Startups'
  BY DEF Startups
<1>9. Outdated'
  BY DEF Outdated, Startups, Tracking, InHand
<1>10. QED
  BY <1>1, <1>2, <1>3, <1>4, <1>5, <1>6, <1>7, <1>8, <1>9

LEMMA ToggleChainKeeps ==
  ASSUME IInv, ToggleChain
  PROVE  IInv'
<1> USE DEF IInv, Types, States, Begun, Jobs, Deciders, ToggleChain, counts, ghosts
<1>1. Types'
  OBVIOUS
<1>2. InHand'
  BY DEF InHand
<1>3. Guarded'
  BY DEF Guarded, InHand
<1>4. Freed'
  BY DEF Freed, InHand, Guarded
<1>5. Blamed'
  BY DEF Blamed, InHand, Tracking, Pursued
<1>6. Tracking'
  BY DEF Tracking, InHand
<1>7. Pursued'
  BY DEF Pursued, InReach, Tracking, InHand
<1>8. Startups'
  BY DEF Startups
<1>9. Outdated'
  BY DEF Outdated, Startups, Tracking, InHand
<1>10. QED
  BY <1>1, <1>2, <1>3, <1>4, <1>5, <1>6, <1>7, <1>8, <1>9

LEMMA StepKeeps == IInv /\ [Next]_vars => IInv'
<1> SUFFICES ASSUME IInv, [Next]_vars PROVE IInv'
  OBVIOUS
<1>1. CASE UNCHANGED vars
  BY <1>1 DEF vars, daemonVars, counts, ghosts, IInv, Types, InHand, Guarded, Freed, Blamed,
     Tracking, Pursued, InReach, Startups, Outdated, Killable
<1>2. CASE Next
  <2>1. ASSUME NEW f \in Flows,
               \/ Connect(f) \/ Overflow(f) \/ Close(f)
               \/ Recv(f) \/ Attribute(f) \/ Decide(f) \/ Verdict(f)
        PROVE  IInv'
    BY <2>1, ConnectKeeps, OverflowKeeps, CloseKeeps, RecvKeeps, AttributeKeeps, DecideKeeps,
       VerdictKeeps
  <2>2. ASSUME NEW k \in Killers, (\E f \in Flows : KillOne(k, f)) \/ KillsDone(k) PROVE IInv'
    BY <2>2, KillOneKeeps, KillsDoneKeeps
  <2>3. ASSUME NEW e \in Exes, (\E c \in Clients : AddRule(c, e)) \/ RemoveRule(e) PROVE IInv'
    BY <2>3, AddRuleKeeps, RemoveRuleKeeps
  <2>4. ASSUME NEW c \in Clients, FindVictims(c) PROVE IInv'
    BY <2>4, FindVictimsKeeps
  <2>5. QED
    BY <1>2, <2>1, <2>2, <2>3, <2>4, BootKeeps, BindKeeps, WorkerStopsKeeps, ReadTableKeeps,
       ReadFailsKeeps, ApplyKeeps, EnforceSavedKeeps, SetPausedKeeps, ToggleChainKeeps DEF Next
<1>3. QED
  BY <1>1, <1>2

-----------------------------------------------------------------------------
(* The theorems *)

\* The inductive invariant holds in every reachable state (firewall.rs, conntrack.rs,
\* flowkill.rs and the requests of main.rs).
THEOREM Invariance == Spec => []IInv
BY Initially, StepKeeps, PTL DEF Spec

\* Types, and the packet in the worker's hands waits for a verdict (firewall.rs:186-246).
THEOREM TypeCorrect == Spec => []TypeOK
<1>1. IInv => TypeOK
  BY DEF IInv, Types, InHand, Tracking, TypeOK, States, Jobs, Deciders
<1>2. QED
  BY <1>1, Invariance, PTL

\* A flow that begins after Ok for its block does not open, whatever other requests,
\* the poll and the killers do meanwhile (firewall.rs:203-246, main.rs:262-270).
THEOREM BlockHolds == Spec => []AckedBlockHolds
<1>1. IInv => AckedBlockHolds
  BY DEF IInv, Guarded, AckedBlockHolds, Open
<1>2. QED
  BY <1>1, Invariance, PTL

\* A flow that begins under pause is not refused, also while nft has not flushed the
\* chain yet or is about to fill it again (firewall.rs:203).
THEOREM PauseHolds == Spec => []PauseLetsThrough
<1>1. IInv => PauseLetsThrough
  BY DEF IInv, Freed, PauseLetsThrough
<1>2. QED
  BY <1>1, Invariance, PTL

\* A flow is refused or killed only for an executable that one of its own lookups has
\* named, whose rule has been in the store, and whose flow it is or which has the same
\* port (firewall.rs:161-209, attrib.rs:68-88, flowkill.rs:43-81).
THEOREM OnlyTheAccusedSuffer == Spec => []OnlyBlockedSuffer
<1>1. IInv => OnlyBlockedSuffer
  <2> SUFFICES ASSUME IInv, NEW f \in Flows, net[f] \in {"refused", "killed"}
               PROVE  \E e \in named[f] \cap everBlocked : e = Owner[f] \/ e \in Mates[f]
    BY DEF OnlyBlockedSuffer
  <2> HIDE DEF Accused
  <2>1. Blamed /\ everBlocked \subseteq Exes
    BY DEF IInv, Types
  <2>2. Accused(f) /\ named[f] \subseteq Answers(f)
    BY <2>1 DEF Blamed
  <2>3. PICK e \in named[f] : e \in everBlocked
    BY <2>2 DEF Accused
  <2>4. e \in Answers(f) /\ e # Unknown
    BY <2>1, <2>2, <2>3
  <2>5. QED
    BY <2>3, <2>4 DEF Answers
<1>2. QED
  BY <1>1, Invariance, PTL

\* The flows that were tracked when a block was added are dead when AddRule answers,
\* for any number of AddRules at a time and any passes of the poll (flowkill.rs).
THEOREM TrackedAreKilled == Spec => []TrackedFlowsAreKilled
<1>1. IInv => TrackedFlowsAreKilled
  BY DEF IInv, Types, Pursued, TrackedFlowsAreKilled, Open
<1>2. QED
  BY <1>1, Invariance, PTL

\* Saved blocks reach the flows that are older than the daemon, when the first pass of
\* the poll has been followed up (conntrack.rs).
THEOREM SavedBlocksReach == Spec => []SavedBlocksReachOldFlows
<1>1. IInv => SavedBlocksReachOldFlows
  BY DEF IInv, Types, Outdated, SavedBlocksReachOldFlows, Open
<1>2. QED
  BY <1>1, Invariance, PTL
=============================================================================
