---------------------------- MODULE Enforcement ----------------------------
(***************************************************************************)
(* How a block reaches the traffic.  New flows are queued to the NFQUEUE   *)
(* worker (firewall.rs), which reads the pause flag, attributes the packet *)
(* to an executable and asks the rule store; flows that are already open   *)
(* are only known through the conntrack poll (conntrack.rs), and AddRule   *)
(* kills those that the poll has attributed to the executable              *)
(* (flowkill.rs), as the first poll after a start does for saved rules.    *)
(* Worker, poll, request handlers, the pause toggle and the applications   *)
(* run concurrently; the table is installed before any of them starts.     *)
(***************************************************************************)
EXTENDS Integers, FiniteSets

CONSTANTS Flows,       \* connection attempts, one 5-tuple each
          Exes,
          Owner,       \* executable behind each flow
          Mates,       \* others that a lookup may take for it: they have the port
                       \* under another address, or what was known of the pid is old
          Tcp,         \* flows over TCP, the others are UDP
          Conntrack,   \* conntrack-tools are installed
          Clients,     \* connections that send AddRule
          Startup,     \* the poll task, when it enforces the saved rules
          Unknown,     \* attribution found no executable
          MaxChanges,  \* bound: AddRule, RemoveRule and SetPaused requests
          MaxMisses,   \* bound: attributions that find nothing or somebody else
          MaxFaults    \* bound: kills and reads of the table that fail

ASSUME Owners == Owner \in [Flows -> Exes] /\ Unknown \notin Exes
ASSUME MatesAreExes == Mates \in [Flows -> SUBSET Exes]
ASSUME StartupIsNoClient == Startup \notin Clients
ASSUME Shape == Tcp \subseteq Flows /\ Conntrack \in BOOLEAN
                /\ MaxChanges \in Nat /\ MaxMisses \in Nat /\ MaxFaults \in Nat

Killers == Clients \cup {Startup}
Untracked == {}                   \* tracked[f] is a set of at most one executable
NoVictims == [pc |-> "idle", exe |-> Unknown, victims |-> {}]

VARIABLES net,       \* each flow as the kernel sees it
          on,        \* the daemon has started
          bound,     \* the worker has bound the queue
          paused,    \* state.paused
          chain,     \* the queue rule is in the chain
          blocked,   \* executables with a Block rule
          worker,    \* the packet that the worker is deciding
          tracked,   \* state.connections: the exe a flow was attributed to
          poll,      \* conntrack::run
          kill,      \* kill_flows_for_exe, of a request or of the start
          changes, misses, faults,
          acked,     \* blocks in place whose AddRules have all been answered Ok
          atAdd,     \* flows open when their block was added
          known,     \* those of them that the poll had attributed by then
          atBoot,    \* flows open at the start, of executables with a saved block
          spared,    \* flows that a best-effort step gave up on
          everBlocked,
          named,     \* executables that lookups of the flow have named
          guarded,   \* flows that began under an acknowledged block
          freed      \* flows that began under pause

daemonVars == <<on, bound, paused, chain, blocked>>
counts == <<changes, misses, faults>>
ghosts == <<acked, atAdd, known, atBoot, spared, everBlocked, named, guarded, freed>>
vars == <<net, daemonVars, worker, tracked, poll, kill, counts, ghosts>>

Open == {f \in Flows : net[f] = "open"}
FlowsOf(e) == {f \in Flows : Owner[f] = e}

\* What state.attribute can answer for a flow; it knows the port and no address.
Answers(f) == {Owner[f], Unknown} \cup Mates[f]

Init ==
  /\ net = [f \in Flows |-> "none"]
  /\ on = FALSE /\ bound = FALSE /\ paused = FALSE /\ chain = FALSE
  /\ blocked \in SUBSET Exes              \* the rules that load found
  /\ worker = [pc |-> "recv"]
  /\ tracked = [f \in Flows |-> Untracked]
  /\ poll = [pc |-> "read", seen |-> {}, first |-> TRUE]
  /\ kill = [k \in Killers |-> NoVictims]
  /\ changes = 0 /\ misses = 0 /\ faults = 0
  /\ acked = {} /\ atAdd = {} /\ known = {} /\ atBoot = {} /\ spared = {}
  /\ everBlocked = blocked /\ named = [f \in Flows |-> {}] /\ guarded = {} /\ freed = {}

-----------------------------------------------------------------------------
(* Applications and kernel *)

\* A first packet: queued if there is a rule and a listener, else let through.
Connect(f) ==
  /\ net[f] = "none"
  /\ net' = [net EXCEPT ![f] = IF chain /\ bound THEN "queued" ELSE "open"]
  /\ guarded' = IF chain /\ bound /\ ~paused /\ Owner[f] \in acked
                THEN guarded \cup {f} ELSE guarded
  /\ freed' = IF paused THEN freed \cup {f} ELSE freed
  /\ UNCHANGED <<daemonVars, worker, tracked, poll, kill, counts, acked, atAdd,
                 known, atBoot, spared, everBlocked, named>>

\* The queue in the kernel is full: with fail_open, the default, it lets the
\* packet through; without, the application sends it again.
Overflow(f) ==
  /\ net[f] = "none" /\ chain /\ bound
  /\ misses < MaxMisses /\ misses' = misses + 1
  /\ net' = [net EXCEPT ![f] = "open"]
  /\ UNCHANGED <<daemonVars, worker, tracked, poll, kill, changes, faults, ghosts>>

Close(f) ==
  /\ net[f] = "open"
  /\ net' = [net EXCEPT ![f] = "closed"]
  /\ UNCHANGED <<daemonVars, worker, tracked, poll, kill, counts, ghosts>>

-----------------------------------------------------------------------------
(* Start: the table is installed, then the worker and the poll are spawned *)

Boot ==
  /\ ~on /\ on' = TRUE /\ chain' = TRUE
  /\ atBoot' = {f \in Open : Owner[f] \in blocked}
  /\ UNCHANGED <<net, bound, paused, blocked, worker, tracked, poll, kill, counts, acked, atAdd,
                 known, spared, everBlocked, named, guarded, freed>>

Bind ==
  /\ on /\ ~bound /\ worker.pc = "recv" /\ bound' = TRUE
  /\ UNCHANGED <<net, on, paused, chain, blocked, worker, tracked, poll, kill, counts, ghosts>>

-----------------------------------------------------------------------------
(* The queue worker: recv, then decide, then the verdict *)

Deciding(f, pc) == worker.pc = pc /\ worker.flow = f
Going(f, pc) == worker' = [pc |-> pc, flow |-> f]
WorkerOnly == UNCHANGED <<net, daemonVars, tracked, poll, kill, changes, faults, acked, atAdd,
                          known, atBoot, spared, everBlocked, freed>>

\* bind, recv or verdict fails: the worker is gone for good, what it had queued
\* is dropped (the application sends again), and the rule lets packets bypass.
WorkerStops ==
  /\ on /\ worker.pc \in {"recv", "accept", "drop"}
  /\ faults < MaxFaults /\ faults' = faults + 1
  /\ bound' = FALSE /\ worker' = [pc |-> "stopped"]
  /\ net' = [f \in Flows |-> IF net[f] = "queued" THEN "none" ELSE net[f]]
  /\ guarded' = guarded \ {f \in Flows : net[f] = "queued"}
  /\ freed' = freed \ {f \in Flows : net[f] = "queued"}
  /\ UNCHANGED <<on, paused, chain, blocked, tracked, poll, kill, changes, misses, acked, atAdd,
                 known, atBoot, spared, everBlocked, named>>

\* Faulty variant of Recv: the worker does not read the flag.
Recv_IgnorePause(f) ==
  /\ worker.pc = "recv" /\ net[f] = "queued"
  /\ Going(f, "attribute")
  /\ WorkerOnly /\ UNCHANGED <<misses, named, guarded>>

\* `if state.is_paused()`
Recv(f) ==
  /\ worker.pc = "recv" /\ net[f] = "queued"
  /\ Going(f, IF paused THEN "accept" ELSE "attribute")
  /\ WorkerOnly /\ UNCHANGED <<misses, named, guarded>>

\* Without an executable (not found, or not TCP or UDP): fail open.
Attribute(f) ==
  /\ Deciding(f, "attribute")
  /\ \E e \in Answers(f) :
       /\ IF e = Unknown THEN Going(f, "accept")
          ELSE worker' = [pc |-> "lookup", flow |-> f, exe |-> e]
       /\ named' = [named EXCEPT ![f] = @ \cup ({e} \cap Exes)]
       /\ \/ e = Owner[f] /\ UNCHANGED <<misses, guarded>>
          \/ /\ e # Owner[f] /\ guarded' = guarded \ {f}
             /\ misses < MaxMisses /\ misses' = misses + 1
  /\ WorkerOnly

\* Faulty variant of Decide: no rule is enforced before the first pass of the poll.
Decide_Saved(f) ==
  /\ Deciding(f, "lookup")
  /\ Going(f, IF worker.exe \in blocked /\ ~poll.first THEN "drop" ELSE "accept")
  /\ WorkerOnly /\ UNCHANGED <<misses, named, guarded>>

\* rules.is_blocked(&exe)
Decide(f) ==
  /\ Deciding(f, "lookup")
  /\ Going(f, IF worker.exe \in blocked THEN "drop" ELSE "accept")
  /\ WorkerOnly /\ UNCHANGED <<misses, named, guarded>>

\* Faulty variant of Verdict: an accepted packet goes back to the queue.
Verdict_Lost(f) ==
  /\ worker.pc \in {"accept", "drop"} /\ worker.flow = f
  /\ net' = [net EXCEPT ![f] = IF worker.pc = "drop" THEN "refused" ELSE "queued"]
  /\ worker' = [pc |-> "recv"]
  /\ UNCHANGED <<daemonVars, tracked, poll, kill, counts, ghosts>>

Verdict(f) ==
  /\ worker.pc \in {"accept", "drop"} /\ worker.flow = f
  /\ net' = [net EXCEPT ![f] = IF worker.pc = "drop" THEN "refused" ELSE "open"]
  /\ worker' = [pc |-> "recv"]
  /\ UNCHANGED <<daemonVars, tracked, poll, kill, counts, ghosts>>

-----------------------------------------------------------------------------
(* The conntrack poll *)

PollOnly == UNCHANGED <<net, daemonVars, worker, changes, acked, atAdd, known, atBoot,
                        everBlocked, guarded, freed>>

\* The text of /proc/net/nf_conntrack, read before the map is locked.
ReadTable ==
  /\ on /\ poll.pc = "read"
  /\ poll' = [poll EXCEPT !.pc = "apply", !.seen = Open]
  /\ PollOnly /\ UNCHANGED <<tracked, kill, misses, faults, spared, named>>

\* What follows a pass: the first one, even if it read nothing, is followed by
\* the enforcement of the saved rules.
PassEnds == poll' = [pc    |-> IF poll.first THEN "enforce" ELSE "read",
                     seen  |-> {}, first |-> poll.first]

ReadFails ==
  /\ on /\ poll.pc = "read"
  /\ faults < MaxFaults /\ faults' = faults + 1
  /\ spared' = IF poll.first THEN spared \cup atBoot ELSE spared
  /\ PassEnds
  /\ PollOnly /\ UNCHANGED <<tracked, kill, misses, named>>

\* Faulty variant of Apply: whoever has the port owns the flow, too.
Apply_ByPort ==
  /\ poll.pc = "apply"
  /\ tracked' = [f \in Flows |->
                  IF f \notin poll.seen THEN Untracked ELSE tracked[f] \cup {Owner[f], Unknown}]
  /\ PassEnds
  /\ PollOnly /\ UNCHANGED <<kill, misses, faults, spared, named>>

\* Gone flows leave the map; a new one is attributed, once and for all.
Apply ==
  /\ poll.pc = "apply"
  /\ \E who \in [{f \in poll.seen : tracked[f] = Untracked} -> Exes \cup {Unknown}] :
       LET wrong == {f \in DOMAIN who : who[f] # Owner[f]}
       IN /\ \A f \in DOMAIN who : who[f] \in Answers(f)
          /\ misses + Cardinality(wrong) <= MaxMisses
          /\ misses' = misses + Cardinality(wrong)
          /\ spared' = spared \cup wrong
          /\ tracked' = [f \in Flows |->
                          IF f \notin poll.seen THEN Untracked
                          ELSE IF f \in DOMAIN who THEN {who[f]} ELSE tracked[f]]
          /\ named' = [f \in Flows |-> IF f \in DOMAIN who THEN named[f] \cup ({who[f]} \cap Exes)
                                               ELSE named[f]]
  /\ PassEnds
  /\ PollOnly /\ UNCHANGED <<kill, faults>>

-----------------------------------------------------------------------------
(* kill_flows_for_exe *)

\* Faulty variant of Victims: the executable is not compared.
Victims_All(exes) == {f \in Flows : tracked[f] # Untracked}

\* matching_flows: the tracked flows of an executable.
Victims(exes) == {f \in Flows : \E e \in exes : tracked[f] = {e}}

KillOnly == UNCHANGED <<daemonVars, worker, tracked, changes, misses, atAdd, known, atBoot,
                        everBlocked, named, guarded, freed>>

\* Faulty variant of EnforceSaved: the saved rules are enforced before the first pass.
EnforceSaved_TooEarly ==
  /\ on /\ poll.first /\ poll.pc # "enforce" /\ kill[Startup].pc = "idle"
  /\ kill' = [kill EXCEPT ![Startup] =
               [pc |-> "kill", exe |-> Unknown, victims |-> Victims(blocked)]]
  /\ KillOnly /\ UNCHANGED <<net, poll, acked, faults, spared>>

\* The saved rules, once, after the first pass of the poll.
EnforceSaved ==
  /\ poll.pc = "enforce" /\ kill[Startup].pc = "idle"
  /\ kill' = [kill EXCEPT ![Startup] =
               [pc |-> "kill", exe |-> Unknown, victims |-> Victims(blocked)]]
  /\ KillOnly /\ UNCHANGED <<net, poll, acked, faults, spared>>

\* Does ss -K or conntrack -D reach the flow?
Killable(f) == f \in Tcp \/ Conntrack

\* Faulty variant of KillOne: a flow is retried until it is gone.
KillOne_UntilDead(k, f) ==
  /\ kill[k].pc = "kill" /\ f \in kill[k].victims
  /\ net' = [net EXCEPT ![f] = IF @ = "open" /\ Killable(f) THEN "killed" ELSE @]
  /\ kill' = [kill EXCEPT ![k].victims = IF net'[f] = "open" THEN @ ELSE @ \ {f}]
  /\ KillOnly /\ UNCHANGED <<poll, acked, faults, spared>>

\* One flow: a failure is logged and the next one is tried.
KillOne(k, f) ==
  /\ kill[k].pc = "kill" /\ f \in kill[k].victims
  /\ kill' = [kill EXCEPT ![k].victims = @ \ {f}]
  /\ \/ /\ net' = [net EXCEPT ![f] = IF @ = "open" /\ Killable(f) THEN "killed" ELSE @]
        /\ UNCHANGED <<faults, spared>>
     \/ /\ faults < MaxFaults /\ faults' = faults + 1
        /\ spared' = spared \cup {f}
        /\ UNCHANGED net
  /\ KillOnly /\ UNCHANGED <<poll, acked>>

\* AddRule of the executable is under way.
Pending(clients, e) == \E c \in clients : kill[c].exe = e

\* The poll goes on to sleep; a request is answered.
KillsDone(k) ==
  /\ kill[k].pc = "kill" /\ kill[k].victims = {}
  /\ kill' = [kill EXCEPT ![k] = NoVictims]
  /\ poll' = IF k = Startup THEN [poll EXCEPT !.pc = "read", !.first = FALSE] ELSE poll
  /\ acked' = acked \cup {e \in blocked : kill[k].exe = e /\ ~Pending(Clients \ {k}, e)}
  /\ KillOnly /\ UNCHANGED <<net, faults, spared>>

-----------------------------------------------------------------------------
(* Requests *)

Change == on /\ changes < MaxChanges /\ changes' = changes + 1

\* AddRule with action Block: the rule is in the store, the kill comes next.
AddRule(c, e) ==
  /\ Change /\ kill[c].pc = "idle"
  /\ blocked' = blocked \cup {e}
  /\ kill' = [kill EXCEPT ![c] = [pc |-> "added", exe |-> e, victims |-> {}]]
  /\ acked' = acked \ {e}
  /\ atAdd' = (atAdd \ FlowsOf(e)) \cup (Open \cap FlowsOf(e))
  /\ known' = (known \ FlowsOf(e)) \cup {f \in Open \cap FlowsOf(e) : tracked[f] = {e}}
  /\ everBlocked' = everBlocked \cup {e}
  /\ UNCHANGED <<net, on, bound, paused, chain, worker, tracked, poll, misses, faults, atBoot,
                 spared, named, guarded, freed>>

\* Faulty variant of FindVictims: only flows that the pass in hand has read are looked at.
FindVictims_Recent(c) ==
  /\ kill[c].pc = "added"
  /\ kill' = [kill EXCEPT ![c].pc = "kill",
                          ![c].victims =
                            Victims({kill[c].exe}) \cap poll.seen]
  /\ KillOnly /\ UNCHANGED <<net, poll, acked, faults, spared>>

\* matching_flows, under the read lock of the map.
FindVictims(c) ==
  /\ kill[c].pc = "added"
  /\ kill' = [kill EXCEPT ![c].pc = "kill",
                          ![c].victims = Victims({kill[c].exe})]
  /\ KillOnly /\ UNCHANGED <<net, poll, acked, faults, spared>>

RemoveRule(e) ==
  /\ Change /\ e \in blocked
  /\ blocked' = blocked \ {e}
  /\ acked' = acked \ {e}
  /\ atAdd' = atAdd \ FlowsOf(e)
  /\ known' = known \ FlowsOf(e)
  /\ atBoot' = atBoot \ FlowsOf(e)
  /\ guarded' = guarded \ FlowsOf(e)
  /\ UNCHANGED <<net, on, bound, paused, chain, worker, tracked, poll, kill, misses, faults,
                 spared, everBlocked, named, freed>>

\* SetPaused: the flag now, the queue rule (Firewall's toggle) a little later.
SetPaused ==
  /\ Change /\ chain = ~paused
  /\ paused' = ~paused
  /\ guarded' = IF paused' THEN {} ELSE guarded
  /\ freed' = IF paused' THEN freed ELSE {}
  /\ UNCHANGED <<net, on, bound, chain, blocked, worker, tracked, poll, kill, misses, faults,
                 acked, atAdd, known, atBoot, spared, everBlocked, named>>

ToggleChain ==
  /\ on /\ chain = paused
  /\ chain' = ~paused
  /\ UNCHANGED <<net, on, bound, paused, blocked, worker, tracked, poll, kill, counts, ghosts>>

Next ==
  \/ Boot \/ Bind
  \/ \E f \in Flows : \/ Connect(f) \/ Overflow(f) \/ Close(f)
                      \/ Recv(f) \/ Attribute(f) \/ Decide(f) \/ Verdict(f)
  \/ WorkerStops
  \/ ReadTable \/ ReadFails \/ Apply \/ EnforceSaved
  \/ \E k \in Killers : \/ \E f \in Flows : KillOne(k, f)
                        \/ KillsDone(k)
  \/ \E e \in Exes : \/ \E c \in Clients : AddRule(c, e)
                     \/ RemoveRule(e)
  \/ \E c \in Clients : FindVictims(c)
  \/ SetPaused \/ ToggleChain

Spec == Init /\ [][Next]_vars

(***************************************************************************)
(* The daemon is started; its threads and tasks run.  Applications and     *)
(* clients owe nothing.                                                    *)
(***************************************************************************)
StartStep == Boot \/ Bind
WorkerStep == \E f \in Flows : Recv(f) \/ Attribute(f) \/ Decide(f) \/ Verdict(f)
PollStep == ReadTable \/ Apply \/ EnforceSaved
KillStep(k) == \/ k \in Clients /\ FindVictims(k)
               \/ \E f \in Flows : KillOne(k, f)
               \/ KillsDone(k)

Fairness ==
  /\ WF_vars(StartStep) /\ WF_vars(WorkerStep) /\ WF_vars(PollStep) /\ WF_vars(ToggleChain)
  /\ \A k \in Killers : WF_vars(KillStep(k))

FairSpec == Spec /\ Fairness

-----------------------------------------------------------------------------
(* Properties *)

\* Types, and only flows that the worker has in hand or that wait are queued.
TypeOK ==
  /\ net \in [Flows -> {"none", "queued", "open", "refused", "killed", "closed"}]
  /\ on \in BOOLEAN /\ bound \in BOOLEAN /\ paused \in BOOLEAN /\ chain \in BOOLEAN
  /\ blocked \subseteq Exes /\ acked \subseteq blocked
  /\ worker.pc \in {"recv", "attribute", "lookup", "accept", "drop", "stopped"}
  /\ worker.pc \notin {"recv", "stopped"} => net[worker.flow] = "queued"
  /\ \A f \in Flows : tracked[f] = Untracked \/ \E e \in Answers(f) : tracked[f] = {e}
  /\ poll.pc \in {"read", "apply", "enforce"} /\ poll.seen \subseteq Flows
  /\ \A k \in Killers : kill[k].pc \in {"idle", "added", "kill"}

\* A flow that begins after Ok for its block, with a worker that lasts, room in
\* the queue and the right attribution, does not open until somebody removes the
\* rule or pauses.
AckedBlockHolds == guarded \cap Open = {}

\* A flow that begins under pause is not refused before a resume: the flag
\* covers the time until nft has flushed the chain.
PauseLetsThrough == \A f \in freed : net[f] # "refused"

\* A flow is refused or killed only if a lookup of this flow has named an
\* executable that has had a Block rule, and one that a lookup can name: its own
\* or a mate's.  A flow without mates never pays for the block of another.
OnlyBlockedSuffer ==
  \A f \in Flows : net[f] \in {"refused", "killed"} =>
    \E e \in named[f] \cap everBlocked : e = Owner[f] \/ e \in Mates[f]

\* Flows that had been attributed to their executable when its block was added
\* are dead once AddRule answers, whatever the poll did meanwhile, unless the
\* kill failed or they cannot be killed (UDP without conntrack-tools).
TrackedFlowsAreKilled ==
  \A f \in known \ spared : Owner[f] \in acked /\ Killable(f) => f \notin Open

\* Flows older than the daemon, of executables with a saved block, are dead
\* once the first pass of the poll has been followed up.
SavedBlocksReachOldFlows ==
  ~poll.first => \A f \in atBoot \ spared : Killable(f) => f \notin Open

\* Every packet that is queued gets a verdict.
PacketsAreDecided == \A f \in Flows : net[f] = "queued" ~> net[f] # "queued"

\* AddRule is answered, however many flows there are to kill and whether or
\* not they die.
AddRuleIsAnswered == \A c \in Clients : kill[c].pc # "idle" ~> kill[c].pc = "idle"

\* Every flow of a blocked executable that was open when the rule was added is
\* dead once AddRule answers: "Existing connections are killed the moment the
\* rule is added" (README.md:105).
ExistingConnectionsAreKilled ==
  \A f \in atAdd : Owner[f] \in acked /\ Killable(f) => f \notin Open

\* A first packet is dropped "when a Block rule matches the owning executable"
\* (README.md:102-104), never for the rule of another one.
OwnersRuleDecides == \A f \in Flows : net[f] = "refused" => Owner[f] \in everBlocked
=============================================================================
