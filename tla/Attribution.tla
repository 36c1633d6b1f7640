---------------------------- MODULE Attribution ----------------------------
(***************************************************************************)
(* From a local port to the executable behind it (attrib.rs, procs.rs,     *)
(* DaemonState::attribute).  The kernel's processes and sockets change     *)
(* while /proc is read: one directory at a time.  Two things are cached:   *)
(* which pid holds a socket (checked before it is used) and what the       *)
(* process scanner saw of each pid (used as it is until the next scan).    *)
(***************************************************************************)
EXTENDS Naturals

CONSTANTS NumPids,   \* /proc is read in the order of the pids
          Binaries, Inodes, Ports,
          Port,      \* local port of each socket; an inode is never used again
          Callers,   \* the queue worker and the conntrack poll
          Poll,      \* the caller that primes the inode cache
          None,      \* no pid, no executable, nobody
          Absent,    \* no entry in the process map
          MaxEvents  \* bound: changes of processes and sockets

\* None and Absent are nobody's pid, socket, port, executable or name.
ASSUME NumPidsAssumption == NumPids \in Nat
ASSUME PortAssumption == Port \in [Inodes -> Ports]
ASSUME PollAssumption == Poll \in Callers
ASSUME NoneAssumption ==
  None \notin 1..NumPids \cup Inodes \cup Ports \cup Binaries \cup Callers
ASSUME AbsentAssumption == Absent \notin Binaries \cup {None}

Pids == 1..NumPids
NoCache == [i \in Inodes |-> None]
Unseen == [p \in Pids |-> Absent]
Idle(pc) == [pc |-> pc, port |-> None, inode |-> None, pid |-> None, exe |-> None]

VARIABLES exeOf,      \* executable of each live process
          fds,        \* sockets each process holds
          used,       \* inodes handed out so far
          mutex,      \* holder of state.attrib
          cache,      \* Attributor::inode_to_pid
          scan,       \* scan_proc_fds: the next pid and the map so far
          call,       \* one attribution per caller
          processes,  \* state.processes: pid -> executable
          scanner,    \* procs::scan_once
          events,
          owners,     \* per call: pids that held the port at some time of it
          sole,       \* per call: the holder and socket alone on the port all along
          had         \* executables of each pid since a scan began: the one
                      \* that runs and the one that was published last

worldVars == <<exeOf, fds, used, events>>
lookupVars == <<mutex, cache, scan, call>>
scanVars == <<processes, scanner>>
history == <<owners, sole, had>>
attribVars == <<worldVars, lookupVars, scanVars, history>>

Holders(port) == {h \in Pids \X Inodes : h[2] \in fds[h[1]] /\ Port[h[2]] = port}
PidsOf(pairs) == {h[1] : h \in pairs}

\* One process runs when the daemon starts, the others come later.
AttribInit ==
  /\ \E e \in Binaries : exeOf = [p \in Pids |-> IF p = 1 THEN e ELSE None]
  /\ fds = [p \in Pids |-> {}] /\ used = {} /\ events = 0
  /\ mutex = None /\ cache = NoCache /\ scan = [at |-> 1, map |-> NoCache]
  /\ call = [c \in Callers |-> Idle(IF c = Poll THEN "prime" ELSE "idle")]
  /\ processes = Unseen /\ scanner = [at |-> 0, seen |-> Unseen, open |-> FALSE, gone |-> FALSE]
  /\ owners = [c \in Callers |-> {}] /\ sole = [c \in Callers |-> {}]
  /\ had = [k \in {"now", "last"} |-> [p \in Pids |-> {exeOf[p]} \ {None}]]

-----------------------------------------------------------------------------
(* Processes and sockets *)

\* What a change of the world means for the running calls and the scans.
World ==
  /\ events < MaxEvents /\ events' = events + 1
  /\ UNCHANGED <<lookupVars, processes>>
  /\ owners' = [c \in Callers |-> IF call[c].port = None THEN {}
                                  ELSE owners[c] \cup PidsOf(Holders(call[c].port)')]
  /\ sole' = [c \in Callers |-> IF Holders(call[c].port)' = sole[c] THEN sole[c] ELSE {}]
  /\ had' = [k \in {"now", "last"} |-> [p \in Pids |-> had[k][p] \cup ({exeOf'[p]} \ {None})]]

\* A process starts: alone, or forked with its parent's executable and sockets.
Start(p) ==
  /\ exeOf[p] = None
  /\ \/ /\ \E e \in Binaries : exeOf' = [exeOf EXCEPT ![p] = e]
        /\ UNCHANGED fds
     \/ \E q \in Pids : /\ exeOf[q] # None
                        /\ exeOf' = [exeOf EXCEPT ![p] = exeOf[q]]
                        /\ fds' = [fds EXCEPT ![p] = fds[q]]
  /\ UNCHANGED <<used, scanner>> /\ World

Exec(p) ==
  /\ exeOf[p] # None
  /\ \E e \in Binaries \ {exeOf[p]} : exeOf' = [exeOf EXCEPT ![p] = e]
  /\ UNCHANGED <<fds, used, scanner>> /\ World

OpenSocket(p) ==
  /\ exeOf[p] # None
  /\ \E i \in Inodes \ used : fds' = [fds EXCEPT ![p] = @ \cup {i}] /\ used' = used \cup {i}
  /\ UNCHANGED <<exeOf, scanner>> /\ World

CloseSocket(p) ==
  /\ \E i \in fds[p] : fds' = [fds EXCEPT ![p] = @ \ {i}]
  /\ UNCHANGED <<exeOf, used, scanner>> /\ World

\* The scanner's handle on the process is dead from now on, its number is free.
Exit(p) ==
  /\ exeOf[p] # None
  /\ exeOf' = [exeOf EXCEPT ![p] = None] /\ fds' = [fds EXCEPT ![p] = {}]
  /\ scanner' = IF scanner.at = p THEN [scanner EXCEPT !.gone = TRUE] ELSE scanner
  /\ UNCHANGED used /\ World

-----------------------------------------------------------------------------
(* Attributor::lookup, under the mutex *)

At(c, pc) == call[c].pc = pc
Inner == UNCHANGED <<worldVars, scanVars, history>>

\* DaemonState::attribute is called for a flow on this port.
Call(c, port) ==
  /\ At(c, "idle")
  /\ call' = [call EXCEPT ![c] = [@ EXCEPT !.pc = "want", !.port = port]]
  /\ owners' = [owners EXCEPT ![c] = PidsOf(Holders(port))]
  /\ sole' = [sole EXCEPT ![c] = IF \E h \in Holders(port) : Holders(port) = {h}
                                 THEN Holders(port) ELSE {}]
  /\ UNCHANGED <<worldVars, mutex, cache, scan, scanVars, had>>

\* The poll fills the cache before its first pass, by a refresh of its own.
Prime ==
  /\ At(Poll, "prime") /\ mutex = None
  /\ mutex' = Poll /\ scan' = [at |-> 1, map |-> NoCache]
  /\ call' = [call EXCEPT ![Poll].pc = "scan"]
  /\ UNCHANGED cache /\ Inner

Lock(c) ==
  /\ At(c, "want") /\ mutex = None /\ mutex' = c
  /\ call' = [call EXCEPT ![c].pc = "find"]
  /\ UNCHANGED <<cache, scan>> /\ Inner

\* The first row with the port: /proc/net lists sockets in no order one can
\* rely on, without the address and the state being compared.
Find(c) ==
  /\ At(c, "find")
  /\ \/ \E h \in Holders(call[c].port) :
          /\ call' = [call EXCEPT ![c] = [@ EXCEPT !.pc = "cached", !.inode = h[2]]]
          /\ UNCHANGED mutex
     \/ /\ Holders(call[c].port) = {}
        /\ call' = [call EXCEPT ![c].pc = "done"] /\ mutex' = None
  /\ UNCHANGED <<cache, scan>> /\ Inner

Owns(p, i) == p # None /\ i \in fds[p]

\* Faulty variant of Hit: a cached pid is not checked.
Hit_Unverified(c) ==
  /\ At(c, "cached") /\ cache[call[c].inode] # None
  /\ call' = [call EXCEPT ![c] = [@ EXCEPT !.pc = "info", !.pid = cache[call[c].inode]]]
  /\ mutex' = None /\ UNCHANGED <<cache, scan>> /\ Inner

Hit(c) ==
  /\ At(c, "cached") /\ Owns(cache[call[c].inode], call[c].inode)
  /\ call' = [call EXCEPT ![c] = [@ EXCEPT !.pc = "info", !.pid = cache[call[c].inode]]]
  /\ mutex' = None /\ UNCHANGED <<cache, scan>> /\ Inner

Miss(c) ==
  /\ At(c, "cached") /\ ~Owns(cache[call[c].inode], call[c].inode)
  /\ call' = [call EXCEPT ![c].pc = "scan"] /\ scan' = [at |-> 1, map |-> NoCache]
  /\ UNCHANGED <<mutex, cache>> /\ Inner

\* One /proc/<pid>/fd: a later pid takes over a socket it shares.
ScanPid(c) ==
  /\ At(c, "scan") /\ scan.at \in Pids
  /\ scan' = [at |-> scan.at + 1,
              map |-> [i \in Inodes |-> IF i \in fds[scan.at] THEN scan.at ELSE scan.map[i]]]
  /\ UNCHANGED <<mutex, cache, call>> /\ Inner

\* Faulty variant of ScanDone: refresh only adds what the cache did not have.
ScanDone_Keeps(c) ==
  /\ At(c, "scan") /\ scan.at \notin Pids
  /\ cache' = [i \in Inodes |-> IF cache[i] # None THEN cache[i] ELSE scan.map[i]]
  /\ mutex' = None
  /\ LET pid == IF call[c].inode = None THEN None ELSE cache'[call[c].inode]
     IN call' = [call EXCEPT ![c] =
                   IF @.inode = None THEN Idle("idle")
                   ELSE [@ EXCEPT !.pid = pid, !.pc = IF pid = None THEN "done" ELSE "info"]]
  /\ UNCHANGED scan /\ Inner

ScanDone(c) ==
  /\ At(c, "scan") /\ scan.at \notin Pids
  /\ cache' = scan.map /\ mutex' = None
  /\ LET pid == IF call[c].inode = None THEN None ELSE cache'[call[c].inode]
     IN call' = [call EXCEPT ![c] =
                   IF @.inode = None THEN Idle("idle")
                   ELSE [@ EXCEPT !.pid = pid, !.pc = IF pid = None THEN "done" ELSE "info"]]
  /\ UNCHANGED scan /\ Inner

-----------------------------------------------------------------------------
(* attribute, after the lookup: the process map, then /proc/<pid> *)

Info(c) ==
  /\ At(c, "info")
  /\ call' = [call EXCEPT ![c] = IF processes[@.pid] = Absent THEN [@ EXCEPT !.pc = "direct"]
                                 ELSE [@ EXCEPT !.pc = "done", !.exe = processes[call[c].pid]]]
  /\ UNCHANGED <<mutex, cache, scan>> /\ Inner

Direct(c) ==
  /\ At(c, "direct")
  /\ call' = [call EXCEPT ![c] = [@ EXCEPT !.pc = "done", !.exe = exeOf[call[c].pid]]]
  /\ UNCHANGED <<mutex, cache, scan>> /\ Inner

Return(c) ==
  /\ At(c, "done") /\ call' = [call EXCEPT ![c] = Idle("idle")]
  /\ owners' = [owners EXCEPT ![c] = {}] /\ sole' = [sole EXCEPT ![c] = {}]
  /\ UNCHANGED <<worldVars, mutex, cache, scan, scanVars, had>>

-----------------------------------------------------------------------------
(* procs::scan_once; scanner.at = 0 is the sleep between two scans *)

Scanning == UNCHANGED <<worldVars, lookupVars, owners, sole>>

BeginScan ==
  /\ scanner.at = 0 /\ scanner' = [scanner EXCEPT !.at = 1]
  /\ had' = [had EXCEPT !.now = [p \in Pids |-> {exeOf[p]} \ {None}]]
  /\ UNCHANGED processes /\ Scanning

HasSocket ==
  /\ scanner.at \in Pids /\ ~scanner.open
  /\ scanner' = IF fds[scanner.at] # {} THEN [scanner EXCEPT !.open = TRUE, !.gone = FALSE]
                ELSE [scanner EXCEPT !.at = @ + 1]
  /\ UNCHANGED <<processes, had>> /\ Scanning

\* stat, then exe: a process that dies in between is recorded without one.
Inspect ==
  /\ scanner.at \in Pids /\ scanner.open
  /\ \E x \in IF scanner.gone THEN {Absent, None} ELSE {exeOf[scanner.at]} :
       scanner' = [at |-> scanner.at + 1, seen |-> [scanner.seen EXCEPT ![scanner.at] = x],
                   open |-> FALSE, gone |-> FALSE]
  /\ UNCHANGED <<processes, had>> /\ Scanning

\* Faulty variant of Publish: entries are added, none is taken out.
Publish_Extend ==
  /\ scanner.at = NumPids + 1
  /\ processes' = [p \in Pids |-> IF processes[p] # Absent THEN processes[p] ELSE scanner.seen[p]]
  /\ scanner' = [at |-> 0, seen |-> Unseen, open |-> FALSE, gone |-> FALSE]
  /\ had' = [had EXCEPT !.last = had.now] /\ Scanning

Publish ==
  /\ scanner.at = NumPids + 1
  /\ processes' = scanner.seen
  /\ scanner' = [at |-> 0, seen |-> Unseen, open |-> FALSE, gone |-> FALSE]
  /\ had' = [had EXCEPT !.last = had.now] /\ Scanning

-----------------------------------------------------------------------------
AttribNext ==
  \/ \E p \in Pids : Start(p) \/ Exec(p) \/ OpenSocket(p) \/ CloseSocket(p) \/ Exit(p)
  \/ Prime
  \/ \E c \in Callers : \/ \E port \in Ports : Call(c, port)
                        \/ Lock(c) \/ Find(c) \/ Hit(c) \/ Miss(c) \/ ScanPid(c) \/ ScanDone(c)
                        \/ Info(c) \/ Direct(c) \/ Return(c)
  \/ BeginScan \/ HasSocket \/ Inspect \/ Publish

AttribSpec == AttribInit /\ [][AttribNext]_attribVars

-----------------------------------------------------------------------------
(* Properties *)

\* lookup never blames a process on the word of the cache or of a scan that the
\* world has overtaken: the pid it returns held a socket of that port at some
\* moment of this very call (attrib.rs:35-46).
AnswersWereTrue ==
  \A c \in Callers : call[c].pid # None => call[c].pid \in owners[c]

\* A process that is alone on its port from the call of attribute to its return
\* is found, however stale the cache is and whatever other processes do
\* meanwhile (attrib.rs:43-45).
OwnerIsFound ==
  \A c \in Callers : call[c].pc = "done" => \A h \in sole[c] : call[c].pid = h[1]

\* The executable of an answer may be out of date, since a pid may have called
\* exec or belong to another process by now, but never by more than one scan:
\* the pid ran it at some time since the last published scan began (state.rs:84,
\* procs.rs:52).
ExeIsRecent ==
  [][\A c \in Callers : call'[c].pc = "done" /\ call[c].pc # "done" /\ call'[c].exe # None
       => call'[c].exe \in had.last[call'[c].pid]]_attribVars
=============================================================================
