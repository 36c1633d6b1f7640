------------------------- MODULE AttributionProofs -------------------------
(***************************************************************************)
(* Attribution, for any number of processes, sockets, ports and callers    *)
(* and any changes of the world: answers are true of the time of the call, *)
(* who is alone on a port is found, and executables are of the last scan.  *)
(***************************************************************************)
EXTENDS Attribution, TLAPS

Looking == {"find", "cached", "scan"}
Labels == Looking \cup {"idle", "prime", "want", "info", "direct", "done"}
Calls == [pc : Labels, port : Ports \cup {None}, inode : Inodes \cup {None},
          pid : Pids \cup {None}, exe : Binaries \cup {None}]

Types ==
  /\ exeOf \in [Pids -> Binaries \cup {None}] /\ fds \in [Pids -> SUBSET Inodes]
  /\ used \in SUBSET Inodes
  /\ mutex \in Callers \cup {None}
  /\ cache \in [Inodes -> Pids \cup {None}]
  /\ scan \in [at : 1..(NumPids + 1), map : [Inodes -> Pids \cup {None}]]
  /\ call \in [Callers -> Calls]
  /\ processes \in [Pids -> Binaries \cup {None, Absent}]
  /\ scanner \in [at : 0..(NumPids + 1), seen : [Pids -> Binaries \cup {None, Absent}],
                  open : BOOLEAN, gone : BOOLEAN]
  /\ owners \in [Callers -> SUBSET Pids]
  /\ sole \in [Callers -> SUBSET (Pids \X Inodes)]
  /\ had \in [{"now", "last"} -> [Pids -> SUBSET Binaries]]

\* One lookup at a time.
OneLookup(c) == mutex = c <=> call[c].pc \in Looking

\* What a call has found so far.
Progress(c) ==
  /\ call[c].inode # None => Port[call[c].inode] = call[c].port
  /\ call[c].pc \in {"idle", "prime", "want", "find"} => call[c].inode = None
  /\ call[c].pc = "cached" => call[c].inode # None
  /\ call[c].pc \in Looking \cup {"idle", "prime", "want"} => call[c].pid = None
  /\ call[c].pc \in {"info", "direct"} => call[c].pid # None
  /\ call[c].pc # "done" => call[c].exe = None
  /\ call[c].pc = "prime" => call[c].port = None
  /\ call[c].pc = "scan" /\ call[c].inode = None => call[c].port = None
  /\ call[c].port = None => call[c].pid = None /\ sole[c] = {}

\* A scan of this call finds only pids that have held a socket since it began.
Truth(c) ==
  /\ \A p \in Pids, i \in Inodes :
       i \in fds[p] /\ Port[i] = call[c].port => p \in owners[c]
  /\ call[c].pid # None => call[c].pid \in owners[c]
  /\ call[c].pc = "scan" => \A i \in Inodes :
       scan.map[i] # None /\ Port[i] = call[c].port => scan.map[i] \in owners[c]

\* Who is alone on the port is found under its socket, by the cache or by a scan
\* that has come past it.
SoleIsFound(c) ==
  \A h \in sole[c] :
    /\ \A p \in Pids, i \in Inodes :
         i \in fds[p] /\ Port[i] = call[c].port <=> p = h[1] /\ i = h[2]
    /\ call[c].inode # None => call[c].inode = h[2]
    /\ call[c].pc \in {"info", "direct", "done"} => call[c].pid = h[1]
    /\ call[c].pc = "scan" /\ scan.at > h[1] => scan.map[h[2]] = h[1]

\* What the scanner has seen and published was running at the time.
Recent(p) ==
  /\ exeOf[p] # None => exeOf[p] \in had["now"][p] /\ exeOf[p] \in had["last"][p]
  /\ processes[p] \notin {Absent, None} => processes[p] \in had["last"][p]
  /\ scanner.seen[p] \notin {Absent, None} => scanner.seen[p] \in had["now"][p]
  /\ scanner.at = 0 => scanner.seen[p] = Absent

\* The inductive invariant.
IInv ==
  /\ Types
  /\ \A c \in Callers : OneLookup(c) /\ Progress(c) /\ Truth(c) /\ SoleIsFound(c)
  /\ \A p \in Pids : Recent(p)

-----------------------------------------------------------------------------
(* The invariant is inductive: one lemma per action *)

USE NumPidsAssumption, PortAssumption, PollAssumption, NoneAssumption, AbsentAssumption DEF Pids

LEMMA Initially == AttribInit => IInv
<1> SUFFICES ASSUME AttribInit PROVE IInv
  OBVIOUS
<1>1. PICK e \in Binaries : exeOf = [p \in Pids |-> IF p = 1 THEN e ELSE None]
  BY DEF AttribInit
<1> USE DEF AttribInit, NoCache, Unseen, Idle
<1>2. Types
  BY <1>1 DEF Types, Calls, Labels, Looking
<1>3. ASSUME NEW c \in Callers PROVE OneLookup(c) /\ Progress(c) /\ Truth(c) /\ SoleIsFound(c)
  BY DEF OneLookup, Progress, Truth, SoleIsFound, Looking
<1>4. ASSUME NEW p \in Pids PROVE Recent(p)
  BY <1>1 DEF Recent
<1>5. QED
  BY <1>2, <1>3, <1>4 DEF IInv

LEMMA CallKeeps ==
  ASSUME IInv, NEW c \in Callers, NEW port \in Ports, Call(c, port)
  PROVE  IInv'
<1>1. call' \in [Callers -> Calls]
  <2>1. call \in [Callers -> Calls] /\ call[c] \in Calls
    BY DEF IInv, Types
  <2>2. call'[c] \in Calls
    BY <2>1 DEF Call, Calls, Labels, Looking
  <2>3. QED
    BY <2>1, <2>2 DEF Call
<1> USE DEF IInv, Types, Calls, Labels, Looking, At, Call, Holders, PidsOf, worldVars, scanVars
<1>2. Types'
  BY <1>1
<1>3. ASSUME NEW d \in Callers PROVE OneLookup(d)'
  BY DEF OneLookup
<1>4. ASSUME NEW d \in Callers PROVE Progress(d)'
  BY DEF Progress
<1>5. ASSUME NEW d \in Callers PROVE Truth(d)'
  <2>1. CASE d # c
    BY <2>1 DEF Truth, Progress, OneLookup
  <2>2. CASE d = c
    <3>1. ASSUME NEW p \in Pids, NEW i \in Inodes, i \in fds[p], Port[i] = port
          PROVE  p \in owners'[c]
      <4>1. <<p, i>> \in Holders(port)
        BY <3>1
      <4>2. QED
        BY <4>1
    <3>2. QED
      BY <2>2, <3>1 DEF Truth, Progress
  <2>3. QED
    BY <2>1, <2>2
<1>6. ASSUME NEW d \in Callers PROVE SoleIsFound(d)'
  <2>1. CASE d # c
    BY <2>1 DEF SoleIsFound, Truth, Progress, OneLookup
  <2>2. CASE d = c
    <3>1. ASSUME NEW h \in sole'[c], NEW p \in Pids, NEW i \in Inodes
          PROVE  i \in fds[p] /\ Port[i] = port <=> p = h[1] /\ i = h[2]
      <4>1. Holders(port) = {h}
        BY <3>1
      <4>2. h \in Pids \X Inodes /\ h[2] \in fds[h[1]] /\ Port[h[2]] = port
        BY <4>1
      <4>3. i \in fds[p] /\ Port[i] = port => <<p, i>> = h
        BY <4>1
      <4>4. QED
        BY <4>2, <4>3
    <3>2. call'[c].pc = "want" /\ call'[c].port = port /\ call'[c].inode = None
      BY DEF Progress
    <3>3. SoleIsFound(c)'
      <4> HIDE DEF Call
      <4>1. fds' = fds
        BY DEF Call
      <4>2. QED
        BY <3>1, <3>2, <4>1 DEF SoleIsFound
    <3>4. QED
      BY <2>2, <3>3
  <2>3. QED
    BY <2>1, <2>2
<1>7. ASSUME NEW p \in Pids PROVE Recent(p)'
  BY DEF Recent
<1>8. QED
  BY <1>2, <1>3, <1>4, <1>5, <1>6, <1>7

LEMMA LockKeeps ==
  ASSUME IInv, NEW c \in Callers, Lock(c)
  PROVE  IInv'
<1>1. call' \in [Callers -> Calls]
  <2>1. call \in [Callers -> Calls] /\ call[c] \in Calls
    BY DEF IInv, Types
  <2>2. call'[c] \in Calls
    BY <2>1 DEF Lock, Calls, Labels, Looking
  <2>3. QED
    BY <2>1, <2>2 DEF Lock
<1> USE DEF IInv, Types, Calls, Labels, Looking, At, Lock, Inner, worldVars, scanVars, history
<1>2. Types'
  BY <1>1
<1>3. ASSUME NEW d \in Callers PROVE OneLookup(d)'
  BY DEF OneLookup
<1>4. ASSUME NEW d \in Callers PROVE Progress(d)'
  BY DEF Progress
<1>5. ASSUME NEW d \in Callers PROVE Truth(d)'
  BY DEF Truth, Progress, OneLookup
<1>6. ASSUME NEW d \in Callers PROVE SoleIsFound(d)'
  BY DEF SoleIsFound, Truth, Progress, OneLookup
<1>7. ASSUME NEW p \in Pids PROVE Recent(p)'
  BY DEF Recent
<1>8. QED
  BY <1>2, <1>3, <1>4, <1>5, <1>6, <1>7

LEMMA FindNoneKeeps ==
  ASSUME IInv, NEW c \in Callers, At(c, "find"), Holders(call[c].port) = {},
         call' = [call EXCEPT ![c].pc = "done"], mutex' = None, UNCHANGED <<cache, scan>>, Inner
  PROVE  IInv'
<1>1. call' \in [Callers -> Calls]
  <2>1. call \in [Callers -> Calls] /\ call[c] \in Calls
    BY DEF IInv, Types
  <2>2. call'[c] \in Calls
    BY <2>1 DEF Calls, Labels, Looking
  <2>3. QED
    BY <2>1, <2>2 DEF Holders
<1> USE DEF IInv, Types, Calls, Labels, Looking, At, Holders, Inner, worldVars, scanVars, history
<1>2. Types'
  BY <1>1
<1>3. ASSUME NEW d \in Callers PROVE OneLookup(d)'
  BY DEF OneLookup
<1>4. ASSUME NEW d \in Callers PROVE Progress(d)'
  BY DEF Progress
<1>5. ASSUME NEW d \in Callers PROVE Truth(d)'
  BY DEF Truth, Progress, OneLookup
<1>6. ASSUME NEW d \in Callers PROVE SoleIsFound(d)'
  <2>1. CASE d # c
    BY <2>1 DEF SoleIsFound
  <2>2. CASE d = c
    <3>1. ASSUME NEW h \in sole[c] PROVE FALSE
      <4>1. h[1] \in Pids /\ h[2] \in Inodes /\ h \in Pids \X Inodes
        OBVIOUS
      <4>2. h[2] \in fds[h[1]] /\ Port[h[2]] = call[c].port
        BY <4>1 DEF SoleIsFound
      <4>3. QED
        BY <4>1, <4>2
    <3>2. QED
      BY <2>2, <3>1 DEF SoleIsFound
  <2>3. QED
    BY <2>1, <2>2
<1>7. ASSUME NEW p \in Pids PROVE Recent(p)'
  BY DEF Recent
<1>8. QED
  BY <1>2, <1>3, <1>4, <1>5, <1>6, <1>7

LEMMA FindRowKeeps ==
  ASSUME IInv, NEW c \in Callers, At(c, "find"), NEW h \in Holders(call[c].port),
         call' = [call EXCEPT ![c] = [@ EXCEPT !.pc = "cached", !.inode = h[2]]],
         UNCHANGED <<mutex, cache, scan>>, Inner
  PROVE  IInv'
<1>1. call' \in [Callers -> Calls]
  <2>1. call \in [Callers -> Calls] /\ call[c] \in Calls
    BY DEF IInv, Types
  <2>2. call'[c] \in Calls
    BY <2>1 DEF Holders, Calls, Labels, Looking
  <2>3. QED
    BY <2>1, <2>2 DEF Holders
<1> USE DEF IInv, Types, Calls, Labels, Looking, At, Holders, Inner, worldVars, scanVars, history
<1>2. Types'
  BY <1>1
<1>3. ASSUME NEW d \in Callers PROVE OneLookup(d)'
  BY DEF OneLookup
<1>4. ASSUME NEW d \in Callers PROVE Progress(d)'
  BY DEF Progress
<1>5. ASSUME NEW d \in Callers PROVE Truth(d)'
  BY DEF Truth, Progress, OneLookup
<1>6. ASSUME NEW d \in Callers PROVE SoleIsFound(d)'
  BY DEF SoleIsFound, Truth, Progress, OneLookup
<1>7. ASSUME NEW p \in Pids PROVE Recent(p)'
  BY DEF Recent
<1>8. QED
  BY <1>2, <1>3, <1>4, <1>5, <1>6, <1>7

LEMMA FindKeeps == ASSUME IInv, NEW c \in Callers, Find(c) PROVE IInv'
BY FindNoneKeeps, FindRowKeeps, Zenon DEF Find

LEMMA HitKeeps ==
  ASSUME IInv, NEW c \in Callers, Hit(c)
  PROVE  IInv'
<1>1. call' \in [Callers -> Calls]
  <2>1. call \in [Callers -> Calls] /\ call[c] \in Calls
    BY DEF IInv, Types
  <2>2. call'[c] \in Calls
    <3>1. call[c].inode \in Inodes /\ cache[call[c].inode] \in Pids \cup {None}
      BY DEF IInv, Types, Calls, Progress, Hit, At
    <3>2. QED
      BY <2>1, <3>1 DEF Hit, Calls, Labels, Looking
  <2>3. QED
    BY <2>1, <2>2 DEF Hit
<1> USE DEF IInv, Types, Calls, Labels, Looking, At, Hit, Owns, Inner, worldVars, scanVars, history
<1>2. Types'
  BY <1>1
<1>3. ASSUME NEW d \in Callers PROVE OneLookup(d)'
  BY DEF OneLookup
<1>4. ASSUME NEW d \in Callers PROVE Progress(d)'
  BY DEF Progress
<1>5. ASSUME NEW d \in Callers PROVE Truth(d)'
  BY DEF Truth, Progress, OneLookup
<1>6. ASSUME NEW d \in Callers PROVE SoleIsFound(d)'
  BY DEF SoleIsFound, Truth, Progress, OneLookup
<1>7. ASSUME NEW p \in Pids PROVE Recent(p)'
  BY DEF Recent
<1>8. QED
  BY <1>2, <1>3, <1>4, <1>5, <1>6, <1>7

LEMMA MissKeeps ==
  ASSUME IInv, NEW c \in Callers, Miss(c)
  PROVE  IInv'
<1>1. call' \in [Callers -> Calls]
  <2>1. call \in [Callers -> Calls] /\ call[c] \in Calls
    BY DEF IInv, Types
  <2>2. call'[c] \in Calls
    BY <2>1 DEF Miss, Calls, Labels, Looking
  <2>3. QED
    BY <2>1, <2>2 DEF Miss
<1> USE DEF IInv, Types, Calls, Labels, Looking, At, Miss, Owns, NoCache, Inner, worldVars, scanVars, history
<1>2. Types'
  BY <1>1
<1>3. ASSUME NEW d \in Callers PROVE OneLookup(d)'
  BY DEF OneLookup
<1>4. ASSUME NEW d \in Callers PROVE Progress(d)'
  BY DEF Progress
<1>5. ASSUME NEW d \in Callers PROVE Truth(d)'
  BY DEF Truth, Progress, OneLookup
<1>6. ASSUME NEW d \in Callers PROVE SoleIsFound(d)'
  BY DEF SoleIsFound, Truth, Progress, OneLookup
<1>7. ASSUME NEW p \in Pids PROVE Recent(p)'
  BY DEF Recent
<1>8. QED
  BY <1>2, <1>3, <1>4, <1>5, <1>6, <1>7

LEMMA ScanPidKeeps ==
  ASSUME IInv, NEW c \in Callers, ScanPid(c)
  PROVE  IInv'
<1>1. call' \in [Callers -> Calls]
  <2>1. call \in [Callers -> Calls] /\ call[c] \in Calls
    BY DEF IInv, Types
  <2>2. call'[c] \in Calls
    BY <2>1 DEF ScanPid, Calls, Labels, Looking
  <2>3. QED
    BY <2>1, <2>2 DEF ScanPid
<1> USE DEF IInv, Types, Calls, Labels, Looking, At, ScanPid, Inner, worldVars, scanVars, history
<1>2. Types'
  BY <1>1
<1>3. ASSUME NEW d \in Callers PROVE OneLookup(d)'
  BY DEF OneLookup
<1>4. ASSUME NEW d \in Callers PROVE Progress(d)'
  BY DEF Progress
<1>5. ASSUME NEW d \in Callers PROVE Truth(d)'
  BY DEF Truth, Progress, OneLookup
<1>6. ASSUME NEW d \in Callers PROVE SoleIsFound(d)'
  BY DEF SoleIsFound, Truth, Progress, OneLookup
<1>7. ASSUME NEW p \in Pids PROVE Recent(p)'
  BY DEF Recent
<1>8. QED
  BY <1>2, <1>3, <1>4, <1>5, <1>6, <1>7

LEMMA ScanDoneKeeps ==
  ASSUME IInv, NEW c \in Callers, ScanDone(c)
  PROVE  IInv'
<1>1. call' \in [Callers -> Calls]
  <2>1. call \in [Callers -> Calls] /\ call[c] \in Calls
    BY DEF IInv, Types
  <2>2. call'[c] \in Calls
    <3>1. CASE call[c].inode = None
      BY <2>1, <3>1 DEF ScanDone, Idle, Calls, Labels, Looking
    <3>2. CASE call[c].inode # None
      <4>1. scan.map[call[c].inode] \in Pids \cup {None}
        BY <3>2 DEF IInv, Types, Calls
      <4>2. QED
        BY <2>1, <3>2, <4>1 DEF ScanDone, Calls, Labels, Looking
    <3>3. QED
      BY <3>1, <3>2
  <2>3. QED
    BY <2>1, <2>2 DEF ScanDone
<1> USE DEF IInv, Types, Calls, Labels, Looking, At, ScanDone, Idle, Inner, worldVars, scanVars, history
<1>2. Types'
  BY <1>1
<1>3. ASSUME NEW d \in Callers PROVE OneLookup(d)'
  BY DEF OneLookup
<1>4. ASSUME NEW d \in Callers PROVE Progress(d)'
  BY DEF Progress
<1>5. ASSUME NEW d \in Callers PROVE Truth(d)'
  BY DEF Truth, Progress, OneLookup
<1>6. ASSUME NEW d \in Callers PROVE SoleIsFound(d)'
  BY DEF SoleIsFound, Truth, Progress, OneLookup
<1>7. ASSUME NEW p \in Pids PROVE Recent(p)'
  BY DEF Recent
<1>8. QED
  BY <1>2, <1>3, <1>4, <1>5, <1>6, <1>7

LEMMA InfoKeeps ==
  ASSUME IInv, NEW c \in Callers, Info(c)
  PROVE  IInv'
<1>1. call' \in [Callers -> Calls]
  <2>1. call \in [Callers -> Calls] /\ call[c] \in Calls
    BY DEF IInv, Types
  <2>2. call'[c] \in Calls
    <3>1. processes[call[c].pid] \in Binaries \cup {None, Absent}
      BY DEF IInv, Types, Calls, Progress, Info, At
    <3>2. QED
      BY <2>1, <3>1 DEF Info, Calls, Labels, Looking
  <2>3. QED
    BY <2>1, <2>2 DEF Info
<1> USE DEF IInv, Types, Calls, Labels, Looking, At, Info, Inner, worldVars, scanVars, history
<1>2. Types'
  BY <1>1
<1>3. ASSUME NEW d \in Callers PROVE OneLookup(d)'
  BY DEF OneLookup
<1>4. ASSUME NEW d \in Callers PROVE Progress(d)'
  BY DEF Progress
<1>5. ASSUME NEW d \in Callers PROVE Truth(d)'
  BY DEF Truth, Progress, OneLookup
<1>6. ASSUME NEW d \in Callers PROVE SoleIsFound(d)'
  BY DEF SoleIsFound, Truth, Progress, OneLookup
<1>7. ASSUME NEW p \in Pids PROVE Recent(p)'
  BY DEF Recent
<1>8. QED
  BY <1>2, <1>3, <1>4, <1>5, <1>6, <1>7

LEMMA DirectKeeps ==
  ASSUME IInv, NEW c \in Callers, Direct(c)
  PROVE  IInv'
<1>1. call' \in [Callers -> Calls]
  <2>1. call \in [Callers -> Calls] /\ call[c] \in Calls
    BY DEF IInv, Types
  <2>2. call'[c] \in Calls
    <3>1. exeOf[call[c].pid] \in Binaries \cup {None}
      BY DEF IInv, Types, Calls, Progress, Direct, At
    <3>2. QED
      BY <2>1, <3>1 DEF Direct, Calls, Labels, Looking
  <2>3. QED
    BY <2>1, <2>2 DEF Direct
<1> USE DEF IInv, Types, Calls, Labels, Looking, At, Direct, Inner, worldVars, scanVars, history
<1>2. Types'
  BY <1>1
<1>3. ASSUME NEW d \in Callers PROVE OneLookup(d)'
  BY DEF OneLookup
<1>4. ASSUME NEW d \in Callers PROVE Progress(d)'
  BY DEF Progress
<1>5. ASSUME NEW d \in Callers PROVE Truth(d)'
  BY DEF Truth, Progress, OneLookup
<1>6. ASSUME NEW d \in Callers PROVE SoleIsFound(d)'
  BY DEF SoleIsFound, Truth, Progress, OneLookup
<1>7. ASSUME NEW p \in Pids PROVE Recent(p)'
  BY DEF Recent
<1>8. QED
  BY <1>2, <1>3, <1>4, <1>5, <1>6, <1>7

LEMMA ReturnKeeps ==
  ASSUME IInv, NEW c \in Callers, Return(c)
  PROVE  IInv'
<1>1. call' \in [Callers -> Calls]
  <2>1. call \in [Callers -> Calls] /\ call[c] \in Calls
    BY DEF IInv, Types
  <2>2. call'[c] \in Calls
    BY <2>1 DEF Return, Idle, Calls, Labels, Looking
  <2>3. QED
    BY <2>1, <2>2 DEF Return
<1> USE DEF IInv, Types, Calls, Labels, Looking, At, Return, Idle, worldVars, scanVars
<1>2. Types'
  BY <1>1
<1>3. ASSUME NEW d \in Callers PROVE OneLookup(d)'
  BY DEF OneLookup
<1>4. ASSUME NEW d \in Callers PROVE Progress(d)'
  BY DEF Progress
<1>5. ASSUME NEW d \in Callers PROVE Truth(d)'
  BY DEF Truth, Progress, OneLookup
<1>6. ASSUME NEW d \in Callers PROVE SoleIsFound(d)'
  BY DEF SoleIsFound, Truth, Progress, OneLookup
<1>7. ASSUME NEW p \in Pids PROVE Recent(p)'
  BY DEF Recent
<1>8. QED
  BY <1>2, <1>3, <1>4, <1>5, <1>6, <1>7

LEMMA PrimeKeeps == ASSUME IInv, Prime PROVE IInv'
<1>1. call' \in [Callers -> Calls]
  <2>1. call \in [Callers -> Calls] /\ call[Poll] \in Calls
    BY DEF IInv, Types
  <2>2. call'[Poll] \in Calls
    BY <2>1 DEF Prime, Calls, Labels, Looking
  <2>3. QED
    BY <2>1, <2>2 DEF Prime
<1> USE DEF IInv, Types, Calls, Labels, Looking, At, Prime, NoCache, Inner, worldVars, scanVars, history
<1>2. Types'
  BY <1>1
<1>3. ASSUME NEW d \in Callers PROVE OneLookup(d)'
  BY DEF OneLookup
<1>4. ASSUME NEW d \in Callers PROVE Progress(d)'
  BY DEF Progress
<1>5. ASSUME NEW d \in Callers PROVE Truth(d)'
  BY DEF Truth, Progress, OneLookup
<1>6. ASSUME NEW d \in Callers PROVE SoleIsFound(d)'
  BY DEF SoleIsFound, Truth, Progress, OneLookup
<1>7. ASSUME NEW p \in Pids PROVE Recent(p)'
  BY DEF Recent
<1>8. QED
  BY <1>2, <1>3, <1>4, <1>5, <1>6, <1>7

\* Whatever processes and sockets do: what a call saw and what a scan saw stays
\* in the books, and who is no longer alone on a port drops out of sole.
LEMMA WorldKeeps ==
  ASSUME IInv, World,
         exeOf' \in [Pids -> Binaries \cup {None}], fds' \in [Pids -> SUBSET Inodes],
         used' \in SUBSET Inodes,
         scanner' = scanner \/ scanner' = [scanner EXCEPT !.gone = TRUE]
  PROVE  IInv'
<1> USE DEF IInv, Types, World, lookupVars
<1>1. ASSUME NEW c \in Callers, NEW p \in Pids, NEW i \in Inodes
      PROVE  <<p, i>> \in Holders(call[c].port)' <=> i \in fds'[p] /\ Port[i] = call[c].port
  BY DEF Holders
<1>2. ASSUME NEW c \in Callers PROVE Holders(call[c].port)' \subseteq Pids \X Inodes
  BY DEF Holders
<1>3. ASSUME NEW c \in Callers
      PROVE  /\ owners[c] \subseteq owners'[c] \/ call[c].port = None
             /\ owners'[c] \subseteq Pids
  BY <1>2 DEF PidsOf
<1>4. Types'
  <2>1. owners' \in [Callers -> SUBSET Pids]
    BY <1>3
  <2>2. sole' \in [Callers -> SUBSET (Pids \X Inodes)]
    BY <1>2
  <2>3. had' \in [{"now", "last"} -> [Pids -> SUBSET Binaries]]
    OBVIOUS
  <2>4. QED
    BY <2>1, <2>2, <2>3
<1>5. ASSUME NEW c \in Callers PROVE OneLookup(c)' /\ Progress(c)'
  BY DEF OneLookup, Progress
<1>6. ASSUME NEW c \in Callers PROVE Truth(c)'
  <2>1. ASSUME NEW p \in Pids, NEW i \in Inodes, i \in fds'[p], Port[i] = call[c].port
        PROVE  p \in owners'[c]
    <3>1. call[c].port # None
      BY <2>1
    <3>2. <<p, i>> \in Holders(call[c].port)' /\ <<p, i>>[1] = p
      BY <1>1, <2>1
    <3>3. QED
      BY <3>1, <3>2 DEF PidsOf
  <2>2. QED
    BY <1>3, <2>1 DEF Truth, Progress
<1>7. ASSUME NEW c \in Callers PROVE SoleIsFound(c)'
  <2> SUFFICES ASSUME NEW h \in sole'[c] PROVE
         \A p \in Pids, i \in Inodes :
           i \in fds'[p] /\ Port[i] = call[c].port <=> p = h[1] /\ i = h[2]
    BY DEF SoleIsFound
  <2>1. sole'[c] = sole[c] /\ Holders(call[c].port)' = sole[c]
    OBVIOUS
  <2>2. h = <<h[1], h[2]>> /\ h[1] \in Pids /\ h[2] \in Inodes
    BY <2>1
  <2>3. ASSUME NEW p \in Pids, NEW i \in Inodes, <<p, i>> \in sole[c] PROVE p = h[1] /\ i = h[2]
    <3>1. <<p, i>>[1] = p /\ <<p, i>>[2] = i
      OBVIOUS
    <3>2. i \in fds[p] /\ Port[i] = call[c].port
      BY <2>3, <3>1 DEF SoleIsFound
    <3>3. QED
      BY <2>1, <3>2 DEF SoleIsFound
  <2>4. h[2] \in fds'[h[1]] /\ Port[h[2]] = call[c].port
    BY <1>1, <2>1, <2>2
  <2>5. ASSUME NEW p \in Pids, NEW i \in Inodes, i \in fds'[p], Port[i] = call[c].port
        PROVE  p = h[1] /\ i = h[2]
    <3>1. <<p, i>> \in Holders(call[c].port)'
      BY <1>1, <2>5
    <3>2. <<p, i>> \in sole[c]
      BY <2>1, <3>1
    <3>3. QED
      BY <2>3, <3>2
  <2>6. QED
    BY <2>4, <2>5
<1>8. ASSUME NEW p \in Pids PROVE Recent(p)'
  BY DEF Recent
<1>9. QED
  BY <1>4, <1>5, <1>6, <1>7, <1>8

LEMMA ProcessesKeep ==
  ASSUME IInv, NEW p \in Pids, Start(p) \/ Exec(p) \/ OpenSocket(p) \/ CloseSocket(p) \/ Exit(p)
  PROVE  IInv'
<1>1. World
  BY DEF Start, Exec, OpenSocket, CloseSocket, Exit
<1>2. exeOf' \in [Pids -> Binaries \cup {None}] /\ fds' \in [Pids -> SUBSET Inodes]
  <2> USE DEF IInv, Types
  <2>1. CASE Start(p)
    <3>1. exeOf' \in [Pids -> Binaries \cup {None}]
      BY <2>1 DEF Start
    <3>2. fds' = fds \/ \E q \in Pids : fds' = [fds EXCEPT ![p] = fds[q]]
      BY <2>1, Zenon DEF Start
    <3>3. QED
      BY <3>1, <3>2
  <2>2. CASE Exec(p)
    BY <2>2 DEF Exec
  <2>3. CASE OpenSocket(p)
    BY <2>3 DEF OpenSocket
  <2>4. CASE CloseSocket(p)
    BY <2>4 DEF CloseSocket
  <2>5. CASE Exit(p)
    BY <2>5 DEF Exit
  <2>6. QED
    BY <2>1, <2>2, <2>3, <2>4, <2>5
<1>3. used' \in SUBSET Inodes
  BY DEF IInv, Types, Start, Exec, OpenSocket, CloseSocket, Exit
<1>4. scanner' = scanner \/ scanner' = [scanner EXCEPT !.gone = TRUE]
  BY DEF Start, Exec, OpenSocket, CloseSocket, Exit
<1>5. QED
  BY <1>1, <1>2, <1>3, <1>4, WorldKeeps

\* The scanner touches nothing that lookups use.
LEMMA ScannerKeeps ==
  ASSUME IInv, BeginScan \/ HasSocket \/ Inspect \/ Publish
  PROVE  IInv'
<1> DEFINE Scanners == [at : 0..(NumPids + 1), seen : [Pids -> Binaries \cup {None, Absent}],
                        open : BOOLEAN, gone : BOOLEAN]
<1>0. scanner \in Scanners /\ exeOf \in [Pids -> Binaries \cup {None}]
  BY DEF IInv, Types
<1>3. scanner' \in Scanners
  <2>1. CASE BeginScan
    <3>1. scanner' = [scanner EXCEPT !.at = 1] /\ 1 \in 0..(NumPids + 1)
      BY <2>1 DEF BeginScan
    <3>2. QED
      BY <1>0, <3>1, Zenon
  <2>2. CASE HasSocket
    <3>1. CASE scanner' = [scanner EXCEPT !.open = TRUE, !.gone = FALSE]
      BY <1>0, <3>1
    <3>2. CASE scanner' = [scanner EXCEPT !.at = @ + 1] /\ scanner.at \in Pids
      <4>1. scanner.at + 1 \in 0..(NumPids + 1)
        BY <3>2
      <4>2. QED
        BY <1>0, <3>2, <4>1, Zenon
    <3>3. QED
      BY <2>2, <3>1, <3>2 DEF HasSocket
  <2>3. CASE Inspect
    BY <1>0, <2>3 DEF Inspect
  <2>4. CASE Publish
    BY <1>0, <2>4 DEF Publish, Unseen
  <2>5. QED
    BY <2>1, <2>2, <2>3, <2>4
<1> USE DEF IInv, Types, Scanning, worldVars, lookupVars
<1>1. UNCHANGED <<worldVars, lookupVars, owners, sole>>
  BY DEF BeginScan, HasSocket, Inspect, Publish
<1>2. /\ processes' \in [Pids -> Binaries \cup {None, Absent}]
      /\ had' \in [{"now", "last"} -> [Pids -> SUBSET Binaries]]
  <2>1. CASE BeginScan
    <3>1. [p \in Pids |-> {exeOf[p]} \ {None}] \in [Pids -> SUBSET Binaries]
      OBVIOUS
    <3>2. QED
      BY <2>1, <3>1 DEF BeginScan
  <2>2. CASE HasSocket
    BY <2>2 DEF HasSocket
  <2>3. CASE Inspect
    BY <2>3 DEF Inspect
  <2>4. CASE Publish
    BY <2>4 DEF Publish
  <2>5. QED
    BY <2>1, <2>2, <2>3, <2>4
<1>4. ASSUME NEW c \in Callers PROVE OneLookup(c)' /\ Progress(c)' /\ Truth(c)' /\ SoleIsFound(c)'
  BY <1>1 DEF OneLookup, Progress, Truth, SoleIsFound
<1>5. ASSUME NEW p \in Pids PROVE Recent(p)'
  <2>1. CASE BeginScan
    BY <2>1 DEF BeginScan, Recent, Unseen
  <2>2. CASE HasSocket
    BY <2>2 DEF HasSocket, Recent, Unseen
  <2>3. CASE Inspect
    BY <2>3 DEF Inspect, Recent, Unseen
  <2>4. CASE Publish
    BY <2>4 DEF Publish, Recent, Unseen
  <2>5. QED
    BY <2>1, <2>2, <2>3, <2>4
<1>6. QED
  BY <1>1, <1>2, <1>3, <1>4, <1>5

LEMMA StepKeeps == IInv /\ [AttribNext]_attribVars => IInv'
<1> SUFFICES ASSUME IInv, [AttribNext]_attribVars PROVE IInv'
  OBVIOUS
<1>1. CASE UNCHANGED attribVars
  BY <1>1 DEF attribVars, worldVars, lookupVars, scanVars, history, IInv, Types,
     OneLookup, Progress, Truth, SoleIsFound, Recent
<1>2. CASE AttribNext
  <2>1. ASSUME NEW p \in Pids, Start(p) \/ Exec(p) \/ OpenSocket(p) \/ CloseSocket(p) \/ Exit(p) PROVE IInv'
    BY <2>1, ProcessesKeep
  <2>2. ASSUME NEW c \in Callers, NEW port \in Ports, Call(c, port) PROVE IInv'
    BY <2>2, CallKeeps
  <2>3. ASSUME NEW c \in Callers,
               \/ Lock(c) \/ Find(c) \/ Hit(c) \/ Miss(c) \/ ScanPid(c) \/ ScanDone(c)
               \/ Info(c) \/ Direct(c) \/ Return(c)
        PROVE  IInv'
    BY <2>3, LockKeeps, FindKeeps, HitKeeps, MissKeeps, ScanPidKeeps, ScanDoneKeeps,
       InfoKeeps, DirectKeeps, ReturnKeeps
  <2>4. QED
    BY <1>2, <2>1, <2>2, <2>3, PrimeKeeps, ScannerKeeps DEF AttribNext
<1>3. QED
  BY <1>1, <1>2

-----------------------------------------------------------------------------
(* The theorems *)

\* The inductive invariant holds in every reachable state (attrib.rs, procs.rs).
THEOREM Invariance == AttribSpec => []IInv
BY Initially, StepKeeps, PTL DEF AttribSpec

\* The pid a lookup answers with held a socket of the port at some moment of the
\* call, whatever the cache and the rest of /proc were like (attrib.rs:35-46).
THEOREM AnswersTrue == AttribSpec => []AnswersWereTrue
<1>1. IInv => AnswersWereTrue
  BY DEF IInv, Truth, AnswersWereTrue
<1>2. QED
  BY <1>1, Invariance, PTL

\* A process alone on its port during the whole call is the answer (attrib.rs:43-45).
THEOREM OwnerFound == AttribSpec => []OwnerIsFound
<1>1. IInv => OwnerIsFound
  BY DEF IInv, SoleIsFound, OwnerIsFound
<1>2. QED
  BY <1>1, Invariance, PTL

LEMMA RecentStep ==
  ASSUME IInv, [AttribNext]_attribVars, NEW c \in Callers,
         call'[c].pc = "done", call[c].pc # "done", call'[c].exe # None
  PROVE  call'[c].exe \in had.last[call'[c].pid]
<1> USE DEF IInv, Types, Calls
<1>1. Info(c) \/ Direct(c)
  <2>1. UNCHANGED call => FALSE
    OBVIOUS
  <2>2. AttribNext
    BY <2>1 DEF attribVars, lookupVars
  <2>3. ASSUME NEW p \in Pids, Start(p) \/ Exec(p) \/ OpenSocket(p) \/ CloseSocket(p) \/ Exit(p) PROVE FALSE
    BY <2>1, <2>3 DEF Start, Exec, OpenSocket, CloseSocket, Exit, World, lookupVars
  <2>4. BeginScan \/ HasSocket \/ Inspect \/ Publish => FALSE
    BY <2>1 DEF BeginScan, HasSocket, Inspect, Publish, Scanning, lookupVars
  <2>5. ASSUME NEW d \in Callers, NEW port \in Ports, Call(d, port) PROVE FALSE
    BY <2>5 DEF Call
  <2>6. ~Prime
    <3>1. Prime => call'[c].pc \in {call[c].pc, "scan"}
      BY DEF Prime
    <3>2. QED
      BY <3>1
  <2>7. ASSUME NEW d \in Callers, Lock(d) \/ Hit(d) \/ Miss(d) \/ ScanPid(d) \/ Return(d) PROVE FALSE
    <3>1. call'[c].pc \in {call[c].pc, "find", "info", "scan", "idle"}
      <4>1. CASE Lock(d)
        BY <4>1 DEF Lock
      <4>2. CASE Hit(d)
        BY <4>2 DEF Hit
      <4>3. CASE Miss(d) \/ ScanPid(d)
        BY <4>3 DEF Miss, ScanPid
      <4>4. CASE Return(d)
        BY <4>4 DEF Return, Idle
      <4>5. QED
        BY <2>7, <4>1, <4>2, <4>3, <4>4
    <3>2. QED
      BY <3>1
  <2>8. ASSUME NEW d \in Callers, Find(d) PROVE FALSE
    <3>1. call'[c].exe = call[c].exe
      <4>1. CASE call' = [call EXCEPT ![d].pc = "done"]
        BY <4>1
      <4>2. ASSUME NEW h \in Holders(call[d].port),
                   call' = [call EXCEPT ![d] = [@ EXCEPT !.pc = "cached", !.inode = h[2]]]
            PROVE  call'[c].exe = call[c].exe
        BY <4>2
      <4>3. QED
        BY <2>8, <4>1, <4>2, Zenon DEF Find
    <3>2. QED
      BY <3>1 DEF Progress
  <2>9. ASSUME NEW d \in Callers, ScanDone(d) PROVE FALSE
    <3>1. call'[c].exe = None
      BY <2>9 DEF ScanDone, Idle, Progress
    <3>2. QED
      BY <3>1
  <2>10. ASSUME NEW d \in Callers, d # c, Info(d) \/ Direct(d) PROVE FALSE
    BY <2>10 DEF Info, Direct
  <2>11. QED
    BY <2>2, <2>3, <2>4, <2>5, <2>6, <2>7, <2>8, <2>9, <2>10 DEF AttribNext
<1>2. call[c].pid \in Pids
  BY <1>1 DEF Info, Direct, At, Progress
<1>3. CASE Info(c)
  BY <1>1, <1>2, <1>3 DEF Info, At, Recent
<1>4. CASE Direct(c)
  BY <1>1, <1>2, <1>4 DEF Direct, At, Recent
<1>5. QED
  BY <1>1, <1>3, <1>4

\* The executable of an answer ran under that pid since the last published scan
\* began (state.rs:84, procs.rs:52).
THEOREM ExeRecent == AttribSpec => ExeIsRecent
<1>1. IInv /\ [AttribNext]_attribVars
        => [\A c \in Callers :
              call'[c].pc = "done" /\ call[c].pc # "done" /\ call'[c].exe # None
                => call'[c].exe \in had.last[call'[c].pid]]_attribVars
  BY RecentStep
<1>2. QED
  BY <1>1, Invariance, PTL DEF AttribSpec, ExeIsRecent
=============================================================================
