------------------------- MODULE DaemonPartsProofs --------------------------
(*****************************************************************************)
(* Proofs about six parts that meet in no variable: the limiter of the log   *)
(* of blocks, the locks of travelmoded, the command line client, the network *)
(* snapshot, the lists of the GUI's pages and the readers. Each part has an  *)
(* inductive invariant of its own.                                           *)
(*****************************************************************************)
EXTENDS LogThrottle, DaemonLocks, CommandLine, NetSnapshot, Pages, Readers, CollectionProofs

-----------------------------------------------------------------------------
(* The limiter of the log *)

\* The fresh limiter satisfies the inductive invariant.
LEMMA InitIInv == LogInit => IInv
  BY DEF LogInit, IInv, LogTypeOK, Entry, NoEntry, BlocksAreAccountedFor, WindowsFollowLines

\* A line that counts what the entry holds and one more block keeps the books.
LEMMA LineKeepsIInv ==
  ASSUME IInv, NEW k \in Pairs, now' = now, Blocked(k), Line(k, entries[k].suppressed + 1)
  PROVE  IInv'
<1>1. LogTypeOK'
  BY DEF IInv, LogTypeOK, Entry, Blocked, Line
<1>2. BlocksAreAccountedFor'
  BY DEF IInv, LogTypeOK, Entry, Blocked, Line, BlocksAreAccountedFor
<1>3. WindowsFollowLines'
  BY DEF IInv, LogTypeOK, Entry, Blocked, Line, WindowsFollowLines, NoEntry
<1>4. QED
  BY <1>1, <1>2, <1>3 DEF IInv

\* Every step keeps the inductive invariant.
LEMMA NextIInv == IInv /\ [LogNext]_logVars => IInv'
<1>1. SUFFICES ASSUME IInv, [LogNext]_logVars
               PROVE  IInv'
  OBVIOUS
<1>2. CASE Tick
  BY <1>1, <1>2 DEF Tick, IInv, LogTypeOK, BlocksAreAccountedFor, WindowsFollowLines, Numbers
<1>3. ASSUME NEW k \in Pairs, First(k)
      PROVE  IInv'
  <2>1. Line(k, entries[k].suppressed + 1)
    BY <1>3 DEF First, NoEntry
  <2>2. QED
    BY <1>1, <1>3, <2>1, LineKeepsIInv DEF First
<1>4. ASSUME NEW k \in Pairs, Suppress(k)
      PROVE  IInv'
  <2>1. LogTypeOK'
    BY <1>1, <1>4 DEF IInv, LogTypeOK, Entry, Suppress, Blocked
  <2>2. BlocksAreAccountedFor'
    BY <1>1, <1>4 DEF IInv, LogTypeOK, Entry, Suppress, Blocked, BlocksAreAccountedFor
  <2>3. WindowsFollowLines'
    <3>1. entries[k].window_start # -1
      BY <1>1, <1>4 DEF IInv, Suppress, WindowsFollowLines
    <3>2. QED
      BY <1>1, <1>4, <3>1 DEF IInv, LogTypeOK, Entry, Suppress, WindowsFollowLines
  <2>4. QED
    BY <2>1, <2>2, <2>3 DEF IInv
<1>5. ASSUME NEW k \in Pairs, Summary(k)
      PROVE  IInv'
  BY <1>1, <1>5, LineKeepsIInv DEF Summary
<1>6. CASE UNCHANGED logVars
  BY <1>1, <1>6 DEF logVars, IInv, LogTypeOK, BlocksAreAccountedFor, WindowsFollowLines
<1>7. QED
  BY <1>1, <1>2, <1>3, <1>4, <1>5, <1>6 DEF LogNext

\* The inductive invariant holds in every reachable state.
THEOREM Invariance == LogSpec => []IInv
<1>1. IInv /\ [LogNext]_logVars => IInv'
  BY NextIInv
<1>2. QED
  BY InitIInv, <1>1, PTL DEF LogSpec

\* No blocked packet is lost from the log or counted twice, for every set of
\* keys and every window.
THEOREM Accounting == LogSpec => []BlocksAreAccountedFor
<1>1. IInv => BlocksAreAccountedFor
  BY DEF IInv
<1>2. QED
  BY Invariance, <1>1, PTL

LineStep == \A k \in Pairs : covered'[k] # covered[k] =>
              lastLine[k] = -1 \/ now - lastLine[k] >= Window

\* A step that logs a line about a key comes a window after its last line.
LEMMA StepsAreApart == IInv /\ [LogNext]_logVars => [LineStep]_logVars
<1>1. SUFFICES ASSUME IInv, LogNext, NEW k \in Pairs, covered'[k] # covered[k]
               PROVE  lastLine[k] = -1 \/ now - lastLine[k] >= Window
  BY DEF LineStep
<1>2. CASE First(k)
  BY <1>1, <1>2 DEF First, NoEntry, IInv, WindowsFollowLines
<1>3. CASE Summary(k)
  BY <1>1, <1>3, Numbers DEF Summary, InWindow, IInv, LogTypeOK, Entry, WindowsFollowLines
<1>4. ASSUME NEW j \in Pairs, First(j), j # k
      PROVE  FALSE
  BY <1>1, <1>4 DEF First, Line, IInv, LogTypeOK
<1>5. ASSUME NEW j \in Pairs, Summary(j), j # k
      PROVE  FALSE
  BY <1>1, <1>5 DEF Summary, Line, IInv, LogTypeOK
<1>6. QED
  BY <1>1, <1>2, <1>3, <1>4, <1>5 DEF LogNext, Tick, Suppress

\* Two lines about one key are a window apart.
THEOREM RateIsLimited == LogSpec => LinesAreApart
<1>1. IInv /\ [LogNext]_logVars => [LineStep]_logVars
  BY StepsAreApart
<1>2. QED
  BY Invariance, <1>1, PTL DEF LogSpec, LinesAreApart, LineStep

-----------------------------------------------------------------------------
(* The locks.  Every lock but the map of connections is a leaf: what takes it frees
   it before it touches another lock.  The connections are taken by an operation at
   most once, with no leaf held, and freed last.  So whoever holds a leaf is about to
   free it, and whoever holds the connections waits for leaves only. *)

Leaves == Locks \ {"conns"}
Steps == {"excl", "shared", "free"} \X Locks
Takes(x, l) == x = Excl(l) \/ x = Shared(l)
Holds(t) == excl[t] \cup shared[t]

\* Whatever takes a leaf frees it at once.
LeavesFreed(s) ==
  \A i \in 1..Len(s) : \A l \in Leaves :
     Takes(s[i], l) => i + 1 \in 1..Len(s) /\ s[i + 1] = Free(l)

\* No step on the connections.
Leafy(s) == s \in Seq(Steps) /\ LeavesFreed(s) /\ \A i \in 1..Len(s) : s[i][2] # "conns"

ConnsLast(s) == Len(s) \in 1..Len(s) /\ s[Len(s)] = Free("conns")

Ordered(s) ==
  /\ s \in Seq(Steps) /\ LeavesFreed(s)
  /\ \A i \in 1..Len(s) : Takes(s[i], "conns") =>
       ConnsLast(s) /\ \A k \in i + 1..Len(s) : ~Takes(s[k], "conns")

-----------------------------------------------------------------------------
(* The operations are ordered *)

\* The steps on locks.
LEMMA LockNames ==
  ASSUME NEW l \in Locks
  PROVE  Excl(l) \in Steps /\ Shared(l) \in Steps /\ Free(l) \in Steps
BY DEF Excl, Shared, Free, Steps

\* A lock that is taken and freed.
LEMMA LeafyPair ==
  ASSUME NEW l \in Leaves, NEW x \in {Excl(l), Shared(l)}
  PROVE  Leafy(<<x, Free(l)>>)
<1> DEFINE s == <<x, Free(l)>>
<1>1. s \in Seq(Steps) /\ Len(s) = 2 /\ s[1] = x /\ s[2] = Free(l)
  BY LockNames DEF Leaves
<1>2. LeavesFreed(s)
  BY <1>1 DEF LeavesFreed, Takes, Excl, Shared, Free, Leaves
<1>3. \A i \in 1..Len(s) : s[i][2] # "conns"
  BY <1>1 DEF Excl, Shared, Free, Leaves
<1>4. QED
  BY <1>1, <1>2, <1>3 DEF Leafy

\* A mutex held for a statement.
LEMMA BriefPair == ASSUME NEW l \in Leaves PROVE Leafy(Briefly(l))
BY LeafyPair DEF Briefly

\* An operation without a lock.
LEMMA NothingLeafy == Leafy(<<>>)
BY DEF Leafy, LeavesFreed

\* One after the other.
LEMMA Chain ==
  ASSUME NEW a, NEW b, Leafy(a), Leafy(b)
  PROVE  Leafy(a \o b)
<1> DEFINE s == a \o b
<1>1. a \in Seq(Steps) /\ b \in Seq(Steps)
  BY DEF Leafy
<1>2. /\ s \in Seq(Steps) /\ Len(s) = Len(a) + Len(b)
      /\ \A i \in 1..Len(s) : s[i] = IF i <= Len(a) THEN a[i] ELSE b[i - Len(a)]
  BY <1>1
<1>3. LeavesFreed(s)
  <2> HIDE DEF s
  <2> SUFFICES ASSUME NEW i \in 1..Len(s), NEW l \in Leaves, Takes(s[i], l)
               PROVE  i + 1 \in 1..Len(s) /\ s[i + 1] = Free(l)
    BY DEF LeavesFreed
  <2>1. CASE i <= Len(a)
    <3>1. i \in 1..Len(a) /\ s[i] = a[i]
      BY <1>1, <1>2, <2>1
    <3>2. i + 1 \in 1..Len(a) /\ a[i + 1] = Free(l)
      BY <3>1 DEF Leafy, LeavesFreed
    <3>3. QED
      BY <1>1, <1>2, <3>2
  <2>2. CASE i > Len(a)
    <3> DEFINE j == i - Len(a)
    <3>1. j \in 1..Len(b) /\ s[i] = b[j]
      BY <1>1, <1>2, <2>2
    <3> HIDE DEF j
    <3>2. j + 1 \in 1..Len(b) /\ b[j + 1] = Free(l)
      BY <3>1 DEF Leafy, LeavesFreed
    <3>3. j + 1 = (i + 1) - Len(a) /\ i + 1 > Len(a) /\ i + 1 \in 1..Len(s)
      BY <1>1, <1>2, <2>2, <3>2 DEF j
    <3>4. QED
      BY <1>2, <3>2, <3>3
  <2>3. QED
    BY <1>1, <2>1, <2>2
<1>4. \A i \in 1..Len(s) : s[i][2] # "conns"
  BY <1>1, <1>2 DEF Leafy
<1> HIDE DEF s
<1>5. Leafy(s)
  BY <1>2, <1>3, <1>4 DEF Leafy
<1>6. QED BY <1>5 DEF s

\* Without the connections an operation is ordered.
LEMMA LeafyOrdered == ASSUME NEW s, Leafy(s) PROVE Ordered(s)
BY DEF Leafy, Ordered, Takes, Excl, Shared

\* The connections around leaves.
LEMMA Wrap ==
  ASSUME NEW f, Leafy(f), NEW x \in {Excl("conns"), Shared("conns")}
  PROVE  Ordered(<<x>> \o f \o <<Free("conns")>>)
<1> DEFINE s == <<x>> \o f \o <<Free("conns")>>
<1>1. f \in Seq(Steps) /\ x \in Steps /\ Free("conns") \in Steps
  BY LockNames DEF Leafy, Locks
<1>2. /\ s \in Seq(Steps) /\ Len(s) = Len(f) + 2 /\ Len(f) \in Nat
      /\ s[1] = x /\ s[Len(s)] = Free("conns")
      /\ \A i \in 2..Len(s) - 1 : s[i] = f[i - 1]
  BY <1>1
<1> HIDE DEF s
<1>3. LeavesFreed(s)
  <2> SUFFICES ASSUME NEW i \in 1..Len(s), NEW l \in Leaves, Takes(s[i], l)
               PROVE  i + 1 \in 1..Len(s) /\ s[i + 1] = Free(l)
    BY DEF LeavesFreed
  <2>1. i # 1 /\ i # Len(s)
    BY <1>2 DEF Takes, Excl, Shared, Free, Leaves
  <2>2. i - 1 \in 1..Len(f) /\ s[i] = f[i - 1]
    BY <1>2, <2>1
  <2>3. i \in 1..Len(f) /\ f[i] = Free(l)
    BY <2>2 DEF Leafy, LeavesFreed
  <2>4. QED
    BY <1>2, <2>3
<1>4. \A k \in 2..Len(s) : ~Takes(s[k], "conns")
  BY <1>2 DEF Takes, Excl, Shared, Free, Leafy
<1>5. Ordered(s)
  BY <1>2, <1>3, <1>4 DEF Ordered, ConnsLast
<1>6. QED BY <1>5 DEF s

\* Leaves before an ordered operation.
LEMMA Prefix ==
  ASSUME NEW a, NEW b, Leafy(a), Ordered(b)
  PROVE  Ordered(a \o b)
<1> DEFINE s == a \o b
<1>1. a \in Seq(Steps) /\ b \in Seq(Steps)
  BY DEF Leafy, Ordered
<1>2. /\ s \in Seq(Steps) /\ Len(s) = Len(a) + Len(b) /\ Len(a) \in Nat /\ Len(b) \in Nat
      /\ \A i \in 1..Len(s) : s[i] = IF i <= Len(a) THEN a[i] ELSE b[i - Len(a)]
  BY <1>1
<1> HIDE DEF s
<1>3. LeavesFreed(s)
  <2>1. LeavesFreed(a) /\ LeavesFreed(b)
    BY DEF Leafy, Ordered
  <2> SUFFICES ASSUME NEW i \in 1..Len(s), NEW l \in Leaves, Takes(s[i], l)
               PROVE  i + 1 \in 1..Len(s) /\ s[i + 1] = Free(l)
    BY DEF LeavesFreed
  <2>2. CASE i <= Len(a)
    <3>1. i \in 1..Len(a) /\ s[i] = a[i] BY <1>2, <2>2
    <3>2. i + 1 \in 1..Len(a) /\ a[i + 1] = Free(l) BY <2>1, <3>1 DEF LeavesFreed
    <3>3. QED BY <1>2, <3>2
  <2>3. CASE i > Len(a)
    <3> DEFINE j == i - Len(a)
    <3>1. j \in Int /\ 1 <= j /\ j <= Len(b) /\ ~(i <= Len(a)) BY <1>2, <2>3
    <3>2. s[i] = b[j] BY <1>2, <3>1
    <3> HIDE DEF j
    <3>3. j \in 1..Len(b) /\ s[i] = b[j] BY <1>2, <3>1, <3>2
    <3>4. j + 1 \in 1..Len(b) /\ b[j + 1] = Free(l) BY <2>1, <3>3 DEF LeavesFreed
    <3>5. QED BY <1>2, <2>3, <3>3, <3>4 DEF j
  <2>4. QED BY <1>2, <2>2, <2>3
<1>4. ASSUME NEW i \in 1..Len(s), Takes(s[i], "conns")
      PROVE  ConnsLast(s) /\ \A k \in i + 1..Len(s) : ~Takes(s[k], "conns")
  <2>1. i > Len(a)
    BY <1>2, <1>4 DEF Leafy, Takes, Excl, Shared
  <2> DEFINE j == i - Len(a)
  <2>2. j \in 1..Len(b) /\ Takes(b[j], "conns")
    BY <1>2, <1>4, <2>1
  <2>3. ConnsLast(b) /\ \A k \in j + 1..Len(b) : ~Takes(b[k], "conns")
    BY <2>2 DEF Ordered
  <2>4. ConnsLast(s)
    BY <1>2, <2>3 DEF ConnsLast
  <2>5. ASSUME NEW k \in i + 1..Len(s) PROVE ~Takes(s[k], "conns")
    <3>1. s[k] = b[k - Len(a)] /\ k - Len(a) \in j + 1..Len(b)
      BY <1>2, <2>1
    <3>2. QED BY <2>3, <3>1
  <2>6. QED BY <2>4, <2>5
<1>5. Ordered(s)
  BY <1>2, <1>3, <1>4 DEF Ordered
<1>6. QED BY <1>5 DEF s

\* find_pid and the process table: leaves only (state.rs:73-94).
LEMMA AttributeLeafy == ASSUME NEW a \in Attribute PROVE Leafy(a)
<1>1. "attrib" \in Leaves /\ "procs" \in Leaves
  BY DEF Leaves, Locks
<1>2. Leafy(Briefly("attrib")) /\ Leafy(<<Shared("procs"), Free("procs")>>)
  BY <1>1, BriefPair, LeafyPair
<1>3. QED
  BY <1>2, Chain DEF Attribute

\* Whatever a worker, a task or a request does is ordered.
LEMMA OperationsOrdered == ASSUME NEW t, NEW op \in Operations(t) PROVE Ordered(op)
<1>1. {"rules", "log", "procs"} \subseteq Leaves
  BY DEF Leaves, Locks
<1>2. Leafy(Briefly("rules")) /\ Leafy(Briefly("log")) /\ Leafy(<<Shared("procs"), Free("procs")>>)
      /\ Leafy(<<Excl("procs"), Free("procs")>>)
  BY <1>1, BriefPair, LeafyPair
<1>3. ASSUME op \in Decide PROVE Ordered(op)
  <2>1. CASE op = <<>>
    BY <2>1, NothingLeafy, LeafyOrdered
  <2>2. ASSUME NEW a \in Attribute,
               op \in {a, a \o Briefly("rules"), a \o Briefly("rules") \o Briefly("log")}
        PROVE  Ordered(op)
    BY <1>2, <2>2, AttributeLeafy, Chain, LeafyOrdered
  <2>3. QED BY <1>3, <2>1, <2>2 DEF Decide
<1>4. ASSUME op \in PollOnce PROVE Ordered(op)
  <2> DEFINE Lookups == {<<>>} \cup Attribute \cup {a \o b : a \in Attribute, b \in Attribute}
  <2>1. ASSUME NEW a \in Attribute, NEW b \in Attribute PROVE Leafy(a \o b)
    BY AttributeLeafy, Chain
  <2>2. ASSUME NEW f \in Lookups PROVE Leafy(f)
    <3>1. f = <<>> \/ f \in Attribute \/ \E a \in Attribute, b \in Attribute : f = a \o b
      OBVIOUS
    <3>2. CASE f = <<>> BY <3>2, NothingLeafy
    <3>3. CASE f \in Attribute BY <3>3, AttributeLeafy
    <3>4. ASSUME NEW a \in Attribute, NEW b \in Attribute, f = a \o b PROVE Leafy(f)
      BY <2>1, <3>4
    <3>5. QED BY <3>1, <3>2, <3>3, <3>4
  <2>3. PollOnce = {<<Excl("conns")>> \o f \o <<Free("conns")>> : f \in Lookups}
    BY DEF PollOnce
  <2> HIDE DEF Lookups
  <2>4. PICK f \in Lookups : op = <<Excl("conns")>> \o f \o <<Free("conns")>>
    BY <1>4, <2>3
  <2>5. QED BY <2>2, <2>4, Wrap
<1>5. Ordered(KillFlows)
  BY LockNames DEF KillFlows, Ordered, LeavesFreed, ConnsLast, Takes, Excl, Shared, Free, Leaves, Locks
<1>6. Ordered(EnforceSaved) /\ Ordered(AddBlock)
  BY <1>2, <1>5, Prefix DEF EnforceSaved, AddBlock
<1>7. Ordered(GetStatus)
  <2> DEFINE r == <<Shared("conns"), Shared("procs"), Free("procs"), Free("conns")>>
  <2>1. /\ r \in Seq(Steps) /\ Len(r) = 4
        /\ r[1] = Shared("conns") /\ r[2] = Shared("procs")
        /\ r[3] = Free("procs") /\ r[4] = Free("conns")
    BY LockNames DEF Locks
  <2> HIDE DEF r
  <2>2. Ordered(r)
    BY <2>1 DEF Ordered, LeavesFreed, ConnsLast, Takes, Excl, Shared, Free, Leaves
  <2>3. Ordered(Briefly("rules") \o r)
    BY <1>2, <2>2, Prefix
  <2>4. QED BY <2>3 DEF GetStatus, r
<1>8. Ordered(GetTop)
  BY <1>2, Wrap DEF GetTop
<1>9. Ordered(ScanOnce) /\ Ordered(GetProcesses) /\ Ordered(RuleRequest)
  BY <1>2, LeafyOrdered DEF ScanOnce, GetProcesses, RuleRequest
<1>10. Ordered(GetConnections)
  BY <1>5 DEF GetConnections, KillFlows
<1>11. QED
  BY <1>2, <1>3, <1>4, <1>6, <1>5, <1>7, <1>8, <1>9, <1>10, LeafyOrdered DEF Operations

-----------------------------------------------------------------------------
(* The invariant *)

HoldersGoOn(t, s) ==
  /\ \A l \in Leaves \cap Holds(t) : s # <<>> /\ Head(s) = Free(l)
  /\ "conns" \in Holds(t) => ConnsLast(s) /\ \A i \in 1..Len(s) : ~Takes(s[i], "conns")

LocksIInv ==
  /\ todo \in [Lockers -> Seq(Steps)]
  /\ excl \in [Lockers -> SUBSET Locks] /\ shared \in [Lockers -> SUBSET Locks]
  /\ \A t \in Lockers : Ordered(todo[t]) /\ HoldersGoOn(t, todo[t])

\* What is left of an operation after its next step.
LEMMA Rest ==
  ASSUME NEW s, Ordered(s), s # <<>>
  PROVE  /\ Ordered(Tail(s))
         /\ Head(s) \in Steps
         /\ \A l \in Leaves : Takes(Head(s), l) => Tail(s) # <<>> /\ Head(Tail(s)) = Free(l)
         /\ Takes(Head(s), "conns") =>
              ConnsLast(Tail(s)) /\ \A i \in 1..Len(Tail(s)) : ~Takes(Tail(s)[i], "conns")
<1> DEFINE r == Tail(s)
<1>1. s \in Seq(Steps) /\ Len(s) \in Nat \ {0} /\ Head(s) = s[1] /\ Head(s) \in Steps
  BY DEF Ordered
<1>2. /\ r \in Seq(Steps) /\ Len(r) = Len(s) - 1
      /\ \A i \in 1..Len(r) : r[i] = s[i + 1]
  BY <1>1
<1> HIDE DEF r
<1>3. LeavesFreed(r)
  <2> SUFFICES ASSUME NEW i \in 1..Len(r), NEW l \in Leaves, Takes(r[i], l)
               PROVE  i + 1 \in 1..Len(r) /\ r[i + 1] = Free(l)
    BY DEF LeavesFreed
  <2>1. i + 1 \in 1..Len(s) /\ Takes(s[i + 1], l)
    BY <1>1, <1>2
  <2>2. i + 2 \in 1..Len(s) /\ s[i + 2] = Free(l)
    BY <2>1 DEF Ordered, LeavesFreed
  <2>3. QED
    BY <1>1, <1>2, <2>2
<1>4. ASSUME NEW i \in 1..Len(s), Takes(s[i], "conns")
      PROVE  ConnsLast(r) /\ \A k \in i..Len(r) : ~Takes(r[k], "conns")
  <2>1. ConnsLast(s) /\ \A k \in i + 1..Len(s) : ~Takes(s[k], "conns")
    BY <1>4 DEF Ordered
  <2>2. Len(s) # i
    BY <1>4, <2>1 DEF ConnsLast, Takes, Excl, Shared, Free
  <2>3. ConnsLast(r)
    BY <1>1, <1>2, <2>1, <2>2 DEF ConnsLast
  <2>4. ASSUME NEW k \in i..Len(r) PROVE ~Takes(r[k], "conns")
    <3>1. k + 1 \in i + 1..Len(s) /\ r[k] = s[k + 1]
      BY <1>1, <1>2
    <3>2. QED BY <2>1, <3>1
  <2>5. QED BY <2>3, <2>4
<1>5. Ordered(r)
  <2> SUFFICES ASSUME NEW i \in 1..Len(r), Takes(r[i], "conns")
               PROVE  ConnsLast(r) /\ \A k \in i + 1..Len(r) : ~Takes(r[k], "conns")
    BY <1>2, <1>3 DEF Ordered
  <2>1. i + 1 \in 1..Len(s) /\ Takes(s[i + 1], "conns")
    BY <1>1, <1>2
  <2>2. QED
    BY <1>4, <2>1
<1>6. \A l \in Leaves : Takes(Head(s), l) => r # <<>> /\ Head(r) = Free(l)
  <2> SUFFICES ASSUME NEW l \in Leaves, Takes(s[1], l) PROVE r # <<>> /\ Head(r) = Free(l)
    BY <1>1
  <2>1. 2 \in 1..Len(s) /\ s[2] = Free(l)
    BY <1>1 DEF Ordered, LeavesFreed
  <2>2. Len(r) >= 1 /\ r[1] = Free(l)
    BY <1>1, <1>2, <2>1
  <2>3. QED
    BY <1>2, <2>2
<1>7. Takes(Head(s), "conns") => ConnsLast(r) /\ \A i \in 1..Len(r) : ~Takes(r[i], "conns")
  BY <1>1, <1>4
<1>8. QED
  BY <1>1, <1>5, <1>6, <1>7 DEF r

\* A thread that holds the connections still has to free them.
LEMMA Unfinished ==
  ASSUME LocksIInv, NEW t \in Lockers, NEW l \in Holds(t)
  PROVE  Busy(t)
BY DEF LocksIInv, HoldersGoOn, ConnsLast, Busy, Ordered, Leaves, Holds

\* Every step keeps the invariant of the locks.
LEMMA LocksStep == LocksIInv /\ [LockNext]_lockVars => LocksIInv'
<1> SUFFICES ASSUME LocksIInv, [LockNext]_lockVars PROVE LocksIInv'
  OBVIOUS
<1> USE DEF LocksIInv
<1>1. CASE UNCHANGED lockVars
  BY <1>1 DEF lockVars, HoldersGoOn, Holds
<1>2. ASSUME NEW t \in Lockers, Begin(t) PROVE LocksIInv'
  <2>1. PICK op \in Operations(t) \ {<<>>} : todo' = [todo EXCEPT ![t] = op]
    BY <1>2 DEF Begin
  <2>2. Ordered(op) /\ op \in Seq(Steps)
    BY OperationsOrdered DEF Ordered
  <2>3. ~Busy(t) /\ UNCHANGED <<excl, shared>>
    BY <1>2 DEF Begin
  <2>4. Holds(t) = {}
    BY <2>3, Unfinished
  <2>5. \A u \in Lockers : Ordered(todo'[u]) /\ HoldersGoOn(u, todo'[u])
    BY <2>1, <2>2, <2>4 DEF HoldersGoOn
  <2>6. \A u \in Lockers : (HoldersGoOn(u, todo[u]))'
    BY <2>3, <2>5 DEF HoldersGoOn, Holds
  <2>7. QED
    BY <2>1, <2>2, <2>3, <2>5, <2>6
<1>3. ASSUME NEW t \in Lockers, NEW l \in Locks, StepOn(t, l) PROVE LocksIInv'
  <2> DEFINE s == todo[t]
  <2>1. /\ Busy(t) /\ Ordered(s) /\ s # <<>> /\ todo' = [todo EXCEPT ![t] = Tail(s)]
    BY <1>3 DEF StepOn, LockExcl, LockShared, Release, MayExclude, MayShare, Wants, Advance, Busy
  <2>2. Ordered(Tail(s)) /\ Tail(s) \in Seq(Steps)
    BY <2>1, Rest DEF Ordered
  <2>3. /\ excl' \in [Lockers -> SUBSET Locks] /\ shared' \in [Lockers -> SUBSET Locks]
        /\ \A u \in Lockers \ {t} : excl'[u] = excl[u] /\ shared'[u] = shared[u]
    BY <1>3 DEF StepOn, LockExcl, LockShared, Release
  <2>4. \A u \in Lockers \ {t} : (HoldersGoOn(u, todo[u]))'
    BY <2>1, <2>3 DEF HoldersGoOn, Holds
  <2>5. \/ Takes(Head(s), l) /\ Holds(t)' = Holds(t) \cup {l}
        \/ Head(s) = Free(l) /\ Holds(t)' = Holds(t) \ {l}
    BY <1>3 DEF StepOn, LockExcl, LockShared, Release, MayExclude, MayShare, Wants, Holds,
                Takes, Excl, Shared, Free
  <2>6. \A k \in Leaves \cap Holds(t) : k = l /\ Head(s) = Free(l)
    BY <2>1, <2>5 DEF HoldersGoOn, Takes, Excl, Shared, Free
  <2>7. \A k \in Leaves \cap Holds(t)' : Tail(s) # <<>> /\ Head(Tail(s)) = Free(k)
    BY <2>1, <2>5, <2>6, Rest DEF Takes, Excl, Shared, Free
  <2>8. "conns" \in Holds(t)' =>
           ConnsLast(Tail(s)) /\ \A i \in 1..Len(Tail(s)) : ~Takes(Tail(s)[i], "conns")
    <3>1. CASE Takes(Head(s), "conns")
      BY <2>1, <3>1, Rest
    <3>2. CASE ~Takes(Head(s), "conns") /\ "conns" \in Holds(t)'
      <4>1. "conns" \in Holds(t) /\ Head(s) # Free("conns")
        BY <2>5, <3>2 DEF Takes, Excl, Shared, Free
      <4>2. ConnsLast(s) /\ \A i \in 1..Len(s) : ~Takes(s[i], "conns")
        BY <4>1 DEF HoldersGoOn
      <4>3. /\ s \in Seq(Steps) /\ Len(s) \in Nat \ {0} /\ Head(s) = s[1] /\ Len(s) # 1
            /\ Len(Tail(s)) = Len(s) - 1
            /\ \A i \in 1..Len(Tail(s)) : Tail(s)[i] = s[i + 1]
        BY <2>1, <4>1, <4>2 DEF Ordered, ConnsLast
      <4>4. QED
        BY <4>2, <4>3 DEF ConnsLast
    <3>3. QED BY <3>1, <3>2
  <2>9. (HoldersGoOn(t, todo[t]))'
    BY <2>1, <2>7, <2>8 DEF HoldersGoOn
  <2>10. QED
    BY <2>1, <2>2, <2>3, <2>4, <2>9
<1>4. QED
  BY <1>1, <1>2, <1>3 DEF LockNext

-----------------------------------------------------------------------------
(* Nobody waits in a circle *)

\* When nobody is about to free a lock, whoever wants one may have it, or waits for
\* a writer that may.
LEMMA SomebodyGoesOn == LocksIInv => NoDeadlock
<1> SUFFICES ASSUME LocksIInv, NEW t \in Lockers, Busy(t),
                    \A u \in Lockers, k \in Locks : ~Wants(u, "free", k)
             PROVE  \E u \in Lockers, k \in Locks : MayExclude(u, k) \/ MayShare(u, k)
  BY DEF NoDeadlock
<1>1. ASSUME NEW u \in Lockers, Busy(u)
      PROVE  \E k \in Locks : Wants(u, "excl", k) \/ Wants(u, "shared", k)
  <2>1. Head(todo[u]) \in Steps
    BY <1>1, Rest DEF LocksIInv, Busy
  <2>2. QED
    BY <1>1, <2>1 DEF Steps, Wants, Locks
<1>2. \A u \in Lockers : Leaves \cap Holds(u) = {}
  BY DEF LocksIInv, HoldersGoOn, Wants, Busy, Free, Leaves
<1>3. ASSUME NEW k \in Locks, \A u \in Lockers : k \notin Holds(u),
             NEW v \in Lockers, Wants(v, "excl", k) \/ Wants(v, "shared", k)
      PROVE  \E u \in Lockers, m \in Locks : MayExclude(u, m) \/ MayShare(u, m)
  BY <1>3 DEF MayExclude, MayShare, Holds
<1>4. CASE \E v \in Lockers, k \in Leaves : Wants(v, "excl", k) \/ Wants(v, "shared", k)
  BY <1>2, <1>3, <1>4 DEF Leaves
<1>5. CASE \A v \in Lockers, k \in Leaves : ~Wants(v, "excl", k) /\ ~Wants(v, "shared", k)
  <2>1. \A u \in Lockers : Busy(u) => Takes(Head(todo[u]), "conns")
    BY <1>1, <1>5 DEF Leaves, Wants, Takes, Excl, Shared
  <2>2. \A u \in Lockers : "conns" \notin Holds(u)
    <3> SUFFICES ASSUME NEW u \in Lockers, "conns" \in Holds(u) PROVE FALSE
      OBVIOUS
    <3>1. Busy(u) /\ todo[u] \in Seq(Steps) /\ todo[u] # <<>>
      BY Unfinished DEF LocksIInv, Ordered, Busy
    <3>2. 1 \in 1..Len(todo[u]) /\ Head(todo[u]) = todo[u][1]
      BY <3>1
    <3>3. QED
      BY <2>1, <3>1, <3>2 DEF LocksIInv, HoldersGoOn
  <2>3. PICK k \in Locks : Wants(t, "excl", k) \/ Wants(t, "shared", k)
    BY <1>1
  <2>4. k = "conns"
    BY <1>5, <2>3 DEF Leaves
  <2>5. QED
    BY <1>3, <2>2, <2>3, <2>4
<1>6. QED
  BY <1>4, <1>5

\* However many requests are handled at once, somebody can always go on: no circle of
\* waiting threads, also through a writer that keeps readers out (conntrack.rs:80-105,
\* main.rs:173-174, procs.rs:40, main.rs:240-269).
THEOREM DeadlockFree == LockSpec => []NoDeadlock
<1>1. LockInit => LocksIInv
  <2> SUFFICES ASSUME LockInit PROVE LocksIInv
    OBVIOUS
  <2>1. <<>> \in Seq(Steps) /\ Ordered(<<>>)
    BY NothingLeafy, LeafyOrdered
  <2>2. QED
    BY <2>1 DEF LockInit, LocksIInv, HoldersGoOn, Holds
<1>2. QED
  BY <1>1, LocksStep, SomebodyGoesOn, PTL DEF LockSpec

-----------------------------------------------------------------------------
(* The command line client *)

CliSteps == {"shell", "resolve", "send", "wait", "exit"}

\* Past resolve_rule, the rule is about the program that was meant.
Meant == step \in {"send", "wait"} /\ IsRule(cmd) /\ ~ThroughLink => IsMeant(input.exe)

\* An answer of success is only given for what has had its effect.
Answered ==
  /\ step \in {"resolve", "send"} => reply = "none"
  /\ step = "wait" => /\ reply = "Ok" => done
                      /\ cmd.kind = "query" /\ reply \notin {"none", "lost"} => done

CliInv ==
  /\ \A p \in DOMAIN running : running[p] \in Process
  /\ step \in CliSteps
  /\ Meant /\ Answered /\ SuccessMeansDone

\* What was meant does not change while command, program and processes heard of stay.
LEMMA SameMeaning ==
  ASSUME UNCHANGED <<cmd, input, heard>>
  PROVE  /\ IsMeant(input.exe) <=> IsMeant(input.exe)'
         /\ IsRule(cmd) <=> IsRule(cmd)'
         /\ ThroughLink <=> ThroughLink'
<1>1. InPath(cmd.target)' = InPath(cmd.target)
  OBVIOUS
<1>2. Canon(Head(InPath(cmd.target)))' = Canon(Head(InPath(cmd.target)))
  BY <1>1
<1>3. (IsRule(cmd) <=> IsRule(cmd)')
  BY DEF IsRule
<1>4. (ThroughLink <=> ThroughLink')
  BY <1>1 DEF ThroughLink
<1>5. QED
  BY <1>1, <1>2, <1>3, <1>4 DEF IsMeant

\* Every step of the client, the daemon and its surroundings keeps the invariant.
LEMMA CliStep == CliInv /\ [CliNext]_cliVars => CliInv'
<1> SUFFICES ASSUME CliInv, [CliNext]_cliVars PROVE CliInv'
  OBVIOUS
<1> USE DEF CliInv, CliSteps
<1>1. CASE UNCHANGED cliVars
  BY SameMeaning, <1>1 DEF cliVars, Meant, Answered, SuccessMeansDone
<1>2. CASE OtherClient \/ StartDaemon
  BY SameMeaning, <1>2 DEF OtherClient, StartDaemon, ByOthers, Meant, Answered, SuccessMeansDone
<1>3. CASE StopDaemon
  BY SameMeaning, <1>3 DEF StopDaemon, ByOthers, Meant, Answered, SuccessMeansDone
<1>4. CASE ProcessesChange
  <2>1. \A p \in DOMAIN running' : running'[p] \in Process
    BY <1>4 DEF ProcessesChange
  <2>2. QED
    BY SameMeaning, <1>4, <2>1 DEF ProcessesChange, ByOthers, Meant, Answered, SuccessMeansDone
<1>5. CASE TypeCommand
  BY SameMeaning, <1>5 DEF TypeCommand, Daemon, Meant, Answered, SuccessMeansDone, IsRule
<1>6. CASE ResolvePath
  BY SameMeaning, <1>6 DEF ResolvePath, Resolved, Ends, Daemon, Meant, Answered, SuccessMeansDone, IsMeant, IsRule
<1>7. CASE ResolveWhich
  <2>1. /\ cmd.target \in Names /\ InPath(cmd.target) # <<>> /\ input'.exe = Head(InPath(cmd.target))
        /\ step = "resolve" /\ step' = "send" /\ UNCHANGED <<cmd, reply, running>>
    BY <1>7 DEF ResolveWhich, Resolved, Daemon
  <2>2. (InPath(cmd.target) = InPath(cmd.target)') /\ (ThroughLink <=> ThroughLink')
    BY <2>1 DEF ThroughLink
  <2>3. ~ThroughLink => Canon(Head(InPath(cmd.target))) = Head(InPath(cmd.target))
    BY <2>1 DEF ThroughLink, Canon
  <2>4. ~ThroughLink' => IsMeant(input.exe)'
    BY <2>1, <2>2, <2>3 DEF IsMeant, Canon
  <2>5. QED
    BY <2>1, <2>4 DEF Meant, Answered, SuccessMeansDone
<1>8. CASE ResolveProcess
  <2>1. CASE step' = "exit"
    BY <1>8, <2>1 DEF ResolveProcess, Resolved, Ends, Daemon, Meant, Answered, SuccessMeansDone
  <2>2. CASE step' # "exit"
    <3>1. PICK p \in Matches(cmd.target) : Matches(cmd.target) = {p}
      BY <1>8, <2>2 DEF ResolveProcess, Ends
    <3>2. /\ heard' = running /\ input'.exe = running[p].exe /\ step = "resolve" /\ step' = "send"
          /\ cmd' = cmd /\ cmd.target \in Names /\ InPath(cmd.target) = <<>> /\ UNCHANGED reply
      BY <1>8, <2>2, <3>1 DEF ResolveProcess, Resolved, Ends, Daemon
    <3>3. /\ p \in DOMAIN running /\ running[p] = [name |-> cmd.target, exe |-> running[p].exe]
          /\ \A q \in DOMAIN running : running[q].name = cmd.target => q = p
      BY <3>1 DEF Matches, Process
    <3>4. InPath(cmd.target)' = <<>>
      BY <3>2
    <3>5. IsMeant(input.exe)'
      BY <3>2, <3>3, <3>4 DEF IsMeant
    <3>6. UNCHANGED running
      BY <1>8 DEF ResolveProcess, Daemon
    <3>7. QED
      BY <3>2, <3>5, <3>6 DEF Meant, Answered, SuccessMeansDone
  <2>3. QED BY <2>1, <2>2
<1>9. CASE SendRequest
  BY SameMeaning, <1>9 DEF SendRequest, Ends, Daemon, Meant, Answered, SuccessMeansDone
<1>10. CASE Serve
  <2>1. /\ step = "wait" /\ UNCHANGED <<running, cmd, step, input, heard>> /\ done' = TakesEffect
    BY <1>10 DEF Serve
  <2>2. CASE IsRule(cmd)
    <3>1. Stored(input.exe, input.action)
      BY <1>10, <2>2 DEF Serve, IsRule
    <3>2. [id |-> lastId + 1, exe |-> input.exe, action |-> input.action] \in store'
      BY <3>1 DEF Stored
    <3>3. \E r \in store' : r.exe = input.exe /\ r.action = input.action
      BY <3>2
    <3>4. done' /\ cmd.kind # "query"
      BY <2>1, <2>2, <3>3 DEF TakesEffect, IsRule
    <3>5. QED
      BY SameMeaning, <2>1, <3>4 DEF Meant, Answered, SuccessMeansDone
  <2>3. CASE cmd.kind = "remove"
    <3>1. store' = {r \in store : r.id # cmd.target} /\ reply' = IF store' = store THEN "Error" ELSE "Ok"
      BY <1>10, <2>3 DEF Serve, IsRule
    <3>2. ASSUME \A r \in store : r.id # cmd.target PROVE store' = store
      BY <3>1, <3>2
    <3>3. reply' = "Ok" => \E r \in store : r.id = cmd.target
      BY <3>1, <3>2
    <3>4. \A r \in store' : r.id # cmd.target
      BY <3>1
    <3>5. TakesEffect <=> \E r \in store : r.id = cmd.target
      BY <2>3, <3>4 DEF TakesEffect, IsRule
    <3>6. reply' = "Ok" => done'
      BY <2>1, <3>3, <3>5
    <3>7. QED
      BY SameMeaning, <2>1, <2>3, <3>6 DEF Meant, Answered, SuccessMeansDone
  <2>4. CASE cmd.kind \in {"pause", "resume"}
    <3>1. pausing' = (cmd.kind = "pause")
      BY <1>10, <2>4 DEF Serve, IsRule
    <3>2. done'
      BY <2>1, <2>4, <3>1 DEF TakesEffect, IsRule
    <3>3. QED
      BY SameMeaning, <2>1, <2>4, <3>2 DEF Meant, Answered, SuccessMeansDone
  <2>5. CASE cmd.kind \in {"query", "watch"}
    <3>1. reply' \in {"Data", "Event"}
      BY <1>10, <2>5 DEF Serve, IsRule
    <3>2. done'
      BY <2>1, <2>5, <3>1 DEF TakesEffect, IsRule
    <3>3. QED
      BY SameMeaning, <2>1, <2>5, <3>1, <3>2 DEF Meant, Answered, SuccessMeansDone
  <2>6. IsRule(cmd) \/ cmd.kind \in {"remove", "pause", "resume", "query", "watch"}
    BY <1>10 DEF Serve
  <2>7. QED
    BY <2>2, <2>3, <2>4, <2>5, <2>6
<1>11. CASE SimpleRequest
  BY SameMeaning, <1>11 DEF SimpleRequest, Ends, Daemon, Meant, Answered, SuccessMeansDone
<1>12. CASE Query
  BY SameMeaning, <1>12 DEF Query, Ends, Daemon, Meant, Answered, SuccessMeansDone
<1>13. CASE WatchEvent
  BY SameMeaning, <1>13 DEF WatchEvent, Daemon, Meant, Answered, SuccessMeansDone
<1>14. CASE WatchEnds
  BY SameMeaning, <1>14 DEF WatchEnds, Ends, Daemon, Meant, Answered, SuccessMeansDone
<1>15. CASE Prompt
  BY SameMeaning, <1>15 DEF Prompt, Daemon, Meant, Answered, SuccessMeansDone
<1>16. QED
  BY <1>1, <1>2, <1>3, <1>4, <1>5, <1>6, <1>7, <1>8, <1>9, <1>10, <1>11, <1>12, <1>13, <1>14, <1>15
     DEF CliNext

\* An exit status of success means that the store or the pause flag of the daemon has had
\* what was asked, for the program that was meant unless PATH has its name as a link, for
\* any programs, processes, restarts of the daemon and changes by other clients
\* (cli/src/main.rs:74-90, 140-160, 171-218).
THEOREM ExitStatusIsHonest == CliSpec => []SuccessMeansDone
<1>1. CliInit => CliInv
  BY DEF CliInit, CliInv, CliSteps, Meant, Answered, SuccessMeansDone
<1>2. CliInv => SuccessMeansDone
  BY DEF CliInv
<1>3. QED
  BY <1>1, <1>2, CliStep, PTL DEF CliSpec

-----------------------------------------------------------------------------
(* The network snapshot *)

\* IPv4 routes come before IPv6 routes.
InFamilies(rs) == \A i, j \in 1..Len(rs) : i < j => rs[i].v <= rs[j].v

\* Shapes, and how far the loop over the routes can be.
NetTypes ==
  /\ routes \in Seq(Route) /\ InFamilies(routes)
  /\ asked \in Seq(Route) /\ InFamilies(asked)
  /\ looked \in 0..Len(asked)
  /\ stage \in {"links", "addresses", "routes", "choosing", "shown"}

\* What is chosen is the first route with a gateway among those looked at, and
\* its interface is a known one.
Choice ==
  /\ chosen = [gw |-> chosen.gw, name |-> chosen.name]
  /\ chosen.name # NoName => \E i \in DOMAIN ifaces : NameOf[i] = chosen.name
  /\ chosen.gw = NoGateway => /\ \A m \in 1..looked : ~asked[m].gw
                              /\ looked = 0 => chosen.name = NoName
                              /\ looked # 0 => chosen.name = InterfaceOf(asked[looked])
  /\ chosen.gw # NoGateway => /\ chosen.gw \in 1..looked /\ asked[chosen.gw].gw
                              /\ \A m \in 1..(chosen.gw - 1) : ~asked[m].gw
                              /\ chosen.name = InterfaceOf(asked[chosen.gw])

\* Before the route dump nothing is chosen; in the end every route has been looked at,
\* unless a gateway was found.
Progress ==
  /\ stage \in {"links", "addresses", "routes"} => looked = 0 /\ chosen = NoChoice
  /\ stage = "shown" => Enough

\* While nothing changes, what is read is what there is.
Undisturbed ==
  quiet =>
    /\ stage \notin {"links"} => DOMAIN ifaces = DOMAIN given
    /\ stage \in {"routes", "choosing", "shown"} =>
         \A i \in DOMAIN given : /\ ("own" \in ifaces[i]) = (given[i] # "none")
                                 /\ ("peer" \in ifaces[i]) = (given[i] = "peer")
    /\ stage \in {"choosing", "shown"} => asked = routes

NetIInv == NetTypes /\ Choice /\ Progress /\ Undisturbed

\* Without the routes of an interface the order of the rest is the same.
LEMMA FewerRoutes ==
  ASSUME NEW rs \in Seq(Route), InFamilies(rs), NEW keep
  PROVE  Retain(rs, keep) \in Seq(Route) /\ InFamilies(Retain(rs, keep))
<1> DEFINE r == Retain(rs, keep)
<1>1. r \in Seq(Route)
  BY RetainIs
<1>2. \A m, n \in 1..Len(r) : m < n => \E i, j \in 1..Len(rs) : i < j /\ r[m] = rs[i] /\ r[n] = rs[j]
  BY RetainIs
<1> HIDE DEF r
<1>3. InFamilies(r)
  BY <1>2 DEF InFamilies
<1>4. QED
  BY <1>1, <1>3 DEF r

\* With one more route the dump is one of routes.
LEMMA OneMoreRoute ==
  ASSUME NEW rs \in Seq(Route), NEW r \in Route, NEW n \in 0..Len(rs)
  PROVE  InsertAt(rs, n + 1, r) \in Seq(Route)
<1>1. SubSeq(rs, 1, n) \in Seq(Route) /\ SubSeq(rs, n + 1, Len(rs)) \in Seq(Route)
  OBVIOUS
<1>2. InsertAt(rs, n + 1, r) = SubSeq(rs, 1, n) \o <<r>> \o SubSeq(rs, n + 1, Len(rs))
  <2>1. (n + 1) - 1 = n
    OBVIOUS
  <2>2. InsertAt(rs, n + 1, r) = SubSeq(rs, 1, (n + 1) - 1) \o <<r>> \o SubSeq(rs, n + 1, Len(rs))
    BY Zenon DEF InsertAt
  <2>3. QED
    BY <2>1, <2>2, Zenon
<1>3. <<r>> \in Seq(Route)
  OBVIOUS
<1> DEFINE a == SubSeq(rs, 1, n)
           b == SubSeq(rs, n + 1, Len(rs))
<1> HIDE DEF a, b
<1>4. a \o <<r>> \o b \in Seq(Route)
  BY <1>1, <1>3 DEF a, b
<1>5. QED
  BY <1>2, <1>4 DEF a, b

\* Looking at one more route keeps the choice.
LEMMA NextRouteKeeps ==
  ASSUME NetTypes, Choice, NextRoute
  PROVE  Choice' /\ looked' \in 0..Len(asked)
<1> DEFINE n == looked'
<1>1. /\ looked \in Nat /\ n = looked + 1 /\ n \in 1..Len(asked) /\ Len(asked) \in Nat
      /\ \A m \in 1..n : m \in 1..looked \/ m = n
      /\ UNCHANGED <<asked, ifaces>> /\ chosen' = Consider(chosen, n)
  BY DEF NextRoute, NetTypes, Enough
<1>2. \A r : InterfaceOf(r)' = InterfaceOf(r)
  BY <1>1 DEF InterfaceOf
<1>3. \A r : InterfaceOf(r) # NoName => \E i \in DOMAIN ifaces : NameOf[i] = InterfaceOf(r)
  BY DEF InterfaceOf
<1>4. asked[n] \in Route /\ \A m \in 1..Len(asked) : asked[m] \in Route
  BY <1>1 DEF NetTypes
<1> HIDE DEF n
<1>5. CASE chosen.gw = NoGateway
  <2>1. chosen' = Taken(n) /\ \A m \in 1..looked : ~asked[m].gw
    BY <1>1, <1>5 DEF Consider, Choice
  <2>2. /\ chosen' = [gw |-> chosen'.gw, name |-> chosen'.name] /\ chosen'.name = InterfaceOf(asked[n])
        /\ chosen'.gw = IF asked[n].gw THEN n ELSE NoGateway
    BY <2>1 DEF Taken
  <2>3. n # NoGateway /\ \A m \in 1..(n - 1) : m \in 1..looked
    BY <1>1 DEF NoGateway
  <2>4. QED
    BY <1>1, <1>2, <1>3, <2>1, <2>2, <2>3 DEF Choice, n
<1>6. CASE chosen.gw # NoGateway
  <2>1. asked[chosen.gw].v # 4 /\ chosen.gw \in 1..looked /\ chosen.gw < n
    BY <1>1, <1>6 DEF NextRoute, Enough, Choice
  <2>2. asked[n].v # 4
    <3>1. chosen.gw \in 1..Len(asked) /\ asked[chosen.gw].v = 6
      BY <1>1, <1>4, <2>1 DEF Route
    <3>2. asked[chosen.gw].v <= asked[n].v
      BY <1>1, <2>1, <3>1 DEF NetTypes, InFamilies
    <3>3. QED
      BY <3>1, <3>2
  <2>3. chosen' = chosen
    BY <1>1, <1>6, <2>2 DEF Consider
  <2>4. QED
    BY <1>1, <1>2, <1>6, <2>1, <2>3 DEF Choice, n
<1>7. QED
  BY <1>5, <1>6

\* Every step of the snapshot and of the network keeps the invariant.
LEMMA NetStep == NetIInv /\ [NetNext]_netVars => NetIInv'
<1> SUFFICES ASSUME NetIInv, [NetNext]_netVars PROVE NetIInv'
  OBVIOUS
<1> USE DEF NetIInv
<1>1. ASSUME NetChange, routes' \in Seq(Route), InFamilies(routes') PROVE NetIInv'
  <2>1. UNCHANGED <<stage, ifaces, asked, looked, chosen>> /\ quiet' = FALSE
    BY <1>1 DEF NetChange, answer
  <2>2. NetTypes'
    BY <1>1, <2>1 DEF NetTypes, InFamilies
  <2>3. Choice' /\ Progress'
    BY <2>1 DEF Choice, InterfaceOf, Progress, Enough
  <2>4. QED
    BY <2>1, <2>2, <2>3 DEF Undisturbed
<1>2. CASE PlugIn \/ Readdress
  BY <1>1, <1>2 DEF PlugIn, Readdress, NetTypes
<1>3. CASE Unplug
  <2>1. PICK i \in DOMAIN given : routes' = Retain(routes, {r \in ToSet(routes) : r.dev # i})
    BY <1>3 DEF Unplug
  <2>2. routes' \in Seq(Route) /\ InFamilies(routes')
    BY <2>1, FewerRoutes DEF NetTypes
  <2>3. QED
    BY <1>1, <1>3, <2>2 DEF Unplug
<1>4. CASE Reroute
  <2>1. PICK r \in Route, n \in 0..Len(routes) :
          /\ routes' = InsertAt(routes, n + 1, r)
          /\ \A i, j \in DOMAIN routes' : i < j => routes'[i].v <= routes'[j].v
    BY <1>4 DEF Reroute
  <2>2. routes' \in Seq(Route)
    BY <2>1, OneMoreRoute DEF NetTypes
  <2>3. DOMAIN routes' = 1..Len(routes')
    BY <2>2
  <2>4. InFamilies(routes')
    BY <2>1, <2>3 DEF InFamilies
  <2>5. QED
    BY <1>1, <1>4, <2>2, <2>4 DEF Reroute
<1>5. CASE DumpLinks
  <2>1. UNCHANGED <<given, routes, asked, looked, chosen, quiet>> /\ chosen = NoChoice /\ looked = 0
        /\ stage' = "addresses" /\ ifaces' = [i \in DOMAIN given |-> {}]
    BY <1>5 DEF DumpLinks, netWorld, Progress
  <2>2. NetTypes' /\ Progress'
    BY <2>1 DEF NetTypes, InFamilies, Progress
  <2>3. Choice'
    BY <2>1 DEF Choice, NoChoice, NoGateway
  <2>4. Undisturbed'
    BY <2>1 DEF Undisturbed
  <2>5. QED
    BY <2>2, <2>3, <2>4
<1>6. CASE DumpAddresses
  <2>1. /\ UNCHANGED <<given, routes, asked, looked, chosen, quiet>> /\ chosen = NoChoice /\ looked = 0
        /\ stage = "addresses" /\ stage' = "routes"
        /\ ifaces' = [i \in DOMAIN ifaces |-> IF i \in DOMAIN given THEN Listed(given[i]) ELSE {}]
    BY <1>6 DEF DumpAddresses, netWorld, Progress
  <2>2. NetTypes' /\ Progress'
    BY <2>1 DEF NetTypes, InFamilies, Progress
  <2>3. Choice'
    BY <2>1 DEF Choice, NoChoice, NoGateway
  <2>4. Undisturbed'
    <3>1. \A g : ("own" \in Listed(g)) = (g # "none") /\ ("peer" \in Listed(g)) = (g = "peer")
      BY DEF Listed
    <3>2. ASSUME quiet PROVE /\ DOMAIN ifaces' = DOMAIN given
                             /\ \A i \in DOMAIN given :
                                  /\ ("own" \in ifaces'[i]) = (given[i] # "none")
                                  /\ ("peer" \in ifaces'[i]) = (given[i] = "peer")
      BY <2>1, <3>1, <3>2 DEF Undisturbed
    <3>3. QED
      BY <2>1, <3>2 DEF Undisturbed
  <2>5. QED
    BY <2>2, <2>3, <2>4
<1>7. CASE DumpRoutes
  <2>1. /\ UNCHANGED <<given, routes, ifaces, looked, chosen, quiet>> /\ chosen = NoChoice /\ looked = 0
        /\ stage = "routes" /\ stage' = "choosing" /\ asked' = routes
    BY <1>7 DEF DumpRoutes, netWorld, Progress
  <2>2. NetTypes' /\ Progress'
    BY <2>1 DEF NetTypes, InFamilies, Progress
  <2>3. Choice'
    BY <2>1 DEF Choice, NoChoice, NoGateway
  <2>4. Undisturbed'
    BY <2>1 DEF Undisturbed
  <2>5. QED
    BY <2>2, <2>3, <2>4
<1>8. CASE NextRoute
  <2>1. /\ UNCHANGED <<given, routes, ifaces, asked, quiet, stage>> /\ stage = "choosing"
    BY <1>8 DEF NextRoute, netWorld
  <2>2. Choice' /\ looked' \in 0..Len(asked)
    BY <1>8, NextRouteKeeps
  <2>3. NetTypes' /\ Progress' /\ Undisturbed'
    BY <2>1, <2>2 DEF NetTypes, InFamilies, Progress, Undisturbed
  <2>4. QED
    BY <2>2, <2>3
<1>9. CASE Answer
  <2>1. /\ UNCHANGED <<given, routes, ifaces, asked, looked, chosen, quiet>>
        /\ stage = "choosing" /\ stage' = "shown" /\ Enough
    BY <1>9 DEF Answer, netWorld
  <2>2. NetTypes' /\ Choice' /\ Progress' /\ Undisturbed'
    BY <2>1 DEF NetTypes, InFamilies, Choice, InterfaceOf, Progress, Enough, Undisturbed
  <2>3. QED
    BY <2>2
<1>10. CASE DumpFails \/ Refresh30s
  <2>1. /\ UNCHANGED routes /\ asked' = <<>> /\ looked' = 0 /\ chosen' = NoChoice
        /\ \/ stage' = "shown" /\ quiet' = FALSE
           \/ stage' = "links"
    BY <1>10 DEF DumpFails, Refresh30s, NoAnswer, netWorld
  <2>2. <<>> \in Seq(Route) /\ Len(<<>>) = 0
    OBVIOUS
  <2>3. NetTypes'
    BY <2>1, <2>2 DEF NetTypes, InFamilies
  <2>4. Choice' /\ Progress'
    BY <2>1, <2>2 DEF Choice, NoChoice, NoGateway, Progress, Enough
  <2>5. Undisturbed'
    BY <2>1 DEF Undisturbed
  <2>6. QED
    BY <2>3, <2>4, <2>5
<1>11. CASE UNCHANGED netVars
  <2>1. UNCHANGED <<given, routes, ifaces, asked, looked, chosen, quiet, stage>>
    BY <1>11 DEF netVars, netWorld, answer
  <2>2. NetTypes' /\ Choice' /\ Progress' /\ Undisturbed'
    BY <2>1 DEF NetTypes, InFamilies, Choice, InterfaceOf, Progress, Enough, Undisturbed
  <2>3. QED
    BY <2>2
<1>12. QED
  BY <1>2, <1>3, <1>4, <1>5, <1>6, <1>7, <1>8, <1>9, <1>10, <1>11 DEF NetNext

\* Gateway and primary interface are those of the first default route with a gateway, and
\* an interface of the answer, whatever changes between the three dumps; without any
\* gateway the interface is that of the last route; and a snapshot that nothing disturbs has
\* the routes and every interface with its addresses and its peer's and no others, for any
\* interfaces and routes (netinfo.rs:46-142).
THEOREM SnapshotIsCoherent == NetSpec => []SnapshotHangsTogether
<1>1. NetInit => NetIInv
  <2> SUFFICES ASSUME NetInit PROVE NetIInv
    OBVIOUS
  <2>1. /\ routes = <<>> /\ asked = <<>> /\ looked = 0 /\ chosen = NoChoice /\ stage = "links"
    BY DEF NetInit
  <2>2. NetTypes /\ Choice /\ Progress /\ Undisturbed
    BY <2>1 DEF NetTypes, InFamilies, Choice, NoChoice, NoGateway, Progress, Undisturbed
  <2>3. QED
    BY <2>2 DEF NetIInv
<1>2. NetIInv => SnapshotHangsTogether
  <2> SUFFICES ASSUME NetIInv, stage = "shown"
               PROVE  /\ chosen.name # NoName => \E i \in DOMAIN ifaces : NameOf[i] = chosen.name
                      /\ chosen.gw # NoGateway =>
                           /\ chosen.name = InterfaceOf(asked[chosen.gw])
                           /\ chosen.gw \in FirstGateway(asked)
                      /\ chosen.gw = NoGateway =>
                           /\ \A n \in DOMAIN asked : ~asked[n].gw
                           /\ chosen.name = IF asked = <<>> THEN NoName
                                            ELSE InterfaceOf(asked[Len(asked)])
                      /\ quiet => /\ asked = routes /\ DOMAIN ifaces = DOMAIN given
                                  /\ \A i \in DOMAIN given :
                                       /\ ("own" \in ifaces[i]) = (given[i] # "none")
                                       /\ ("peer" \in ifaces[i]) = (given[i] = "peer")
    BY DEF SnapshotHangsTogether
  <2>1. chosen.gw # NoGateway => chosen.gw \in FirstGateway(asked)
    BY DEF NetIInv, NetTypes, Choice, FirstGateway
  <2>2. ASSUME chosen.gw = NoGateway
        PROVE  /\ \A n \in DOMAIN asked : ~asked[n].gw
               /\ chosen.name = IF asked = <<>> THEN NoName ELSE InterfaceOf(asked[Len(asked)])
    <3>1. /\ looked = Len(asked) /\ asked \in Seq(Route)
          /\ \A m \in 1..looked : ~asked[m].gw
          /\ looked = 0 => chosen.name = NoName
          /\ looked # 0 => chosen.name = InterfaceOf(asked[looked])
      BY <2>2 DEF NetIInv, NetTypes, Choice, Progress, Enough
    <3>2. (asked = <<>>) = (Len(asked) = 0) /\ DOMAIN asked = 1..Len(asked)
      BY <3>1
    <3>3. QED
      BY <3>1, <3>2
  <2>3. QED
    BY <2>1, <2>2 DEF NetIInv, Choice, Undisturbed
<1>3. QED
  BY <1>1, <1>2, NetStep, PTL DEF NetSpec

-----------------------------------------------------------------------------
(* The lists of the pages *)

\* The lists hold the rows and nothing else, in every phase: a widget is that of
\* one row, and a section knows the sort keys of exactly the rows that are in it.
Here(s) == {k \in DOMAIN rows : rows[k].group = s}
HoldsRows(s) ==
  /\ sections[s].children = {rows[k].widget : k \in Here(s)}
  /\ DOMAIN (sections[s].keys) = sections[s].children
  /\ \A k \in Here(s) : sections[s].keys[rows[k].widget] = k
RowsAreListed ==
  /\ \A k, l \in DOMAIN rows : rows[k].widget = rows[l].widget => k = l
  /\ \A s \in Sections : HoldsRows(s)

\* What a pass has visited is as the state wants it.
AsWanted(k) == k \in DOMAIN rows /\ rows[k].group = st[k].group /\ rows[k].bytes = st[k].bytes
PassesVisitAll ==
  /\ phase = "drop"  => due = DOMAIN rows \ DOMAIN st
  /\ phase = "place" => /\ DOMAIN rows \subseteq DOMAIN st /\ due \subseteq DOMAIN st
                        /\ \A k \in DOMAIN st \ due : AsWanted(k)
  /\ phase = "sort"  => /\ DOMAIN rows = DOMAIN st
                        /\ \A k \in DOMAIN st : AsWanted(k)
                        /\ \A s \in Sections \ due : arranged[s] \in Arrangements(sections[s])

PageTypes ==
  /\ st \in States
  /\ IsFiniteSet(DOMAIN rows) /\ DOMAIN rows \subseteq Items
  /\ \A k \in DOMAIN rows : rows[k] \in [widget : Widgets, group : Sections, bytes : Traffic]
  /\ DOMAIN sections = Sections /\ DOMAIN arranged = Sections
  /\ phase \in {"drop", "place", "sort"}
PagesInv == PageTypes /\ RowsAreListed /\ PassesVisitAll

\* What a state is.
LEMMA StateIs ==
  ASSUME NEW new \in States
  PROVE  /\ DOMAIN new \subseteq Items /\ IsFiniteSet(DOMAIN new)
         /\ \A k \in DOMAIN new : new[k] \in [group : Sections, bytes : Traffic]
<1>1. PICK K \in SUBSET Items : new \in [K -> [group : Sections, bytes : Traffic]]
  BY DEF States
<1>2. QED
  BY <1>1 DEF States

\* The row of what has left the state goes, and its sort key with it.
LEMMA DropKeeps ==
  ASSUME PageTypes, RowsAreListed, NEW k \in DOMAIN rows, DropStale(k)
  PROVE  /\ RowsAreListed'
         /\ DOMAIN rows' = DOMAIN rows \ {k} /\ \A l \in DOMAIN rows' : rows'[l] = rows[l]
         /\ DOMAIN sections' = Sections
<1> DEFINE g == rows[k].group
           w == rows[k].widget
<1>1. g \in Sections /\ DOMAIN sections = Sections
  BY DEF PageTypes
<1>2. DOMAIN rows' = DOMAIN rows \ {k} /\ \A l \in DOMAIN rows' : rows'[l] = rows[l]
  BY DEF DropStale, Restrict
<1>3. /\ DOMAIN sections' = Sections
      /\ sections'[g] = Removed(sections[g], w)
      /\ \A s \in Sections \ {g} : sections'[s] = sections[s]
  BY <1>1 DEF DropStale
<1>4. /\ sections'[g].children = sections[g].children \ {w}
      /\ DOMAIN sections'[g].keys = DOMAIN sections[g].keys \ {w}
      /\ \A v \in DOMAIN sections[g].keys \ {w} : sections'[g].keys[v] = sections[g].keys[v]
  BY <1>3 DEF Removed, Restrict
<1>5. ASSUME NEW s \in Sections PROVE HoldsRows(s)'
  <2>1. HoldsRows(s)
    BY DEF RowsAreListed
  <2>2. Here(s)' = Here(s) \ {k}
    BY <1>2 DEF Here
  <2>3. CASE s = g
    <3>1. \A l \in Here(s) \ {k} : rows'[l] = rows[l] /\ rows[l].widget # w
      BY <1>2 DEF RowsAreListed, Here
    <3>2. k \in Here(s)
      BY <2>3 DEF Here
    <3> HIDE DEF w
    <3>3. w = rows[k].widget
      BY DEF w
    <3>4. sections'[s].children = {rows'[l].widget : l \in Here(s)'}
      BY <1>4, <2>1, <2>2, <2>3, <3>1, <3>2, <3>3 DEF HoldsRows
    <3>5. DOMAIN sections'[s].keys = sections'[s].children
      BY <1>4, <2>1, <2>3 DEF HoldsRows
    <3>6. \A l \in Here(s)' : sections'[s].keys[rows'[l].widget] = l
      BY <1>4, <2>1, <2>2, <2>3, <3>1 DEF HoldsRows
    <3>7. QED
      BY <3>4, <3>5, <3>6 DEF HoldsRows
  <2>4. CASE s # g
    <3>1. Here(s)' = Here(s) /\ sections'[s] = sections[s]
      BY <1>3, <2>2, <2>4 DEF Here
    <3>2. \A l \in Here(s) : rows'[l] = rows[l]
      BY <1>2, <2>2, <3>1 DEF Here
    <3>3. {rows[l].widget : l \in Here(s)} = {rows'[l].widget : l \in Here(s)'}
      BY <3>1, <3>2
    <3>4. \A l \in Here(s)' : sections'[s].keys[rows'[l].widget] = l
      BY <2>1, <3>1, <3>2 DEF HoldsRows
    <3>5. sections'[s].children = {rows'[l].widget : l \in Here(s)'}
      BY <2>1, <3>1, <3>3 DEF HoldsRows
    <3>6. DOMAIN (sections'[s].keys) = sections'[s].children
      BY <2>1, <3>1 DEF HoldsRows
    <3>7. QED
      BY <3>4, <3>5, <3>6 DEF HoldsRows
  <2>5. QED
    BY <2>3, <2>4
<1>6. QED
  BY <1>2, <1>3, <1>5 DEF RowsAreListed

\* A row that stays has its place and a new sort key.
LEMMA StayKeeps ==
  ASSUME PageTypes, RowsAreListed, NEW k \in DOMAIN st, Stay(k)
  PROVE  /\ RowsAreListed' /\ DOMAIN rows' = DOMAIN rows /\ k \in DOMAIN rows
         /\ \A l \in DOMAIN rows \ {k} : rows'[l] = rows[l]
         /\ rows'[k] = [widget |-> rows[k].widget, group |-> st[k].group, bytes |-> st[k].bytes]
<1>1. k \in DOMAIN rows /\ rows' = [rows EXCEPT ![k].bytes = st[k].bytes] /\ sections' = sections
      /\ rows[k].group = st[k].group
  BY DEF Stay
<1>2. rows[k] \in [widget : Widgets, group : Sections, bytes : Traffic]
  BY <1>1 DEF PageTypes
<1>3. /\ DOMAIN rows' = DOMAIN rows
      /\ \A l \in DOMAIN rows \ {k} : rows'[l] = rows[l]
      /\ rows'[k] = [rows[k] EXCEPT !.bytes = st[k].bytes]
  BY <1>1
<1>4. rows'[k] = [widget |-> rows[k].widget, group |-> st[k].group, bytes |-> st[k].bytes]
  BY <1>1, <1>2, <1>3
<1>5. \A l \in DOMAIN rows : rows'[l].widget = rows[l].widget /\ rows'[l].group = rows[l].group
  BY <1>1, <1>3, <1>4
<1>6. ASSUME NEW s \in Sections PROVE HoldsRows(s)'
  <2>1. Here(s)' = Here(s) /\ HoldsRows(s)
    BY <1>3, <1>5 DEF Here, RowsAreListed
  <2>2. \A l \in Here(s) : rows'[l].widget = rows[l].widget
    BY <1>5 DEF Here
  <2>3. QED
    BY <1>1, <2>1, <2>2 DEF HoldsRows
<1>7. QED
  BY <1>1, <1>3, <1>4, <1>5, <1>6 DEF RowsAreListed

\* A moved row's widget and sort key leave one section for another.
LEMMA MoveKeeps ==
  ASSUME PageTypes, RowsAreListed, NEW k \in DOMAIN st, Move(k)
  PROVE  /\ RowsAreListed' /\ DOMAIN rows' = DOMAIN rows /\ k \in DOMAIN rows
         /\ \A l \in DOMAIN rows \ {k} : rows'[l] = rows[l]
         /\ rows'[k] = [widget |-> rows[k].widget, group |-> st[k].group, bytes |-> st[k].bytes]
         /\ DOMAIN sections' = Sections
<1> DEFINE g == rows[k].group
           h == st[k].group
           w == rows[k].widget
<1>1. /\ k \in DOMAIN rows /\ g # h /\ w = rows[k].widget
      /\ rows' = [rows EXCEPT ![k].group = h, ![k].bytes = st[k].bytes]
      /\ sections' = [sections EXCEPT ![g] = Removed(@, w), ![h] = Inserted(@, w, k)]
  BY DEF Move, MovesWidget
<1>2. rows[k] \in [widget : Widgets, group : Sections, bytes : Traffic]
      /\ g \in Sections /\ h \in Sections /\ DOMAIN sections = Sections
  BY <1>1, StateIs DEF PageTypes
<1> HIDE DEF g, h, w
<1>3. /\ DOMAIN rows' = DOMAIN rows
      /\ \A l \in DOMAIN rows \ {k} : rows'[l] = rows[l]
      /\ rows'[k] = [rows[k] EXCEPT !.group = h, !.bytes = st[k].bytes]
  BY <1>1
<1>4. rows'[k] = [widget |-> w, group |-> h, bytes |-> st[k].bytes]
  BY <1>1, <1>2, <1>3
<1>5. /\ DOMAIN sections' = Sections
      /\ sections'[g] = Removed(sections[g], w)
      /\ sections'[h] = Inserted(sections[h], w, k)
      /\ \A s \in Sections \ {g, h} : sections'[s] = sections[s]
  BY <1>1, <1>2
<1>6. /\ sections'[g].children = sections[g].children \ {w}
      /\ DOMAIN (sections'[g].keys) = DOMAIN (sections[g].keys) \ {w}
      /\ \A v \in DOMAIN (sections[g].keys) \ {w} : sections'[g].keys[v] = sections[g].keys[v]
  BY <1>5 DEF Removed, Restrict
<1>7. /\ sections'[h].children = sections[h].children \cup {w}
      /\ DOMAIN (sections'[h].keys) = DOMAIN (sections[h].keys) \cup {w}
      /\ sections'[h].keys[w] = k
      /\ \A v \in DOMAIN (sections[h].keys) \ {w} : sections'[h].keys[v] = sections[h].keys[v]
  BY <1>5 DEF Inserted, Put
<1>8. \A l \in DOMAIN rows \ {k} : rows'[l] = rows[l] /\ rows[l].widget # w
  BY <1>1, <1>3 DEF RowsAreListed
<1>9. ASSUME NEW s \in Sections PROVE HoldsRows(s)'
  <2>1. HoldsRows(s)
    BY DEF RowsAreListed
  <2>2. CASE s = g
    <3>1. k \in Here(s) /\ Here(s)' = Here(s) \ {k}
      BY <1>1, <1>3, <1>4, <2>2 DEF Here, g
    <3>2. \A l \in Here(s)' : rows'[l] = rows[l] /\ rows[l].widget # w
      BY <1>8, <3>1 DEF Here
    <3>3. sections'[s].children = {rows'[l].widget : l \in Here(s)'}
      <4>1. w = rows[k].widget
        BY DEF w
      <4>2. QED
        BY <1>6, <2>1, <2>2, <3>1, <3>2, <4>1 DEF HoldsRows
    <3>4. DOMAIN (sections'[s].keys) = sections'[s].children
      BY <1>6, <2>1, <2>2 DEF HoldsRows
    <3>5. \A l \in Here(s)' : sections'[s].keys[rows'[l].widget] = l
      BY <1>6, <2>1, <2>2, <3>1, <3>2 DEF HoldsRows
    <3>6. QED
      BY <3>3, <3>4, <3>5 DEF HoldsRows
  <2>3. CASE s = h
    <3>1. k \notin Here(s) /\ Here(s)' = Here(s) \cup {k}
      BY <1>1, <1>3, <1>4, <2>3 DEF Here, g
    <3>2. rows'[k].widget = w /\ \A l \in Here(s) : rows'[l] = rows[l] /\ rows[l].widget # w
      BY <1>4, <1>8, <3>1 DEF Here
    <3>3. sections'[s].children = {rows'[l].widget : l \in Here(s)'}
      BY <1>7, <2>1, <2>3, <3>1, <3>2 DEF HoldsRows
    <3>4. DOMAIN (sections'[s].keys) = sections'[s].children
      BY <1>7, <2>1, <2>3 DEF HoldsRows
    <3>5. \A l \in Here(s)' : sections'[s].keys[rows'[l].widget] = l
      BY <1>7, <2>1, <2>3, <3>1, <3>2 DEF HoldsRows
    <3>6. QED
      BY <3>3, <3>4, <3>5 DEF HoldsRows
  <2>4. CASE s \notin {g, h}
    <3>1. Here(s)' = Here(s) /\ k \notin Here(s) /\ sections'[s] = sections[s]
      BY <1>1, <1>3, <1>4, <1>5, <2>4 DEF Here, g
    <3>2. \A l \in Here(s) : rows'[l] = rows[l]
      BY <1>3, <3>1 DEF Here
    <3>3. {rows[l].widget : l \in Here(s)} = {rows'[l].widget : l \in Here(s)'}
      BY <3>1, <3>2
    <3>4. QED
      BY <2>1, <3>1, <3>2, <3>3 DEF HoldsRows
  <2>5. QED
    BY <2>2, <2>3, <2>4
<1>10. \A l \in DOMAIN rows : rows'[l].widget = rows[l].widget
  BY <1>3, <1>4 DEF w
<1>11. QED
  BY <1>1, <1>3, <1>4, <1>5, <1>9, <1>10 DEF RowsAreListed, h

\* A new row has a widget that no other row has, though one may have had it before.
LEMMA CreateKeeps ==
  ASSUME PageTypes, RowsAreListed, NEW k \in DOMAIN st, Create(k)
  PROVE  /\ RowsAreListed' /\ DOMAIN rows' = DOMAIN rows \cup {k}
         /\ \A l \in DOMAIN rows \ {k} : rows'[l] = rows[l]
         /\ \E w \in Widgets :
              rows'[k] = [widget |-> w, group |-> st[k].group, bytes |-> st[k].bytes]
         /\ DOMAIN sections' = Sections
<1> DEFINE h == st[k].group
<1>1. PICK w \in Widgets :
        /\ \A l \in DOMAIN rows : rows[l].widget # w
        /\ rows' = Put(rows, k, [widget |-> w, group |-> h, bytes |-> st[k].bytes])
        /\ sections' = [sections EXCEPT ![h] = Inserted(@, w, k)]
  BY DEF Create
<1>2. k \notin DOMAIN rows /\ h \in Sections /\ DOMAIN sections = Sections
  BY StateIs DEF PageTypes, Create
<1> HIDE DEF h
<1>3. /\ DOMAIN rows' = DOMAIN rows \cup {k}
      /\ \A l \in DOMAIN rows : rows'[l] = rows[l]
      /\ rows'[k] = [widget |-> w, group |-> h, bytes |-> st[k].bytes]
  <2> DEFINE row == [widget |-> w, group |-> h, bytes |-> st[k].bytes]
  <2>1. rows' = Put(rows, k, row)
    BY <1>1
  <2> HIDE DEF row
  <2>2. /\ DOMAIN rows' = DOMAIN rows \cup {k} /\ rows'[k] = row
        /\ \A l \in DOMAIN rows \ {k} : rows'[l] = rows[l]
    BY <2>1 DEF Put
  <2>3. QED
    BY <1>2, <2>2 DEF row
<1>4. /\ DOMAIN sections' = Sections
      /\ sections'[h] = Inserted(sections[h], w, k)
      /\ \A s \in Sections \ {h} : sections'[s] = sections[s]
  BY <1>1, <1>2
<1>5. /\ sections'[h].children = sections[h].children \cup {w}
      /\ DOMAIN (sections'[h].keys) = DOMAIN (sections[h].keys) \cup {w}
      /\ sections'[h].keys[w] = k
      /\ \A v \in DOMAIN (sections[h].keys) \ {w} : sections'[h].keys[v] = sections[h].keys[v]
  BY <1>4 DEF Inserted, Put
<1>6. ASSUME NEW s \in Sections PROVE HoldsRows(s)'
  <2>1. HoldsRows(s)
    BY DEF RowsAreListed
  <2>2. k \notin Here(s) /\ \A l \in Here(s) : rows'[l] = rows[l] /\ rows[l].widget # w
    BY <1>1, <1>2, <1>3 DEF Here
  <2>3. CASE s = h
    <3>1. Here(s)' = Here(s) \cup {k} /\ rows'[k].widget = w
      BY <1>2, <1>3, <2>3 DEF Here
    <3>2. sections'[s].children = {rows'[l].widget : l \in Here(s)'}
      BY <1>5, <2>1, <2>2, <2>3, <3>1 DEF HoldsRows
    <3>3. DOMAIN (sections'[s].keys) = sections'[s].children
      BY <1>5, <2>1, <2>3 DEF HoldsRows
    <3>4. \A l \in Here(s)' : sections'[s].keys[rows'[l].widget] = l
      BY <1>5, <2>1, <2>2, <2>3, <3>1 DEF HoldsRows
    <3>5. QED
      BY <3>2, <3>3, <3>4 DEF HoldsRows
  <2>4. CASE s # h
    <3>1. Here(s)' = Here(s) /\ sections'[s] = sections[s]
      BY <1>2, <1>3, <1>4, <2>4 DEF Here
    <3>2. {rows[l].widget : l \in Here(s)} = {rows'[l].widget : l \in Here(s)'}
      BY <2>2, <3>1
    <3>3. QED
      BY <2>1, <2>2, <3>1, <3>2 DEF HoldsRows
  <2>5. QED
    BY <2>3, <2>4
<1>7. \A l \in DOMAIN rows : rows'[l].widget = rows[l].widget /\ rows[l].widget # w
  BY <1>1, <1>3
<1>8. QED
  BY <1>1, <1>2, <1>3, <1>4, <1>6, <1>7 DEF RowsAreListed, h

\* Any arrangement of a section's widgets shows its rows, the busiest above.
LEMMA ArrangementShows ==
  ASSUME PageTypes, RowsAreListed, NEW s \in Sections, NEW o \in Arrangements(sections[s]),
         DOMAIN rows = DOMAIN st, \A k \in DOMAIN st : AsWanted(k),
         NEW list, list = [n \in DOMAIN o |-> sections[s].keys[o[n]]]
  PROVE  /\ DOMAIN sections[s].keys = ToSet(o)
         /\ IsInjective(list) /\ ToSet(list) = {k \in DOMAIN st : st[k].group = s}
         /\ \A m, n \in DOMAIN list : m < n =>
              \/ st[list[m]].bytes > st[list[n]].bytes
              \/ st[list[m]].bytes = st[list[n]].bytes /\ Label[list[m]] <= Label[list[n]]
<1> DEFINE D == sections[s].children
<1>1. HoldsRows(s)
  BY DEF RowsAreListed
<1>2. IsFiniteSet(D)
  <2> DEFINE W(k) == rows[k].widget
  <2>1. IsFiniteSet(Here(s))
    <3>1. Here(s) \in SUBSET DOMAIN rows
      BY DEF Here
    <3>2. QED
      BY <3>1, FS_Subset DEF PageTypes
  <2>2. IsFiniteSet({rows[k].widget : k \in Here(s)})
    <3>1. [k \in Here(s) |-> W(k)] \in Surjection(Here(s), {rows[k].widget : k \in Here(s)})
      BY DEF Surjection
    <3>2. QED
      BY <2>1, <3>1, FS_Surjection
  <2>3. QED
    BY <1>1, <2>2 DEF HoldsRows
<1>3. o \in SetToSeqs(D) /\ \A m, n \in DOMAIN o : m < n => ~(
         {o[m], o[n]} \subseteq DOMAIN (sections[s].keys) /\ Ahead(sections[s].keys[o[n]], sections[s].keys[o[m]]))
  BY DEF Arrangements
<1>4. IsInjective(o) /\ ToSet(o) = D /\ DOMAIN o \subseteq Nat
  BY <1>2, <1>3, SetToSeqsIs
<1>5. \A n \in DOMAIN o : o[n] \in D
  BY <1>4 DEF ToSet
<1>6. \A v \in D : \E k \in Here(s) : v = rows[k].widget /\ sections[s].keys[v] = k
  BY <1>1 DEF HoldsRows
<1>7. \A n \in DOMAIN o : list[n] \in Here(s) /\ o[n] = rows[list[n]].widget
  BY <1>5, <1>6
<1>8. DOMAIN list = DOMAIN o
  OBVIOUS
<1>9. IsInjective(list)
  BY <1>4, <1>7, <1>8 DEF IsInjective
<1>10. ToSet(list) = {k \in DOMAIN st : st[k].group = s}
  <2>1. \A k \in Here(s) : \E n \in DOMAIN o : list[n] = k
    <3> TAKE k \in Here(s)
    <3>1. rows[k].widget \in ToSet(o) /\ sections[s].keys[rows[k].widget] = k
      BY <1>1, <1>4 DEF HoldsRows
    <3>2. PICK n \in DOMAIN o : o[n] = rows[k].widget
      BY <3>1 DEF ToSet
    <3>3. QED
      BY <3>1, <3>2
  <2>2. Here(s) = {k \in DOMAIN st : st[k].group = s}
    BY DEF Here, AsWanted
  <2>3. QED
    BY <1>7, <1>8, <2>1, <2>2 DEF ToSet
<1>11. ASSUME NEW m \in DOMAIN o, NEW n \in DOMAIN o, m < n
       PROVE  \/ st[list[m]].bytes > st[list[n]].bytes
              \/ st[list[m]].bytes = st[list[n]].bytes /\ Label[list[m]] <= Label[list[n]]
  <2> DEFINE a == list[m]
             b == list[n]
  <2>1. ~Ahead(b, a)
    <3>1. {o[m], o[n]} \subseteq DOMAIN (sections[s].keys)
      BY <1>1, <1>5 DEF HoldsRows
    <3>2. QED
      BY <1>3, <1>11, <3>1
  <2>2. a \in DOMAIN st /\ b \in DOMAIN st
    BY <1>7 DEF Here
  <2> HIDE DEF a, b
  <2>3. /\ rows[a].bytes = st[a].bytes /\ rows[b].bytes = st[b].bytes
        /\ st[a].bytes \in Nat /\ st[b].bytes \in Nat /\ Label[a] \in Nat /\ Label[b] \in Nat
    BY <2>2, StateIs, PagesAssumption DEF AsWanted, PageTypes
  <2>4. QED
    BY <2>1, <2>3 DEF Ahead, a, b
<1>12. DOMAIN (sections[s].keys) = ToSet(o)
  BY <1>1, <1>4 DEF HoldsRows
<1>13. QED
  BY <1>8, <1>9, <1>10, <1>11, <1>12

\* The next refresh begins with a new state, the next pass with nothing visited.
LEMMA PassKeeps ==
  ASSUME PagesInv, Changed \/ PassOver \/ UNCHANGED pageVars
  PROVE  PagesInv'
<1>1. UNCHANGED <<rows, sections>> /\ DOMAIN arranged' = Sections
  BY DEF PagesInv, PageTypes, Changed, PassOver, pageVars
<1>2. RowsAreListed'
  BY <1>1 DEF PagesInv, RowsAreListed, HoldsRows, Here
<1>3. PageTypes'
  BY <1>1 DEF PagesInv, PageTypes, Changed, PassOver, pageVars
<1>4. PassesVisitAll'
  <2>1. CASE Changed
    BY <2>1 DEF Changed, PassesVisitAll
  <2>2. CASE PassOver
    <3>1. UNCHANGED <<st, arranged>> /\ due = {}
      BY <2>2 DEF PassOver
    <3>2. CASE phase = "drop" /\ phase' = "place" /\ due' = DOMAIN st
      BY <1>1, <3>1, <3>2 DEF PagesInv, PassesVisitAll
    <3>3. CASE phase = "place" /\ phase' = "sort" /\ due' = Sections
      <4>1. DOMAIN rows = DOMAIN st /\ \A k \in DOMAIN st : AsWanted(k)
        BY <3>1, <3>3 DEF PagesInv, PassesVisitAll, AsWanted
      <4>2. QED
        BY <1>1, <3>1, <3>3, <4>1 DEF PassesVisitAll, AsWanted
    <3>4. QED
      BY <2>2, <3>2, <3>3 DEF PassOver
  <2>3. CASE UNCHANGED pageVars
    BY <2>3 DEF pageVars, PagesInv, PassesVisitAll, AsWanted, Arrangements, Ahead
  <2>4. QED
    BY <2>1, <2>2, <2>3
<1>5. QED
  BY <1>2, <1>3, <1>4 DEF PagesInv

\* Visiting a row, an item or a section.
LEMMA VisitKeeps ==
  ASSUME PagesInv, NEW k \in due, due' = due \ {k}, UNCHANGED <<st, phase>>,
         DropStale(k) \/ Stay(k) \/ Move(k) \/ Create(k) \/ Sort(k)
  PROVE  PagesInv'
<1>1. PageTypes /\ RowsAreListed /\ PassesVisitAll
  BY DEF PagesInv
<1>2. CASE DropStale(k)
  <2>1. phase = "drop" /\ k \in DOMAIN rows /\ UNCHANGED arranged
    BY <1>1, <1>2 DEF DropStale, PassesVisitAll
  <2>2. /\ RowsAreListed' /\ DOMAIN sections' = Sections
        /\ DOMAIN rows' = DOMAIN rows \ {k} /\ \A l \in DOMAIN rows' : rows'[l] = rows[l]
    BY <1>1, <1>2, <2>1, DropKeeps
  <2>3. IsFiniteSet(DOMAIN rows')
    BY <1>1, <2>2, FS_RemoveElement DEF PageTypes
  <2>4. PageTypes'
    BY <1>1, <2>1, <2>2, <2>3 DEF PageTypes
  <2>5. PassesVisitAll'
    BY <1>1, <2>1, <2>2 DEF PassesVisitAll
  <2>6. QED
    BY <2>2, <2>4, <2>5 DEF PagesInv
<1>3. CASE Stay(k) \/ Move(k) \/ Create(k)
  <2>1. phase = "place" /\ UNCHANGED arranged
    BY <1>3 DEF Stay, Move, Create
  <2>2. k \in DOMAIN st
    BY <1>1, <2>1 DEF PassesVisitAll
  <2>3. /\ RowsAreListed' /\ DOMAIN rows' = DOMAIN rows \cup {k}
        /\ \A l \in DOMAIN rows \ {k} : rows'[l] = rows[l]
        /\ \E w \in Widgets :
             rows'[k] = [widget |-> w, group |-> st[k].group, bytes |-> st[k].bytes]
        /\ DOMAIN sections' = Sections
    <3>1. CASE Stay(k)
      <4>1. k \in DOMAIN rows /\ UNCHANGED sections
        BY <3>1 DEF Stay
      <4>2. rows[k].widget \in Widgets /\ DOMAIN sections = Sections
        BY <1>1, <4>1 DEF PageTypes
      <4>3. QED
        BY <1>1, <2>2, <3>1, <4>1, <4>2, StayKeeps
    <3>2. CASE Move(k)
      <4>1. k \in DOMAIN rows
        BY <3>2 DEF Move
      <4>2. rows[k].widget \in Widgets
        BY <1>1, <4>1 DEF PageTypes
      <4>3. QED
        BY <1>1, <2>2, <3>2, <4>1, <4>2, MoveKeeps
    <3>3. CASE Create(k)
      BY <1>1, <2>2, <3>3, CreateKeeps
    <3>4. QED
      BY <1>3, <3>1, <3>2, <3>3
  <2>4. PICK w \in Widgets : rows'[k] = [widget |-> w, group |-> st[k].group, bytes |-> st[k].bytes]
    BY <2>3
  <2>5. st[k] \in [group : Sections, bytes : Traffic] /\ k \in Items
    BY <1>1, <2>2, StateIs DEF PageTypes
  <2>6. PageTypes'
    <3>1. IsFiniteSet(DOMAIN rows')
      BY <1>1, <2>3, FS_AddElement DEF PageTypes
    <3>2. \A l \in DOMAIN rows' : rows'[l] \in [widget : Widgets, group : Sections, bytes : Traffic]
      BY <1>1, <2>3, <2>4, <2>5 DEF PageTypes
    <3>3. QED
      BY <1>1, <2>1, <2>3, <2>5, <3>1, <3>2 DEF PageTypes
  <2>7. PassesVisitAll'
    <3>1. AsWanted(k)'
      BY <2>3, <2>4 DEF AsWanted
    <3>2. \A l \in DOMAIN st \ due : AsWanted(l) /\ l # k
      BY <1>1, <2>1 DEF PassesVisitAll
    <3>3. \A l \in DOMAIN st \ due : AsWanted(l)'
      BY <2>3, <3>2 DEF AsWanted
    <3>4. \A l \in DOMAIN st \ due' : l = k \/ l \in DOMAIN st \ due
      OBVIOUS
    <3>5. DOMAIN rows \subseteq DOMAIN st /\ due \subseteq DOMAIN st
      BY <1>1, <2>1 DEF PassesVisitAll
    <3>6. QED
      BY <2>1, <2>2, <2>3, <3>1, <3>3, <3>4, <3>5 DEF PassesVisitAll
  <2>8. QED
    BY <2>3, <2>6, <2>7 DEF PagesInv
<1>4. CASE Sort(k)
  <2>1. phase = "sort" /\ UNCHANGED <<rows, sections>>
    BY <1>4 DEF Sort
  <2>2. PICK o \in Arrangements(sections[k]) : arranged' = [arranged EXCEPT ![k] = o]
    BY <1>4 DEF Sort
  <2>3. /\ DOMAIN arranged' = Sections
        /\ \A s \in Sections \ {k} : arranged'[s] = arranged[s]
        /\ k \in Sections => arranged'[k] = o
    BY <1>1, <2>2 DEF PageTypes
  <2>4. RowsAreListed' /\ PageTypes'
    BY <1>1, <2>1, <2>3 DEF RowsAreListed, HoldsRows, Here, PageTypes
  <2>5. PassesVisitAll'
    <3>1. \A s \in Sections : Arrangements(sections[s])' = Arrangements(sections[s])
      BY <2>1 DEF Arrangements, Ahead
    <3>2. \A s \in Sections \ due' : arranged'[s] \in Arrangements(sections[s])
      BY <1>1, <2>1, <2>2, <2>3 DEF PassesVisitAll
    <3>3. \A l \in DOMAIN st : AsWanted(l)'
      BY <1>1, <2>1 DEF PassesVisitAll, AsWanted
    <3>4. QED
      BY <1>1, <2>1, <3>1, <3>2, <3>3 DEF PassesVisitAll
  <2>6. QED
    BY <2>4, <2>5 DEF PagesInv
<1>5. QED
  BY <1>2, <1>3, <1>4

\* Whatever the order in which a refresh visits rows and items, whatever widget a new row
\* gets and whatever order rows that compare as equal have, the lists show the state: for
\* any items, sections and traffic (applications.rs:94-153, connections.rs:86-155).
THEOREM ListsAreTheState == PageSpec => []ListsShowTheState
<1>1. PageInit => PagesInv
  <2> SUFFICES ASSUME PageInit PROVE PagesInv
    OBVIOUS
  <2>1. /\ DOMAIN st = {} /\ DOMAIN rows = {} /\ phase = "sort" /\ due = {}
        /\ DOMAIN sections = Sections /\ DOMAIN arranged = Sections
        /\ st \in [{} -> [group : Sections, bytes : Traffic]]
    BY DEF PageInit, NoEntries
  <2>2. IsFiniteSet({}) /\ Cardinality({}) = 0
    BY FS_EmptySet
  <2>3. st \in States
    BY <2>1, <2>2 DEF States, IsState
  <2>4. \A s \in Sections : /\ sections[s].children = {} /\ DOMAIN (sections[s].keys) = {}
                            /\ arranged[s] = <<>>
    BY DEF PageInit, NoEntries
  <2>5. RowsAreListed
    BY <2>1, <2>4 DEF RowsAreListed, HoldsRows, Here
  <2>6. <<>> \in SetToSeqs({}) /\ DOMAIN <<>> = {}
    BY <2>2 DEF SetToSeqs
  <2>7. \A s \in Sections : arranged[s] \in Arrangements(sections[s])
    BY <2>4, <2>6 DEF Arrangements
  <2>8. PassesVisitAll
    BY <2>1, <2>7 DEF PassesVisitAll, AsWanted
  <2>9. QED
    BY <2>1, <2>2, <2>3, <2>5, <2>8 DEF PagesInv, PageTypes
<1>2. PagesInv /\ [PageNext]_pageVars => PagesInv'
  BY PassKeeps, VisitKeeps DEF PageNext, Visit
<1>3. PagesInv => ListsShowTheState
  <2> SUFFICES ASSUME PagesInv, phase = "sort", due = {}, NEW s \in Sections
               PROVE  LET widgets == arranged[s]
                          list    == [n \in DOMAIN widgets |-> sections[s].keys[widgets[n]]]
                      IN /\ DOMAIN sections[s].keys = ToSet(widgets)
                         /\ IsInjective(list) /\ ToSet(list) = {k \in DOMAIN st : st[k].group = s}
                         /\ \A m, n \in DOMAIN list : m < n =>
                              \/ st[list[m]].bytes > st[list[n]].bytes
                              \/ st[list[m]].bytes = st[list[n]].bytes /\ Label[list[m]] <= Label[list[n]]
    BY DEF ListsShowTheState
  <2>1. /\ PageTypes /\ RowsAreListed /\ DOMAIN rows = DOMAIN st
        /\ \A k \in DOMAIN st : AsWanted(k)
        /\ arranged[s] \in Arrangements(sections[s])
    BY DEF PagesInv, PassesVisitAll
  <2>2. QED
    BY <2>1, ArrangementShows
<1>4. QED
  BY <1>1, <1>2, <1>3, PTL DEF PageSpec

-----------------------------------------------------------------------------
(* The readers: a packet, a user, the configuration *)

\* A header.
LEMMA HeaderIs ==
  ASSUME NEW h \in Headers
  PROVE  /\ h.v \in {4, 5, 6} /\ h.words \in 0..15 /\ h.proto \in {1, 6, 17}
         /\ h.sport \in Nat /\ h.sport < 65536 /\ h.dport \in Nat /\ h.dport < 65536
         /\ PortsAt(h) \in Nat
<1>1. h.words \in HeaderWords /\ h.sport \in Ports16 /\ h.dport \in Ports16
  BY DEF Headers
<1>2. h.v \in {4, 5, 6} /\ h.proto \in {1, 6, 17}
  BY DEF Headers, Transports
<1>a. \A w \in HeaderWords : w \in 0..15
  BY ReadersAssumption
<1>3. h.words \in 0..15
  BY <1>1, <1>a, Zenon
<1>4. h.sport \in Nat /\ h.sport < 65536 /\ h.dport \in Nat /\ h.dport < 65536
  BY <1>1, ReadersAssumption
<1>5. QED
  BY <1>2, <1>3, <1>4 DEF PortsAt

\* However a packet is cut off, the reader returns what its header says or nothing.
LEMMA PacketIs ==
  ASSUME NEW h \in Headers, NEW cut \in Nat, NEW p, p = Packet(h, cut)
  PROVE  ParsePacket(p) = ExpectPacket(h, cut)
<1> DEFINE l4 == PortsAt(h)
<1>1. /\ h.v \in {4, 5, 6} /\ h.words \in 0..15 /\ h.proto \in {1, 6, 17}
      /\ h.sport \in Nat /\ h.sport < 65536 /\ h.dport \in Nat /\ h.dport < 65536
      /\ l4 \in Nat
  BY HeaderIs
<1>2. Len(p) = cut /\ DOMAIN p = 1..cut
  <2>1. p = [n \in 1..cut |-> p[n]] /\ p \in [1..cut -> {p[n] : n \in 1..cut}]
    BY DEF Packet
  <2>2. QED
    BY <2>1
<1>3. CASE cut = 0
  <2>1. p = <<>>
    BY <1>2, <1>3
  <2>2. QED
    BY <1>1, <1>3, <2>1 DEF ParsePacket, ExpectPacket
<1>4. CASE cut > 0
  <2>1. ByteAt(p, 0) = 16 * h.v + (IF h.v = 4 THEN h.words ELSE 0)
    BY <1>2, <1>4 DEF ByteAt, Packet
  <2>2. ByteAt(p, 0) \div 16 = h.v /\ (h.v = 4 => ByteAt(p, 0) % 16 = h.words)
    BY <1>1, <2>1
  <2>3. HeaderLength(p) = IF h.v = 4 THEN 4 * h.words ELSE 40
    BY <2>2 DEF HeaderLength
  <2>4. ASSUME NEW at \in 0..cut - 1
        PROVE  ByteAt(p, at) = LET k == at - l4 IN
                 IF at = 0 THEN 16 * h.v + (IF h.v = 4 THEN h.words ELSE 0)
                 ELSE IF k \in 0..3 THEN <<h.sport \div 256, h.sport % 256, h.dport \div 256, h.dport % 256>>[k + 1]
                 ELSE IF at = (IF h.v = 6 THEN 6 ELSE 9) THEN h.proto
                 ELSE IF at \in (IF h.v = 6 THEN 24..39 ELSE 16..19) THEN at
                 ELSE 77
    <3>1. at < Len(p) /\ at + 1 \in 1..cut /\ (at + 1) - 1 = at
      BY <1>2
    <3>2. QED
      BY <3>1 DEF ByteAt, Packet
  <2>5. \A at : (at \in 0..cut - 1 /\ at - l4 \in 0..3 /\ at # 0) =>
           ByteAt(p, at) = <<h.sport \div 256, h.sport % 256, h.dport \div 256, h.dport % 256>>[at - l4 + 1]
    BY <2>4
  <2>6. CASE h.v = 5
    BY <2>2, <2>6 DEF ParsePacket, ExpectPacket
  <2>7. CASE h.v # 5 /\ ~(cut >= l4 + 4 /\ (h.v = 4 => h.words >= 5))
    <3>1. ExpectPacket(h, cut) = Nil
      BY <1>1, <2>7 DEF ExpectPacket
    <3>2. ~(HeaderLength(p) >= 20 /\ Len(p) >= HeaderLength(p) + 4) \/ h.v # 4
      <4> SUFFICES ASSUME h.v = 4 PROVE ~(HeaderLength(p) >= 20 /\ Len(p) >= HeaderLength(p) + 4)
        OBVIOUS
      <4>1. HeaderLength(p) = 4 * h.words /\ l4 = 4 * h.words
        BY <2>3 DEF PortsAt
      <4> HIDE DEF l4
      <4>2. QED
        <5>1. HeaderLength(p) >= 20 => h.words >= 5
          BY <1>1, <4>1
        <5>2. Len(p) >= HeaderLength(p) + 4 => cut >= l4 + 4
          BY <1>2, <4>1
        <5>3. QED
          BY <2>7, <5>1, <5>2, Zenon
    <3>3. ~(Len(p) >= 44) \/ h.v # 6
      BY <1>1, <1>2, <2>7 DEF PortsAt
    <3>4. QED
      BY <1>1, <2>2, <3>1, <3>2, <3>3 DEF ParsePacket
  <2>8. CASE h.v # 5 /\ cut >= l4 + 4 /\ (h.v = 4 => h.words >= 5)
    <3>1. HeaderLength(p) = l4 /\ l4 >= 20 /\ (h.v = 6 => l4 = 40)
      BY <1>1, <2>3, <2>8 DEF PortsAt
    <3>2. ByteAt(p, IF h.v = 4 THEN 9 ELSE 6) = h.proto
      <4> DEFINE at == IF h.v = 4 THEN 9 ELSE 6
      <4>1. at \in 0..cut - 1 /\ at # 0 /\ at - l4 \notin 0..3 /\ at = IF h.v = 6 THEN 6 ELSE 9
        BY <1>1, <2>8, <3>1
      <4> HIDE DEF at
      <4>2. QED
        BY <2>4, <4>1 DEF at
    <3>3. Port16(p, l4) = h.sport /\ Port16(p, l4 + 2) = h.dport
      <4>1. /\ l4 \in 0..cut - 1 /\ l4 + 1 \in 0..cut - 1 /\ l4 + 2 \in 0..cut - 1 /\ l4 + 3 \in 0..cut - 1
            /\ l4 - l4 = 0 /\ (l4 + 1) - l4 = 1 /\ (l4 + 2) - l4 = 2 /\ (l4 + 3) - l4 = 3
            /\ l4 # 0 /\ l4 + 1 # 0 /\ l4 + 2 # 0 /\ l4 + 3 # 0 /\ (l4 + 2) + 1 = l4 + 3
        BY <1>1, <2>8, <3>1
      <4>2. /\ ByteAt(p, l4) = h.sport \div 256 /\ ByteAt(p, l4 + 1) = h.sport % 256
            /\ ByteAt(p, l4 + 2) = h.dport \div 256 /\ ByteAt(p, l4 + 3) = h.dport % 256
        BY <2>5, <4>1
      <4>3. Port16(p, l4) = 256 * (h.sport \div 256) + (h.sport % 256)
        BY <4>2, Zenon DEF Port16
      <4>4. Port16(p, l4 + 2) = 256 * (h.dport \div 256) + (h.dport % 256)
        <5>1. (l4 + 2) + 1 = l4 + 3
          BY <4>1, Zenon
        <5>2. ByteAt(p, (l4 + 2) + 1) = h.dport % 256
          BY <4>2, <5>1, Zenon
        <5> HIDE DEF l4
        <5>3. QED
          BY <4>2, <5>2, Zenon DEF Port16
      <4>5. ASSUME NEW s \in Nat PROVE 256 * (s \div 256) + (s % 256) = s
        BY SMTT(30)
      <4>6. QED
        BY <1>1, <4>3, <4>4, <4>5
    <3>4. h.v = 4 => SubSeq(p, 17, 20) = <<16, 17, 18, 19>>
      <4> SUFFICES ASSUME h.v = 4 PROVE SubSeq(p, 17, 20) = <<16, 17, 18, 19>>
        OBVIOUS
      <4>1. ASSUME NEW n \in 1..4 PROVE p[17 + n - 1] = 15 + n
        <5> DEFINE at == 15 + n
        <5>1. at \in 0..cut - 1 /\ at # 0 /\ at - l4 \notin 0..3 /\ at # 9 /\ at \in 16..19
          BY <1>1, <2>8, <3>1
        <5>2. at < Len(p) /\ at + 1 = 17 + n - 1
          BY <1>2, <5>1
        <5> HIDE DEF at
        <5>3. ByteAt(p, at) = at
          BY <2>4, <5>1
        <5>4. QED
          BY <5>2, <5>3 DEF ByteAt, at
      <4>2. SubSeq(p, 17, 20) = [n \in 1..4 |-> 15 + n]
        BY <4>1
      <4>3. [n \in 1..4 |-> 15 + n] = <<16, 17, 18, 19>>
        OBVIOUS
      <4>4. QED
        BY <4>2, <4>3, Zenon
    <3>5. h.v = 6 => SubSeq(p, 25, 40) = [n \in 1..16 |-> 23 + n]
      <4> SUFFICES ASSUME h.v = 6 PROVE SubSeq(p, 25, 40) = [n \in 1..16 |-> 23 + n]
        OBVIOUS
      <4>1. ASSUME NEW n \in 1..16 PROVE p[25 + n - 1] = 23 + n
        <5> DEFINE at == 23 + n
        <5>1. at \in 0..cut - 1 /\ at # 0 /\ at - l4 \notin 0..3 /\ at # 6 /\ at \in 24..39
          BY <1>1, <2>8, <3>1
        <5>2. at < Len(p) /\ at + 1 = 25 + n - 1
          BY <1>2, <5>1
        <5> HIDE DEF at
        <5>3. ByteAt(p, at) = at
          BY <2>4, <5>1
        <5>4. QED
          BY <5>2, <5>3 DEF ByteAt, at
      <4>2. QED
        BY <4>1
    <3>6. QED
      <4> DEFINE version == ByteAt(p, 0) \div 16
                 whole == \/ version = 4 /\ HeaderLength(p) >= 20 /\ Len(p) >= HeaderLength(p) + 4
                          \/ version = 6 /\ Len(p) >= 44
                 proto == ByteAt(p, IF version = 4 THEN 9 ELSE 6)
                 dst == IF version = 4 THEN SubSeq(p, 17, 20) ELSE SubSeq(p, 25, 40)
                 want == IF h.v = 4 THEN <<16, 17, 18, 19>> ELSE [n \in 1..16 |-> 23 + n]
      <4>3. ParsePacket(p) = IF p # <<>> /\ whole /\ proto \in {6, 17}
                             THEN <<proto, Port16(p, HeaderLength(p)), dst, Port16(p, HeaderLength(p) + 2)>>
                             ELSE Nil
        BY Zenon DEF ParsePacket
      <4>0. version = h.v /\ h.v \in {4, 6}
        BY <1>1, <2>2, <2>8
      <4> HIDE DEF version, l4
      <4>1. whole /\ p # <<>>
        <5>1. p # <<>>
          BY <1>2, <1>4
        <5>2. h.v = 4 => HeaderLength(p) >= 20 /\ Len(p) >= HeaderLength(p) + 4
          BY <1>2, <2>8, <3>1
        <5>3. h.v = 6 => Len(p) >= 44
          BY <1>2, <2>8, <3>1
        <5>4. QED
          BY <4>0, <5>1, <5>2, <5>3
      <4>2. dst = want
        BY <4>0, <3>4, <3>5, Zenon
      <4>8. proto = h.proto
        BY <4>0, <3>2, Zenon
      <4>4. ExpectPacket(h, cut) = IF h.proto # 1 THEN <<h.proto, h.sport, want, h.dport>> ELSE Nil
        <5>1. cut >= PortsAt(h) + 4 /\ (h.v = 6 \/ (h.v = 4 /\ h.words >= 5))
          BY <1>1, <2>8 DEF l4
        <5>2. QED
          BY <5>1, Zenon DEF ExpectPacket
      <4>5. h.proto # 1 <=> h.proto \in {6, 17}
        BY <1>1
      <4> HIDE DEF whole, dst, want, proto
      <4>6. ParsePacket(p) = IF h.proto \in {6, 17} THEN <<h.proto, h.sport, want, h.dport>> ELSE Nil
        BY <3>1, <3>3, <4>1, <4>2, <4>3, <4>8, Zenon
      <4>7. QED
        BY <4>4, <4>5, <4>6, Zenon
  <2>9. QED
    BY <2>6, <2>7, <2>8
<1>5. QED
  BY <1>3, <1>4

\* The first device at an access point says the network of a connection.
LEMMA UserIs ==
  ASSUME NEW file \in Lines(PasswdLine), NEW uid \in {0, 1}
  PROVE  FindUser(file, uid) = ExpectUser(file, uid)
<1> DEFINE I == {n \in 1..Len(file) : file[n].uid \in {uid, Nil}}
           hits == {n \in DOMAIN file : /\ file[n].uid = uid
                                        /\ \A m \in 1..n : file[m].uid # Nil /\ (m < n => file[m].uid # uid)}
           stop == IF I # {} THEN Min(I) ELSE 0
<1>1. PICK k \in Nat : file \in [1..k -> PasswdLine]
  BY ReadersAssumption DEF Lines
<1>2. Len(file) = k /\ DOMAIN file = 1..k
  BY <1>1
<1>3. uid # Nil
  BY ReadersAssumption
<1>4. FindUser(file, uid) = IF stop # 0 /\ file[stop].uid = uid THEN file[stop].user ELSE Nil
  BY DEF FindUser, SelectInSeq
<1>5. ExpectUser(file, uid) = IF hits = {} THEN Nil ELSE file[CHOOSE n \in hits : TRUE].user
  BY DEF ExpectUser
<1>6. I \subseteq 1..k /\ \A n \in I : n \in Nat /\ n >= 1
  BY <1>2
<1>7. CASE I = {}
  <2>1. hits = {}
    BY <1>2, <1>7
  <2>2. QED
    BY <1>4, <1>5, <1>7, <2>1
<1>8. CASE I # {}
  <2>1. stop \in I /\ \A n \in I : stop <= n
    BY <1>6, <1>8, MinIsLeast
  <2>2. stop \in 1..k /\ stop # 0
    BY <1>6, <2>1
  <2> HIDE DEF stop
  <2>3. \A m \in 1..stop : m # stop => file[m].uid # uid /\ file[m].uid # Nil
    BY <1>2, <2>1, <2>2
  <2>4. CASE file[stop].uid = uid
    <3>1. hits = {stop}
      <4>1. stop \in hits
        BY <1>2, <1>3, <2>2, <2>3, <2>4
      <4>2. \A n \in hits : n = stop
        <5> TAKE n \in hits
        <5>1. n \in I
          BY <1>2
        <5>2. n \in Nat /\ stop \in Nat /\ stop <= n
          BY <1>6, <2>1, <5>1
        <5>3. stop < n => stop \in 1..n
          BY <2>2, <5>2
        <5>4. ~(stop < n)
          BY <2>4, <5>3
        <5>5. QED
          BY <5>2, <5>4
      <4>3. QED
        BY <4>1, <4>2
    <3>2. (CHOOSE n \in hits : TRUE) = stop
      BY <3>1
    <3>3. QED
      BY <1>4, <1>5, <2>2, <2>4, <3>1, <3>2
  <2>5. CASE file[stop].uid # uid
    <3>1. file[stop].uid = Nil
      BY <2>1, <2>5
    <3>2. hits = {}
      <4> SUFFICES ASSUME NEW n \in hits PROVE FALSE
        OBVIOUS
      <4>1. n \in I
        BY <1>2
      <4>2. stop \in 1..n
        BY <1>6, <2>1, <2>2, <4>1
      <4>3. QED
        BY <3>1, <4>2
    <3>3. QED
      BY <1>4, <1>5, <2>5, <3>2
  <2>6. QED
    BY <2>4, <2>5
<1>9. QED
  BY <1>7, <1>8

\* The configuration holds every key that is set or none.
LEMMA ConfigIs ==
  ASSUME NEW f, NEW out, out = LoadConfig(f)
  PROVE  \/ \A k \in DOMAIN Defaults : (out[k] = "given") = (k \in f.set)
         \/ out = Defaults
<1>1. CASE out = Defaults
  BY <1>1
<1>2. CASE out = [k \in DOMAIN Defaults |-> IF k \in f.set THEN "given" ELSE Defaults[k]]
  <2>1. \A k \in DOMAIN Defaults : Defaults[k] = "default"
    BY DEF Defaults
  <2>2. ASSUME NEW k \in DOMAIN Defaults PROVE (out[k] = "given") = (k \in f.set)
    <3>1. out[k] = IF k \in f.set THEN "given" ELSE Defaults[k]
      BY <1>2, Zenon
    <3>2. Defaults[k] # "given"
      BY <2>1
    <3>3. CASE k \in f.set
      BY <3>1, <3>3, Zenon
    <3>4. CASE k \notin f.set
      <4>1. out[k] # "given"
        BY <3>1, <3>2, <3>4
      <4>2. (out[k] = "given") = FALSE
        BY <4>1
      <4>3. (k \in f.set) = FALSE
        BY <3>4
      <4>4. QED
        BY <4>2, <4>3, Zenon
    <3>5. QED
      BY <3>3, <3>4
  <2>3. QED
    BY <2>2, Zenon
<1>3. QED
  BY <1>1, <1>2, Zenon DEF LoadConfig

-----------------------------------------------------------------------------
(* The readers: a line of conntrack *)

\* Flows with ports.
LEMMA FlowIs ==
  ASSUME NEW e \in Flows, e.proto # "icmp"
  PROVE  /\ e.sport \in Nat /\ e.dport \in Nat /\ e.sent \in Nat /\ e.recv \in Nat /\ Received(e) \in Nat
         /\ e.proto \in {"tcp", "udp"} /\ e.acct \in BOOLEAN /\ e.replied \in BOOLEAN
         /\ TupleLen(e) \in {4, 6} /\ (e.acct <=> TupleLen(e) = 6)
         /\ OrigAt(e) \in {6, 7} /\ (e.proto = "tcp" <=> OrigAt(e) = 7)
         /\ ReplyAt(e) \in {OrigAt(e) + TupleLen(e), OrigAt(e) + TupleLen(e) + 1}
         /\ EndAt(e) = ReplyAt(e) + TupleLen(e) + 2
<1>1. e.sport \in Ports16 /\ e.dport \in Ports16 /\ e.sent \in Bytes /\ e.recv \in Bytes
  BY DEF Flows
<1>2. (\A p \in Ports16 : p \in Nat) /\ (\A b \in Bytes : b \in Nat)
  BY ReadersAssumption
<1>3. e.proto \in {"tcp", "udp"} /\ e.acct \in BOOLEAN /\ e.replied \in BOOLEAN
  BY DEF Flows
<1>4. Received(e) \in Nat
  BY <1>1, <1>2 DEF Received
<1>5. TupleLen(e) \in {4, 6} /\ (e.acct <=> TupleLen(e) = 6)
  BY <1>3 DEF TupleLen
<1>6. OrigAt(e) \in {6, 7} /\ (e.proto = "tcp" <=> OrigAt(e) = 7)
  BY DEF OrigAt
<1>7. ReplyAt(e) \in {OrigAt(e) + TupleLen(e), OrigAt(e) + TupleLen(e) + 1}
  BY <1>5, <1>6 DEF ReplyAt
<1>8. QED
  BY <1>1, <1>2, <1>3, <1>4, <1>5, <1>6, <1>7 DEF EndAt

\* The words of a tuple, by position.
LEMMA TupleIs ==
  ASSUME NEW e, e.proto # "icmp", NEW src, NEW dst, NEW sport, NEW dport, NEW bytes,
         NEW t, t = Tuple(e, src, dst, sport, dport, bytes)
  PROVE  /\ t[1].k = "src"   /\ t[1].v = src   /\ t[2].k = "dst"     /\ t[2].v = dst
         /\ t[3].k = "sport" /\ t[3].v = sport /\ t[4].k = "dport"   /\ t[4].v = dport
         /\ t[6].k = "bytes" /\ t[6].v = bytes /\ t[5].k = "packets"
BY DEF Tuple, Pair

EndKeys == {"src", "dst", "sport", "dport"}

\* The words after the header of a line, whose tuples begin at o and r.
WordsAre(e, line, o, r) ==
  /\ line[o].k = "src"       /\ line[o].v = "here"
  /\ line[o + 1].k = "dst"   /\ line[o + 1].v = "there"
  /\ line[o + 2].k = "sport" /\ line[o + 2].v = e.sport
  /\ line[o + 3].k = "dport" /\ line[o + 3].v = e.dport
  /\ e.acct => /\ line[o + 5].k = "bytes" /\ line[o + 5].v = e.sent
               /\ line[r + 5].k = "bytes" /\ line[r + 5].v = Received(e)
  /\ line[r].k = "src"
  /\ \A n \in o + 4..r - 1 : /\ line[n].k \notin EndKeys
                             /\ line[n].k = "bytes" => e.acct /\ n = o + 5
  /\ \A n \in r + 1..EndAt(e) : /\ line[n].k # "src"
                                /\ line[n].k = "bytes" => e.acct /\ n = r + 5

\* The length of a sequence given by its domain.
LEMMA LenIs ==
  ASSUME NEW n \in Nat, NEW f, f = [i \in 1..n |-> f[i]]
  PROVE  Len(f) = n
<1>1. \A i \in 1..n : f[i] \in {f[j] : j \in 1..n}
  OBVIOUS
<1>2. f \in [1..n -> {f[j] : j \in 1..n}]
  BY <1>1
<1>3. QED
  BY <1>2

\* The line of a flow: its length, its third and sixth words, and those after the header.
LEMMA LineIs ==
  ASSUME NEW e \in Flows, e.proto # "icmp", NEW line, line = ConntrackLine(e),
         NEW o, o = OrigAt(e), NEW r, r = ReplyAt(e)
  PROVE  /\ Len(line) = EndAt(e) /\ line[3].v = e.proto
         /\ e.proto = "tcp" => line[6].k = ""
         /\ WordsAre(e, line, o, r)
<1> DEFINE orig == Tuple(e, "here", "there", e.sport, e.dport, e.sent)
           back == Tuple(e, "there", IF e.nat THEN "router" ELSE "here", e.dport, e.sport, Received(e))
           l == TupleLen(e)
<1>1. /\ l \in {4, 6} /\ (e.acct <=> l = 6) /\ o \in {6, 7} /\ (e.proto = "tcp" <=> o = 7)
      /\ r \in {o + l, o + l + 1} /\ EndAt(e) = r + l + 2 /\ e.acct \in BOOLEAN
  BY FlowIs
<1>2. line = [n \in 1..EndAt(e) |->
                CASE n = 3                -> Word(e.proto)
                  [] n \in o..(o + l - 1) -> orig[n - o + 1]
                  [] n \in r..(r + l - 1) -> back[n - r + 1]
                  [] n > EndAt(e) - 2     -> Pair("mark", 0)
                  [] OTHER                -> Word("text")]
  BY DEF ConntrackLine
<1>3. /\ orig[1].k = "src"   /\ orig[1].v = "here"  /\ orig[2].k = "dst"   /\ orig[2].v = "there"
      /\ orig[3].k = "sport" /\ orig[3].v = e.sport /\ orig[4].k = "dport" /\ orig[4].v = e.dport
      /\ orig[6].k = "bytes" /\ orig[6].v = e.sent  /\ orig[5].k = "packets"
  BY TupleIs
<1>4. /\ back[1].k = "src" /\ back[2].k = "dst" /\ back[3].k = "sport" /\ back[4].k = "dport"
      /\ back[6].k = "bytes" /\ back[6].v = Received(e) /\ back[5].k = "packets"
  BY TupleIs
<1> HIDE DEF orig, back, l
<1>5. /\ Word(e.proto).v = e.proto /\ Word("text").k = "" /\ Pair("mark", 0).k = "mark"
  BY DEF Word, Pair
<1>6. ASSUME NEW n \in 1..EndAt(e)
      PROVE  /\ n = 3 => line[n] = Word(e.proto)
             /\ n \in o..(o + l - 1) => line[n] = orig[n - o + 1]
             /\ n \in r..(r + l - 1) => line[n] = back[n - r + 1]
             /\ n \in 4..o - 1 \cup o + l..r - 1 => line[n] = Word("text")
             /\ n > r + l - 1 => line[n] \in {Word("text"), Pair("mark", 0)}
  <2>0. line[n] = CASE n = 3             -> Word(e.proto)
                  [] n \in o..(o + l - 1) -> orig[n - o + 1]
                  [] n \in r..(r + l - 1) -> back[n - r + 1]
                  [] n > EndAt(e) - 2     -> Pair("mark", 0)
                  [] OTHER                -> Word("text")
    BY <1>2
  <2>1. CASE n = 3
    BY <1>1, <2>0, <2>1
  <2>2. CASE n \in o..(o + l - 1)
    BY <1>1, <2>0, <2>2
  <2>3. CASE n \in r..(r + l - 1)
    BY <1>1, <2>0, <2>3
  <2>4. CASE n # 3 /\ n \notin o..(o + l - 1) /\ n \notin r..(r + l - 1)
    <3>1. /\ n > EndAt(e) - 2 => line[n] = Pair("mark", 0) /\ n > r + l - 1
          /\ ~(n > EndAt(e) - 2) => line[n] = Word("text")
      BY <1>1, <2>0, <2>4
    <3>2. n \in 4..o - 1 \cup o + l..r - 1 => ~(n > EndAt(e) - 2)
      BY <1>1
    <3>3. QED
      BY <2>4, <3>1, <3>2
  <2>5. QED
    BY <2>1, <2>2, <2>3, <2>4
<1>7. /\ o \in 1..EndAt(e) /\ o + 1 \in 1..EndAt(e) /\ o + 2 \in 1..EndAt(e) /\ o + 3 \in 1..EndAt(e)
      /\ o + 5 \in 1..EndAt(e) /\ r \in 1..EndAt(e) /\ r + 5 \in 1..EndAt(e) /\ 3 \in 1..EndAt(e)
      /\ 6 \in 1..EndAt(e)
  BY <1>1
<1>8. /\ line[o] = orig[1] /\ line[o + 1] = orig[2] /\ line[o + 2] = orig[3] /\ line[o + 3] = orig[4]
      /\ e.acct => line[o + 5] = orig[6] /\ line[r + 5] = back[6]
      /\ line[r] = back[1] /\ line[3] = Word(e.proto)
      /\ e.proto = "tcp" => line[6] = Word("text")
  <2>1. /\ o - o + 1 = 1 /\ (o + 1) - o + 1 = 2 /\ (o + 2) - o + 1 = 3 /\ (o + 3) - o + 1 = 4
        /\ (o + 5) - o + 1 = 6 /\ (r + 5) - r + 1 = 6 /\ r - r + 1 = 1
        /\ {o, o + 1, o + 2, o + 3} \subseteq o..(o + l - 1) /\ r \in r..(r + l - 1)
        /\ e.acct => o + 5 \in o..(o + l - 1) /\ r + 5 \in r..(r + l - 1)
        /\ e.proto = "tcp" => 6 \in 4..o - 1
    BY <1>1
  <2>2. /\ line[o] = orig[o - o + 1] /\ line[o + 1] = orig[(o + 1) - o + 1]
        /\ line[o + 2] = orig[(o + 2) - o + 1] /\ line[o + 3] = orig[(o + 3) - o + 1]
        /\ e.acct => line[o + 5] = orig[(o + 5) - o + 1] /\ line[r + 5] = back[(r + 5) - r + 1]
        /\ line[r] = back[r - r + 1] /\ line[3] = Word(e.proto)
        /\ e.proto = "tcp" => line[6] = Word("text")
    BY <1>6, <1>7, <2>1, Zenon
  <2>3. QED
    BY <2>1, <2>2, Zenon
<1>9. ASSUME NEW n \in o + 4..r - 1
      PROVE  line[n].k \notin EndKeys /\ (line[n].k = "bytes" => e.acct /\ n = o + 5)
  <2>1. n \in 1..EndAt(e) /\ ((n \in {o + 4, o + 5} /\ e.acct /\ n \in o..(o + l - 1)) \/ n \in o + l..r - 1)
    BY <1>1
  <2>2. CASE n \in o + l..r - 1
    BY <1>5, <1>6, <2>1, <2>2 DEF EndKeys
  <2>3. CASE e.acct /\ n = o + 4 /\ n \in o..(o + l - 1)
    <3>1. n - o + 1 = 5
      BY <1>1, <2>3
    <3>2. line[n] = orig[5]
      BY <1>6, <2>1, <2>3, <3>1
    <3>3. QED
      BY <1>3, <3>2 DEF EndKeys
  <2>4. CASE e.acct /\ n = o + 5
    BY <1>3, <1>8, <2>4 DEF EndKeys
  <2>5. QED
    BY <2>1, <2>2, <2>3, <2>4
<1>10. ASSUME NEW n \in r + 1..EndAt(e)
       PROVE  line[n].k # "src" /\ (line[n].k = "bytes" => e.acct /\ n = r + 5)
  <2>1. n \in 1..EndAt(e) /\ (n > r + l - 1 \/ n \in r..(r + l - 1))
    BY <1>1
  <2>2. CASE n > r + l - 1
    BY <1>5, <1>6, <2>1, <2>2
  <2>3. CASE n \in r..(r + l - 1)
    <3> DEFINE i == n - r + 1
    <3>1. i \in 2..6 /\ (i = 6 => e.acct /\ n = r + 5)
      BY <1>1, <2>3
    <3>2. line[n] = back[i]
      BY <1>6, <2>1, <2>3
    <3> HIDE DEF i
    <3>3. i \in {2, 3, 4, 5, 6}
      BY <3>1
    <3>4. QED
      BY <1>4, <3>1, <3>2, <3>3
  <2>4. QED
    BY <2>1, <2>2, <2>3
<1>11. DOMAIN line = 1..EndAt(e) /\ EndAt(e) \in Nat
  BY <1>1, <1>2
<1>12. Len(line) = EndAt(e)
  <2>1. line = [n \in 1..EndAt(e) |-> line[n]]
    BY <1>2, <1>11
  <2>2. QED
    BY <1>11, <2>1, LenIs, Zenon
<1>13. WordsAre(e, line, o, r)
  BY <1>3, <1>4, <1>8, <1>9, <1>10 DEF WordsAre
<1>14. QED
  BY <1>5, <1>8, <1>12, <1>13

\* What a word before the reply changes, and one of the reply.
OrigChange(s, t, f) ==
  /\ t.k = "" => f = s
  /\ f.reply = FALSE /\ f.recv = s.recv
  /\ f.sent = IF t.k = "bytes" /\ s.sent = Nil THEN t.v ELSE s.sent
  /\ t.k = "bytes" => f.orig = s.orig
  /\ t.k # "bytes" /\ t.k # "" =>
       /\ DOMAIN f.orig = DOMAIN s.orig \cup {t.k}
       /\ \A k \in DOMAIN s.orig : f.orig[k] = s.orig[k]
       /\ t.k \notin DOMAIN s.orig => f.orig[t.k] = t.v

\* A word looked at before the reply begins.
LEMMA OrigField ==
  ASSUME NEW s, NEW t, s.reply = FALSE, t.k # "src" \/ "src" \notin DOMAIN s.orig
  PROVE  OrigChange(s, t, Field(s, t))
<1> DEFINE f == Field(s, t)
<1>0. SUFFICES OrigChange(s, t, f)
  OBVIOUS
<1>a. f = Field(s, t)
  OBVIOUS
<1> HIDE DEF f
<1>1. CASE t.k = ""
  BY <1>a, <1>1 DEF Field, OrigChange
<1>2. CASE t.k # ""
  <2>1. (s.reply \/ (t.k = "src" /\ "src" \in DOMAIN s.orig)) = FALSE
    BY Zenon
  <2>2. f = [reply |-> FALSE,
             sent |-> IF ~FALSE /\ t.k = "bytes" /\ s.sent = Nil THEN t.v ELSE s.sent,
             recv |-> IF FALSE /\ t.k = "bytes" /\ s.recv = Nil THEN t.v ELSE s.recv,
             orig |-> IF FALSE \/ t.k = "bytes" THEN s.orig ELSE SetOnce(s.orig, t.k, t.v)]
    BY <1>a, <1>2, <2>1, Zenon DEF Field
  <2>3. f.reply = FALSE /\ f.recv = s.recv
    BY <2>2
  <2>4. f.sent = IF t.k = "bytes" /\ s.sent = Nil THEN t.v ELSE s.sent
    BY <2>2
  <2>5. f.orig = IF t.k = "bytes" THEN s.orig ELSE SetOnce(s.orig, t.k, t.v)
    BY <2>2
  <2>6. QED
    BY <1>2, <2>3, <2>4, <2>5 DEF SetOnce, OrigChange
<1>3. QED
  BY <1>1, <1>2

ReplyChange(s, t, f) ==
  /\ t.k = "" => f = s
  /\ t.k # "" => f.reply = TRUE
  /\ f.orig = s.orig /\ f.sent = s.sent
  /\ f.recv = IF t.k = "bytes" /\ s.recv = Nil THEN t.v ELSE s.recv

\* A word looked at once the reply has begun, or the one that begins it.
LEMMA ReplyField ==
  ASSUME NEW s, NEW t,
         \/ s.reply = TRUE
         \/ t.k = "src" /\ "src" \in DOMAIN s.orig
  PROVE  ReplyChange(s, t, Field(s, t))
<1> DEFINE f == Field(s, t)
<1>0. SUFFICES ReplyChange(s, t, f)
  OBVIOUS
<1>a. f = Field(s, t)
  OBVIOUS
<1> HIDE DEF f
<1>1. CASE t.k = ""
  BY <1>a, <1>1 DEF Field, ReplyChange
<1>2. CASE t.k # ""
  <2>1. (s.reply \/ (t.k = "src" /\ "src" \in DOMAIN s.orig)) = TRUE
    BY Zenon
  <2>2. f = [reply |-> TRUE,
             sent |-> IF ~TRUE /\ t.k = "bytes" /\ s.sent = Nil THEN t.v ELSE s.sent,
             recv |-> IF TRUE /\ t.k = "bytes" /\ s.recv = Nil THEN t.v ELSE s.recv,
             orig |-> IF TRUE \/ t.k = "bytes" THEN s.orig ELSE SetOnce(s.orig, t.k, t.v)]
    BY <1>a, <1>2, <2>1, Zenon DEF Field
  <2>3. QED
    BY <1>2, <2>2 DEF ReplyChange
<1>3. QED
  BY <1>1, <1>2

\* What a line's fields are when its words before n have been looked at.
Noted(s, k, known, v) == /\ k \in DOMAIN s.orig <=> known
                         /\ known => s.orig[k] = v
FieldsSoFar(e, n, s) ==
  /\ n \in OrigAt(e)..EndAt(e) + 1
  /\ s.reply = IF n > ReplyAt(e) THEN TRUE ELSE FALSE
  /\ Noted(s, "src", n > OrigAt(e), "here")
  /\ Noted(s, "dst", n > OrigAt(e) + 1, "there")
  /\ Noted(s, "sport", n > OrigAt(e) + 2, e.sport)
  /\ Noted(s, "dport", n > OrigAt(e) + 3, e.dport)
  /\ s.sent = IF e.acct /\ n > OrigAt(e) + 5 THEN e.sent ELSE Nil
  /\ s.recv = IF e.acct /\ n > ReplyAt(e) + 5 THEN Received(e) ELSE Nil

\* One more word.
LEMMA NextFieldKeeps ==
  ASSUME NEW e \in Flows, e.proto # "icmp", NEW n, NEW s, FieldsSoFar(e, n, s), n <= EndAt(e)
  PROVE  FieldsSoFar(e, n + 1, Field(s, ConntrackLine(e)[n]))
<1> DEFINE line == ConntrackLine(e)
           o == OrigAt(e)
           r == ReplyAt(e)
           t == line[n]
           f == Field(s, t)
<1>1. /\ o \in Nat /\ r \in Nat /\ r >= o + 4 /\ n \in o..EndAt(e) /\ EndAt(e) \in Nat
      /\ n + 1 \in o..EndAt(e) + 1 /\ EndAt(e) >= r
      /\ e.acct => r >= o + 6
      /\ e.acct \in BOOLEAN
  BY FlowIs DEF FieldsSoFar
<1>2. /\ s.reply = IF n > r THEN TRUE ELSE FALSE
      /\ Noted(s, "src", n > o, "here")      /\ Noted(s, "dst", n > o + 1, "there")
      /\ Noted(s, "sport", n > o + 2, e.sport) /\ Noted(s, "dport", n > o + 3, e.dport)
      /\ s.sent = IF e.acct /\ n > o + 5 THEN e.sent ELSE Nil
      /\ s.recv = IF e.acct /\ n > r + 5 THEN Received(e) ELSE Nil
  BY Zenon DEF FieldsSoFar
<1>3. /\ line[o].k = "src"       /\ line[o].v = "here"
      /\ line[o + 1].k = "dst"   /\ line[o + 1].v = "there"
      /\ line[o + 2].k = "sport" /\ line[o + 2].v = e.sport
      /\ line[o + 3].k = "dport" /\ line[o + 3].v = e.dport
      /\ e.acct => /\ line[o + 5].k = "bytes" /\ line[o + 5].v = e.sent
                   /\ line[r + 5].k = "bytes" /\ line[r + 5].v = Received(e)
      /\ line[r].k = "src"
      /\ n \in o + 4..r - 1 => t.k \notin EndKeys /\ (t.k = "bytes" => e.acct /\ n = o + 5)
      /\ n \in r + 1..EndAt(e) => t.k # "src" /\ (t.k = "bytes" => e.acct /\ n = r + 5)
  <2>1. WordsAre(e, line, o, r)
    BY LineIs
  <2>2. QED
    BY <2>1, Zenon DEF WordsAre
<1> SUFFICES
      /\ f.reply = IF n + 1 > r THEN TRUE ELSE FALSE
      /\ Noted(f, "src", n + 1 > o, "here")      /\ Noted(f, "dst", n + 1 > o + 1, "there")
      /\ Noted(f, "sport", n + 1 > o + 2, e.sport) /\ Noted(f, "dport", n + 1 > o + 3, e.dport)
      /\ f.sent = IF e.acct /\ n + 1 > o + 5 THEN e.sent ELSE Nil
      /\ f.recv = IF e.acct /\ n + 1 > r + 5 THEN Received(e) ELSE Nil
  BY <1>1, Zenon DEF FieldsSoFar
<1>b. (s.reply = FALSE /\ (t.k # "src" \/ "src" \notin DOMAIN s.orig)) => OrigChange(s, t, f)
  BY OrigField
<1>c. (s.reply = TRUE \/ (t.k = "src" /\ "src" \in DOMAIN s.orig)) => ReplyChange(s, t, f)
  BY ReplyField
<1> HIDE DEF line, o, r, f
<1>4. "src" \in DOMAIN s.orig <=> n > o
  BY <1>2 DEF Noted
<1>5. CASE n < r
  <2>1. s.reply = FALSE /\ (t.k # "src" \/ "src" \notin DOMAIN s.orig)
    <3>1. ~(n > r)
      BY <1>1, <1>5
    <3>2. s.reply = FALSE
      BY <1>2, <3>1, Zenon
    <3>3. t.k # "src" \/ n = o
      <4>1. n = o \/ n = o + 1 \/ n = o + 2 \/ n = o + 3 \/ n \in o + 4..r - 1
        BY <1>1, <1>5
      <4>2. QED
        BY <1>3, <4>1 DEF EndKeys
    <3>4. ~(o > o)
      BY <1>1
    <3>5. QED
      BY <1>4, <3>2, <3>3, <3>4, Zenon
  <2>2. OrigChange(s, t, f)
    BY <1>b, <2>1, Zenon
  <2>3. f.reply = IF n + 1 > r THEN TRUE ELSE FALSE
    <3>1. ~(n + 1 > r)
      BY <1>1, <1>5
    <3>2. QED
      BY <2>2, <3>1, Zenon DEF OrigChange
  <2>4. f.recv = IF e.acct /\ n + 1 > r + 5 THEN Received(e) ELSE Nil
    <3>1. ~(n + 1 > r + 5) /\ ~(n > r + 5)
      BY <1>1, <1>5
    <3>2. QED
      BY <1>2, <2>2, <3>1, Zenon DEF OrigChange
  <2>5. f.sent = IF e.acct /\ n + 1 > o + 5 THEN e.sent ELSE Nil
    <3>1. CASE t.k = "bytes"
      <4>1. e.acct /\ n = o + 5
        <5>1. n = o \/ n = o + 1 \/ n = o + 2 \/ n = o + 3 \/ n \in o + 4..r - 1
          BY <1>1, <1>5
        <5>2. QED
          BY <1>3, <3>1, <5>1
      <4>2. n + 1 > o + 5 /\ ~(n > o + 5)
        BY <1>1, <4>1
      <4>3. QED
        BY <1>2, <1>3, <2>2, <3>1, <4>1, <4>2, Zenon DEF OrigChange
    <3>2. CASE t.k # "bytes"
      <4>1. e.acct => (n + 1 > o + 5 <=> n > o + 5)
        <5>1. e.acct => n # o + 5
          BY <1>3, <3>2
        <5>2. QED
          BY <1>1, <5>1
      <4>2. QED
        BY <1>2, <2>2, <3>2, <4>1, Zenon DEF OrigChange
    <3>3. QED
      BY <3>1, <3>2
  <2>6. /\ Noted(f, "src", n + 1 > o, "here")      /\ Noted(f, "dst", n + 1 > o + 1, "there")
        /\ Noted(f, "sport", n + 1 > o + 2, e.sport) /\ Noted(f, "dport", n + 1 > o + 3, e.dport)
    <3>1. ASSUME NEW k \in EndKeys, NEW v, NEW at \in {o, o + 1, o + 2, o + 3},
                 line[at].k = k, line[at].v = v, Noted(s, k, n > at, v)
          PROVE  Noted(f, k, n + 1 > at, v)
      <4>0. /\ at \in Nat /\ (n = at => ~(n > at) /\ n + 1 > at)
            /\ n # at => (n + 1 > at <=> n > at)
        BY <1>1
      <4>1. CASE n = at
        <5>1. t.k = k /\ t.v = v /\ k # "bytes" /\ k # ""
          BY <3>1, <4>1, Zenon DEF EndKeys, t
        <5>2. QED
          BY <2>2, <3>1, <4>0, <4>1, <5>1, Zenon DEF Noted, OrigChange
      <4>2. CASE n # at
        <5>1. n = o \/ n = o + 1 \/ n = o + 2 \/ n = o + 3 \/ n \in o + 4..r - 1
          BY <1>1, <1>5
        <5>2. t.k # k
          BY <1>3, <3>1, <4>2, <5>1
        <5>3. f.orig = s.orig \/ (DOMAIN f.orig = DOMAIN s.orig \cup {t.k}
                                  /\ \A x \in DOMAIN s.orig : f.orig[x] = s.orig[x])
          BY <2>2, Zenon DEF OrigChange
        <5>4. QED
          BY <3>1, <4>0, <4>2, <5>2, <5>3 DEF Noted
      <4>3. QED
        BY <4>1, <4>2
    <3>2. QED
      BY <1>2, <1>3, <3>1 DEF EndKeys
  <2>7. QED
    BY <2>3, <2>4, <2>5, <2>6
<1>6. CASE n >= r
  <2>1. s.reply = TRUE \/ (t.k = "src" /\ "src" \in DOMAIN s.orig)
    <3>1. n > r \/ (n = r /\ n > o)
      BY <1>1, <1>6
    <3>2. QED
      BY <1>2, <1>3, <1>4, <3>1, Zenon
  <2>2. /\ t.k = "" => f = s
        /\ t.k # "" => f.reply = TRUE
        /\ f.orig = s.orig /\ f.sent = s.sent
        /\ f.recv = IF t.k = "bytes" /\ s.recv = Nil THEN t.v ELSE s.recv
    BY <1>c, <2>1, Zenon DEF ReplyChange
  <2>3. f.reply = IF n + 1 > r THEN TRUE ELSE FALSE
    <3>1. n + 1 > r /\ (n > r \/ n = r)
      BY <1>1, <1>6
    <3>2. n = r => t.k # ""
      BY <1>3
    <3>3. QED
      BY <1>2, <2>2, <3>1, <3>2, Zenon
  <2>4. f.recv = IF e.acct /\ n + 1 > r + 5 THEN Received(e) ELSE Nil
    <3>1. CASE t.k = "bytes"
      <4>1. e.acct /\ n = r + 5
        <5>1. n = r \/ n \in r + 1..EndAt(e)
          BY <1>1, <1>6
        <5>2. QED
          BY <1>3, <3>1, <5>1
      <4>2. n + 1 > r + 5 /\ ~(n > r + 5)
        BY <1>1, <4>1
      <4>3. QED
        BY <1>2, <1>3, <2>2, <3>1, <4>1, <4>2, Zenon
    <3>2. CASE t.k # "bytes"
      <4>1. e.acct => (n + 1 > r + 5 <=> n > r + 5)
        <5>1. e.acct => n # r + 5
          BY <1>3, <3>2
        <5>2. QED
          BY <1>1, <5>1
      <4>2. QED
        BY <1>2, <2>2, <3>2, <4>1, Zenon
    <3>3. QED
      BY <3>1, <3>2
  <2>5. f.sent = IF e.acct /\ n + 1 > o + 5 THEN e.sent ELSE Nil
    <3>1. e.acct => n > o + 5 /\ n + 1 > o + 5
      BY <1>1, <1>6
    <3>2. QED
      BY <1>2, <2>2, <3>1, Zenon
  <2>6. /\ Noted(f, "src", n + 1 > o, "here")      /\ Noted(f, "dst", n + 1 > o + 1, "there")
        /\ Noted(f, "sport", n + 1 > o + 2, e.sport) /\ Noted(f, "dport", n + 1 > o + 3, e.dport)
    <3>1. /\ n > o /\ n > o + 1 /\ n > o + 2 /\ n > o + 3
          /\ n + 1 > o /\ n + 1 > o + 1 /\ n + 1 > o + 2 /\ n + 1 > o + 3
      BY <1>1, <1>6
    <3>2. QED
      BY <1>2, <2>2, <3>1, Zenon DEF Noted
  <2>7. QED
    BY <2>3, <2>4, <2>5, <2>6
<1>7. n < r \/ n >= r
  BY <1>1
<1>8. QED
  BY <1>5, <1>6, <1>7, Zenon

\* The third word of a line is its protocol, whatever that is.
LEMMA ThirdWord ==
  ASSUME NEW e \in Flows
  PROVE  ConntrackLine(e)[3].v = e.proto
<1>1. 3 \in 1..EndAt(e)
  BY DEF EndAt, ReplyAt, OrigAt, TupleLen
<1>2. 3 \notin OrigAt(e)..(OrigAt(e) + TupleLen(e) - 1)
  BY DEF OrigAt
<1>3. 3 \notin ReplyAt(e)..(ReplyAt(e) + TupleLen(e) - 1)
  BY DEF ReplyAt, OrigAt, TupleLen
<1>4. ~(3 > EndAt(e) - 2)
  BY DEF EndAt, ReplyAt, OrigAt, TupleLen
<1>5. ConntrackLine(e)[3] = Word(e.proto)
  BY <1>1, <1>2, <1>3, <1>4 DEF ConntrackLine
<1>6. Word(e.proto).v = e.proto
  BY DEF Word
<1>7. QED
  BY <1>5, <1>6, Zenon

\* The loop begins where the first tuple does.
LEMMA FieldsBegin ==
  ASSUME NEW e \in Flows, e.proto # "icmp", NEW line, line = ConntrackLine(e)
  PROVE  /\ Len(line) = EndAt(e) /\ EndAt(e) \in Nat /\ EndAt(e) > 6
         /\ FieldsSoFar(e, IF e.proto = "tcp" /\ Len(line) > 5 /\ line[6].k = "" THEN 7 ELSE 6, NoFields)
<1> DEFINE o == OrigAt(e)
           r == ReplyAt(e)
<1>1. Len(line) = EndAt(e) /\ (e.proto = "tcp" => line[6].k = "")
  BY LineIs
<1>2. /\ o \in {6, 7} /\ (e.proto = "tcp" <=> o = 7) /\ r \in Nat /\ r >= o + 4
      /\ EndAt(e) \in Nat /\ EndAt(e) >= r + 6 /\ e.acct \in BOOLEAN
  BY FlowIs
<1> HIDE DEF o, r
<1>3. (IF e.proto = "tcp" /\ Len(line) > 5 /\ line[6].k = "" THEN 7 ELSE 6) = o
  <2>0. EndAt(e) > 5
    BY <1>2
  <2>1. Len(line) > 5
    BY <1>1, <2>0, Zenon
  <2>2. e.proto = "tcp" => o = 7
    BY <1>2, Zenon
  <2>3. e.proto # "tcp" => o = 6
    BY <1>2
  <2>4. QED
    BY <1>1, <2>1, <2>2, <2>3, Zenon
<1>4. /\ o \in o..EndAt(e) + 1 /\ ~(o > r) /\ ~(o > r + 5)
      /\ ~(o > o) /\ ~(o > o + 1) /\ ~(o > o + 2) /\ ~(o > o + 3) /\ ~(o > o + 5)
  BY <1>2
<1>5. DOMAIN (NoFields.orig) = {} /\ NoFields.reply = FALSE /\ NoFields.sent = Nil /\ NoFields.recv = Nil
  BY DEF NoFields
<1>6. FieldsSoFar(e, o, NoFields)
  BY <1>4, <1>5, Zenon DEF FieldsSoFar, Noted, o, r
<1>7. EndAt(e) > 6
  BY <1>2
<1>8. QED
  BY <1>1, <1>2, <1>3, <1>6, <1>7, Zenon

\* After the last word the flow is known.
LEMMA FieldsEnd ==
  ASSUME NEW e \in Flows, e.proto # "icmp", NEW n, NEW s, FieldsSoFar(e, n, s), ~(n <= EndAt(e))
  PROVE  ParsedFlow(e.proto, s) = ExpectLine(e)
<1> DEFINE o == OrigAt(e)
           r == ReplyAt(e)
<1>1. /\ o \in {6, 7} /\ r \in Nat /\ r >= o + 4 /\ (e.acct => r >= o + 6)
      /\ EndAt(e) \in Nat /\ EndAt(e) >= r + 6
      /\ e.acct \in BOOLEAN /\ e.sent \in Nat /\ Received(e) \in Nat
  BY FlowIs
<1>2. /\ n \in o..EndAt(e) + 1
      /\ Noted(s, "src", n > o, "here")      /\ Noted(s, "dst", n > o + 1, "there")
      /\ Noted(s, "sport", n > o + 2, e.sport) /\ Noted(s, "dport", n > o + 3, e.dport)
      /\ s.sent = IF e.acct /\ n > o + 5 THEN e.sent ELSE Nil
      /\ s.recv = IF e.acct /\ n > r + 5 THEN Received(e) ELSE Nil
  BY Zenon DEF FieldsSoFar
<1> HIDE DEF o, r
<1>3. /\ n > o /\ n > o + 1 /\ n > o + 2 /\ n > o + 3 /\ n > r + 5
      /\ n > o + 5
  BY <1>1, <1>2
<1>4. /\ {"src", "dst", "sport", "dport"} \subseteq DOMAIN (s.orig)
      /\ s.orig["src"] = "here" /\ s.orig["dst"] = "there"
      /\ s.orig["sport"] = e.sport /\ s.orig["dport"] = e.dport
  BY <1>2, <1>3 DEF Noted
<1>5. /\ (IF s.sent = Nil THEN 0 ELSE s.sent) = IF e.acct THEN e.sent ELSE 0
      /\ (IF s.recv = Nil THEN 0 ELSE s.recv) = IF e.acct THEN Received(e) ELSE 0
  <2>1. e.sent # Nil /\ Received(e) # Nil
    BY <1>1, ReadersAssumption
  <2>2. QED
    BY <1>2, <1>3, <2>1, Zenon
<1>6. ParsedFlow(e.proto, s) =
        [proto |-> e.proto, local |-> <<s.orig["src"], s.orig["sport"]>>,
         remote |-> <<s.orig["dst"], s.orig["dport"]>>,
         sent |-> IF s.sent = Nil THEN 0 ELSE s.sent, recv |-> IF s.recv = Nil THEN 0 ELSE s.recv]
  BY <1>4, Zenon DEF ParsedFlow
<1>7. ExpectLine(e) =
        [proto |-> e.proto, local |-> <<"here", e.sport>>, remote |-> <<"there", e.dport>>,
         sent |-> IF e.acct THEN e.sent ELSE 0, recv |-> IF e.acct THEN Received(e) ELSE 0]
  BY Zenon DEF ExpectLine
<1>8. /\ <<s.orig["src"], s.orig["sport"]>> = <<"here", e.sport>>
      /\ <<s.orig["dst"], s.orig["dport"]>> = <<"there", e.dport>>
  BY <1>4, Zenon
<1>9. ParsedFlow(e.proto, s) =
        [proto |-> e.proto, local |-> <<"here", e.sport>>, remote |-> <<"there", e.dport>>,
         sent |-> IF s.sent = Nil THEN 0 ELSE s.sent, recv |-> IF s.recv = Nil THEN 0 ELSE s.recv]
  BY <1>6, <1>8, Zenon
<1> DEFINE sent == IF s.sent = Nil THEN 0 ELSE s.sent
           recv == IF s.recv = Nil THEN 0 ELSE s.recv
<1>10. sent = (IF e.acct THEN e.sent ELSE 0) /\ recv = (IF e.acct THEN Received(e) ELSE 0)
  BY <1>5, Zenon
<1>11. ParsedFlow(e.proto, s) = [proto |-> e.proto, local |-> <<"here", e.sport>>,
                                 remote |-> <<"there", e.dport>>, sent |-> sent, recv |-> recv]
  BY <1>9, Zenon
<1> HIDE DEF sent, recv
<1>12. QED
  BY <1>7, <1>10, <1>11, Zenon

-----------------------------------------------------------------------------
(* The readers: NetworkManager's connections *)

LEMMA FirstNetworkIs ==
  ASSUME NEW n \in Nat, NEW S, NEW d \in [1..n -> S], NEW at, at = {i \in DOMAIN d : d[i] \in Networks}
  PROVE  /\ at = {} => FirstNetwork(d) = Nil
         /\ at # {} => FirstNetwork(d) = d[Min(at)] /\ FirstNetwork(d) \in Networks
<1>1. d \in Seq(S) /\ Len(d) = n
  OBVIOUS
<1>2. {i \in 1..Len(d) : d[i] \in Networks} = at /\ at \subseteq Nat
  BY <1>1
<1>3. FirstNetwork(d) = LET k == IF at # {} THEN Min(at) ELSE 0 IN IF k = 0 THEN Nil ELSE d[k]
  BY <1>2 DEF FirstNetwork, SelectInSeq
<1>4. at # {} => Min(at) \in at /\ Min(at) # 0
  BY <1>1, <1>2, MinIsLeast
<1>5. QED
  BY <1>3, <1>4

\* Looking for the first line with the uid or without a number, and stopping there, finds
\* what the description asks for.

\* The connections with a network, and those that say whether they are metered.
Seen(cs) == {n \in DOMAIN cs : cs[n].type = "wifi" /\ \E d \in DOMAIN (cs[n].devices) : cs[n].devices[d] \in Networks}
Told(cs) == {n \in DOMAIN cs : cs[n].type # "error" /\ cs[n].metered # "error"}
NetworkOf(cs) == [n \in DOMAIN cs |-> FirstNetwork(cs[n].devices)]
MeteredOf(cs) == [n \in DOMAIN cs |-> cs[n].metered]
FirstBefore(n, M, A) == IF \E m \in M : m < n THEN A[Min(M)] ELSE Nil
AskedSoFar(cs, n, s) ==
  /\ n \in 1..Len(cs) + 1
  /\ s = [ssid |-> FirstBefore(n, Seen(cs), NetworkOf(cs)), metered |-> FirstBefore(n, Told(cs), MeteredOf(cs))]

\* One more connection: what comes first among those before n + 1.
LEMMA FirstMoves ==
  ASSUME NEW N \in Nat, NEW M \in SUBSET (1..N), NEW A, \A m \in M : A[m] # Nil,
         NEW n \in 1..N, NEW v, v = FirstBefore(n, M, A),
         NEW w, w = IF v = Nil /\ n \in M THEN A[n] ELSE v
  PROVE  w = FirstBefore(n + 1, M, A)
<1>1. M # {} => Min(M) \in M /\ \A m \in M : Min(M) <= m
  <2>1. M \subseteq Nat
    OBVIOUS
  <2>2. QED
    BY <2>1, MinIsLeast
<1>2. \A m \in M : m < n + 1 <=> m < n \/ m = n
  OBVIOUS
<1>3. CASE \E m \in M : m < n
  <2>1. v = A[Min(M)] /\ v # Nil
    BY <1>1, <1>3, Zenon DEF FirstBefore
  <2>2. \E m \in M : m < n + 1
    BY <1>2, <1>3, Zenon
  <2>3. QED
    BY <2>1, <2>2, Zenon DEF FirstBefore
<1>4. CASE ~ \E m \in M : m < n
  <2>1. v = Nil
    BY <1>4, Zenon DEF FirstBefore
  <2>2. CASE n \in M
    <3>1. Min(M) = n
      <4>1. Min(M) \in M /\ Min(M) <= n /\ ~(Min(M) < n)
        BY <1>1, <1>4, <2>2
      <4>2. Min(M) \in 1..N
        BY <4>1, Zenon
      <4>3. QED
        BY <4>1, <4>2
    <3>2. QED
      BY <1>2, <2>1, <2>2, <3>1, Zenon DEF FirstBefore
  <2>3. CASE n \notin M
    <3>1. ~ \E m \in M : m < n + 1
      BY <1>2, <1>4, <2>3, Zenon
    <3>2. QED
      BY <2>1, <2>3, <3>1, Zenon DEF FirstBefore
  <2>4. QED
    BY <2>2, <2>3
<1>5. QED
  BY <1>3, <1>4

\* What a list of connections is made of.
LEMMA ConnectionsAre ==
  ASSUME NEW cs \in Lines(Connection)
  PROVE  /\ Len(cs) \in Nat /\ DOMAIN cs = 1..Len(cs)
         /\ Seen(cs) \in SUBSET (1..Len(cs)) /\ Told(cs) \in SUBSET (1..Len(cs))
         /\ \A n \in 1..Len(cs) : n \notin Seen(cs) /\ cs[n].type = "wifi" => NetworkOf(cs)[n] = Nil
         /\ \A n \in Seen(cs) : /\ cs[n].type = "wifi" /\ NetworkOf(cs)[n] # Nil
                                /\ NetworkOf(cs)[n] = cs[n].devices[Min({d \in DOMAIN (cs[n].devices) : cs[n].devices[d] \in Networks})]
         /\ \A n \in Told(cs) : MeteredOf(cs)[n] = cs[n].metered /\ MeteredOf(cs)[n] # Nil
<1>1. PICK k \in Nat : cs \in [1..k -> Connection]
  BY ReadersAssumption DEF Lines
<1>2. Len(cs) = k /\ DOMAIN cs = 1..k
  BY <1>1
<1>3. ASSUME NEW n \in 1..k, NEW c, c = cs[n], NEW at, at = {d \in DOMAIN (c.devices) : c.devices[d] \in Networks}
      PROVE  /\ at = {} => NetworkOf(cs)[n] = Nil
             /\ at # {} => NetworkOf(cs)[n] = c.devices[Min(at)] /\ NetworkOf(cs)[n] \in Networks
             /\ n \in Seen(cs) <=> c.type = "wifi" /\ at # {}
             /\ n \in Told(cs) <=> c.type # "error" /\ c.metered # "error"
             /\ c.metered \in {"yes", "no", "error"}
             /\ MeteredOf(cs)[n] = c.metered
  <2>1. c \in Connection
    BY <1>1, <1>3
  <2>2. c.metered \in {"yes", "no", "error"} /\ c.devices \in Lines(Networks \cup {"silent"})
    BY <2>1 DEF Connection
  <2>3. PICK j \in Nat : c.devices \in [1..j -> Networks \cup {"silent"}]
    BY <2>2, ReadersAssumption DEF Lines
  <2> DEFINE d == c.devices
  <2>4. d \in [1..j -> Networks \cup {"silent"}] /\ at = {i \in DOMAIN d : d[i] \in Networks}
    BY <1>3, <2>3
  <2> HIDE DEF d
  <2>5. /\ at = {} => FirstNetwork(d) = Nil
        /\ at # {} => FirstNetwork(d) = d[Min(at)] /\ FirstNetwork(d) \in Networks
    BY <2>4, FirstNetworkIs
  <2>6. NetworkOf(cs)[n] = FirstNetwork(d) /\ MeteredOf(cs)[n] = c.metered
    BY <1>2, <1>3 DEF NetworkOf, MeteredOf, d
  <2>7. n \in Seen(cs) <=> c.type = "wifi" /\ at # {}
    BY <1>2, <1>3 DEF Seen
  <2>8. n \in Told(cs) <=> c.type # "error" /\ c.metered # "error"
    BY <1>2, <1>3 DEF Told
  <2>9. QED
    BY <2>2, <2>5, <2>6, <2>7, <2>8, Zenon DEF d
<1>4. Nil \notin Networks /\ Nil \notin {"yes", "no"}
  BY ReadersAssumption
<1>5. Seen(cs) \in SUBSET (1..k) /\ Told(cs) \in SUBSET (1..k)
  BY <1>2 DEF Seen, Told
<1>6. ASSUME NEW n \in 1..k
      PROVE  /\ n \notin Seen(cs) /\ cs[n].type = "wifi" => NetworkOf(cs)[n] = Nil
             /\ n \in Seen(cs) =>
                  /\ cs[n].type = "wifi" /\ NetworkOf(cs)[n] # Nil
                  /\ NetworkOf(cs)[n] = cs[n].devices[Min({d \in DOMAIN (cs[n].devices) : cs[n].devices[d] \in Networks})]
             /\ n \in Told(cs) => MeteredOf(cs)[n] = cs[n].metered /\ MeteredOf(cs)[n] # Nil
  <2> DEFINE at == {d \in DOMAIN (cs[n].devices) : cs[n].devices[d] \in Networks}
  <2>1. /\ at = {} => NetworkOf(cs)[n] = Nil
        /\ at # {} => NetworkOf(cs)[n] = cs[n].devices[Min(at)] /\ NetworkOf(cs)[n] \in Networks
        /\ n \in Seen(cs) <=> cs[n].type = "wifi" /\ at # {}
        /\ n \in Told(cs) <=> cs[n].type # "error" /\ cs[n].metered # "error"
        /\ cs[n].metered \in {"yes", "no", "error"}
        /\ MeteredOf(cs)[n] = cs[n].metered
    BY <1>3
  <2> HIDE DEF at
  <2>2. n \in Told(cs) => MeteredOf(cs)[n] = cs[n].metered /\ MeteredOf(cs)[n] # Nil
    BY <1>4, <2>1
  <2>3. n \notin Seen(cs) /\ cs[n].type = "wifi" => NetworkOf(cs)[n] = Nil
    BY <2>1, Zenon
  <2>4. n \in Seen(cs) => /\ cs[n].type = "wifi" /\ NetworkOf(cs)[n] # Nil
                          /\ NetworkOf(cs)[n] = cs[n].devices[Min(at)]
    BY <1>4, <2>1, Zenon
  <2>5. QED
    BY <2>2, <2>3, <2>4 DEF at
<1>7. QED
  BY <1>2, <1>5, <1>6

\* The description of the answer, in terms of the two sets.
LEMMA ExpectManagerIs ==
  ASSUME NEW cs \in Lines(Connection)
  PROVE  ExpectManager(cs) = [ssid    |-> IF Seen(cs) = {} THEN Nil ELSE NetworkOf(cs)[Min(Seen(cs))],
                              metered |-> IF Told(cs) = {} THEN Nil ELSE MeteredOf(cs)[Min(Told(cs))]]
<1> DEFINE readable == {n \in DOMAIN cs : cs[n].type # "error"}
           at(n)    == {d \in DOMAIN (cs[n].devices) : cs[n].devices[d] \in Networks}
           seen     == {n \in readable : cs[n].type = "wifi" /\ at(n) # {}}
           told     == {n \in readable : cs[n].metered # "error"}
<1>1. ExpectManager(cs) = [ssid    |-> IF seen = {} THEN Nil ELSE cs[Min(seen)].devices[Min(at(Min(seen)))],
                           metered |-> IF told = {} THEN Nil ELSE cs[Min(told)].metered]
  BY DEF ExpectManager
<1>2. seen = Seen(cs)
  BY DEF Seen
<1>3. told = Told(cs)
  BY DEF Told
<1>4. Seen(cs) # {} => Min(Seen(cs)) \in Seen(cs)
  <2>1. Seen(cs) \subseteq Nat
    BY ConnectionsAre
  <2>2. QED
    BY <2>1, MinIsLeast
<1>5. Told(cs) # {} => Min(Told(cs)) \in Told(cs)
  <2>1. Told(cs) \subseteq Nat
    BY ConnectionsAre
  <2>2. QED
    BY <2>1, MinIsLeast
<1>6. Seen(cs) # {} => NetworkOf(cs)[Min(Seen(cs))] = cs[Min(Seen(cs))].devices[Min(at(Min(Seen(cs))))]
  BY <1>4, ConnectionsAre, Zenon
<1>7. Told(cs) # {} => MeteredOf(cs)[Min(Told(cs))] = cs[Min(Told(cs))].metered
  BY <1>5, ConnectionsAre, Zenon
<1> HIDE DEF seen, told, at
<1>8. QED
  BY <1>1, <1>2, <1>3, <1>6, <1>7, Zenon

\* One more connection asked.
LEMMA AskKeeps ==
  ASSUME NEW cs \in Lines(Connection), NEW n, NEW s, AskedSoFar(cs, n, s), n <= Len(cs)
  PROVE  AskedSoFar(cs, n + 1, AskConnection(s, cs[n]))
<1> DEFINE c == cs[n]
           f == AskConnection(s, c)
<1>1. /\ Len(cs) \in Nat /\ n \in 1..Len(cs) /\ n + 1 \in 1..Len(cs) + 1
  BY ConnectionsAre DEF AskedSoFar
<1>2. /\ Seen(cs) \in SUBSET (1..Len(cs)) /\ Told(cs) \in SUBSET (1..Len(cs)) /\ DOMAIN cs = 1..Len(cs)
      /\ \A m \in Seen(cs) : NetworkOf(cs)[m] # Nil
      /\ \A m \in Told(cs) : MeteredOf(cs)[m] # Nil
      /\ n \notin Seen(cs) /\ c.type = "wifi" => NetworkOf(cs)[n] = Nil
      /\ n \in Seen(cs) => c.type = "wifi"
  BY <1>1, ConnectionsAre, Zenon
<1>3. s.ssid = FirstBefore(n, Seen(cs), NetworkOf(cs)) /\ s.metered = FirstBefore(n, Told(cs), MeteredOf(cs))
      /\ s = [ssid |-> s.ssid, metered |-> s.metered]
  BY DEF AskedSoFar
<1>4. n \in Told(cs) <=> c.type # "error" /\ c.metered # "error"
  BY <1>1, <1>2 DEF Told
<1>5. NetworkOf(cs)[n] = FirstNetwork(c.devices) /\ MeteredOf(cs)[n] = c.metered
  BY <1>1, <1>2 DEF NetworkOf, MeteredOf
<1> HIDE DEF c
<1>6. f = [ssid    |-> IF s.ssid = Nil /\ n \in Seen(cs) THEN NetworkOf(cs)[n] ELSE s.ssid,
           metered |-> IF s.metered = Nil /\ n \in Told(cs) THEN MeteredOf(cs)[n] ELSE s.metered]
  <2>1. CASE c.type = "error"
    <3>1. n \notin Seen(cs) /\ n \notin Told(cs) /\ f = s
      BY <1>2, <1>4, <2>1 DEF AskConnection
    <3>2. QED
      BY <1>3, <3>1, Zenon
  <2>2. CASE c.type # "error"
    <3>1. f = [ssid    |-> IF s.ssid = Nil /\ c.type = "wifi" THEN FirstNetwork(c.devices) ELSE s.ssid,
               metered |-> IF s.metered = Nil /\ c.metered # "error" THEN c.metered ELSE s.metered]
      BY <2>2, Zenon DEF AskConnection
    <3>2. (IF s.ssid = Nil /\ c.type = "wifi" THEN FirstNetwork(c.devices) ELSE s.ssid)
            = IF s.ssid = Nil /\ n \in Seen(cs) THEN NetworkOf(cs)[n] ELSE s.ssid
      BY <1>2, <1>5, Zenon
    <3>3. (IF s.metered = Nil /\ c.metered # "error" THEN c.metered ELSE s.metered)
            = IF s.metered = Nil /\ n \in Told(cs) THEN MeteredOf(cs)[n] ELSE s.metered
      BY <1>4, <1>5, <2>2, Zenon
    <3>4. QED
      BY <3>1, <3>2, <3>3, Zenon
  <2>3. QED
    BY <2>1, <2>2
<1> HIDE DEF f
<1>7. (IF s.ssid = Nil /\ n \in Seen(cs) THEN NetworkOf(cs)[n] ELSE s.ssid) = FirstBefore(n + 1, Seen(cs), NetworkOf(cs))
  BY <1>1, <1>2, <1>3, FirstMoves
<1>8. (IF s.metered = Nil /\ n \in Told(cs) THEN MeteredOf(cs)[n] ELSE s.metered) = FirstBefore(n + 1, Told(cs), MeteredOf(cs))
  BY <1>1, <1>2, <1>3, FirstMoves
<1>9. AskedSoFar(cs, n + 1, f)
  BY <1>1, <1>6, <1>7, <1>8, Zenon DEF AskedSoFar
<1>10. QED
  BY <1>9 DEF f, c

\* All have been asked.
LEMMA AskEnds ==
  ASSUME NEW cs \in Lines(Connection), NEW n, NEW s, AskedSoFar(cs, n, s), ~(n <= Len(cs))
  PROVE  s = ExpectManager(cs)
<1>1. /\ Len(cs) \in Nat /\ n \in 1..Len(cs) + 1
      /\ Seen(cs) \in SUBSET (1..Len(cs)) /\ Told(cs) \in SUBSET (1..Len(cs))
  BY ConnectionsAre DEF AskedSoFar
<1>2. /\ Seen(cs) # {} <=> \E m \in Seen(cs) : m < n
      /\ Told(cs) # {} <=> \E m \in Told(cs) : m < n
  BY <1>1
<1>3. /\ FirstBefore(n, Seen(cs), NetworkOf(cs)) = IF Seen(cs) = {} THEN Nil ELSE NetworkOf(cs)[Min(Seen(cs))]
      /\ FirstBefore(n, Told(cs), MeteredOf(cs)) = IF Told(cs) = {} THEN Nil ELSE MeteredOf(cs)[Min(Told(cs))]
  BY <1>2, Zenon DEF FirstBefore
<1>4. s = [ssid |-> FirstBefore(n, Seen(cs), NetworkOf(cs)), metered |-> FirstBefore(n, Told(cs), MeteredOf(cs))]
  BY Zenon DEF AskedSoFar
<1>5. QED
  BY <1>3, <1>4, ExpectManagerIs, Zenon

\* Nothing has been asked: nothing is known.
LEMMA AskBegins ==
  ASSUME NEW cs \in Lines(Connection)
  PROVE  AskedSoFar(cs, 1, NoAnswers)
<1>1. /\ Len(cs) \in Nat /\ Seen(cs) \in SUBSET (1..Len(cs)) /\ Told(cs) \in SUBSET (1..Len(cs))
  BY ConnectionsAre
<1>2. (~ \E m \in Seen(cs) : m < 1) /\ (~ \E m \in Told(cs) : m < 1) /\ 1 \in 1..Len(cs) + 1
  BY <1>1
<1>3. QED
  BY <1>2, Zenon DEF AskedSoFar, FirstBefore, NoAnswers

-----------------------------------------------------------------------------
\* Within a loop what has been gathered is what the words, or the connections,
\* before the next one say.
ReadInv ==
  /\ ReadersAreExact
  /\ reading.fn = "fields" => /\ reading.in \in Flows /\ reading.in.proto # "icmp"
                              /\ FieldsSoFar(reading.in, reading.at, reading.got)
  /\ reading.fn = "connections" => /\ reading.in \in Lines(Connection)
                                   /\ AskedSoFar(reading.in, reading.at, reading.got)

\* A reader that returns at once.
LEMMA ReturnIs ==
  ASSUME NEW fn \in {"packet", "line", "user", "config", "manager", "no manager"}, NEW in, NEW out, Reads(fn, in, out)
  PROVE  /\ reading'.fn = fn /\ reading'.in = in /\ reading'.out = out
         /\ reading'.fn # "fields" /\ reading'.fn # "connections"
BY DEF Reads

\* One step of a reader.
LEMMA ReadStep ==
  ASSUME ReadInv, [ReadNext]_readVars
  PROVE  ReadInv'
<1>1. CASE ReadPacket
  <2>1. PICK h \in Headers : \E cut \in 0..(PortsAt(h) + 5) : Reads("packet", <<h, cut>>, ParsePacket(Packet(h, cut)))
    BY <1>1, Zenon DEF ReadPacket
  <2>2. PICK cut \in 0..(PortsAt(h) + 5) : Reads("packet", <<h, cut>>, ParsePacket(Packet(h, cut)))
    BY <2>1, Zenon
  <2>3. cut \in Nat
    BY HeaderIs
  <2>4. ParsePacket(Packet(h, cut)) = ExpectPacket(h, cut)
    BY <2>3, PacketIs, Zenon
  <2>5. /\ reading'.fn = "packet" /\ reading'.in = <<h, cut>> /\ reading'.out = ExpectPacket(h, cut)
    BY <2>2, <2>4, ReturnIs
  <2>6. reading'.in[1] = h /\ reading'.in[2] = cut
    BY <2>5
  <2>7. ReadersAreExact'
    BY <2>5, <2>6 DEF ReadersAreExact
  <2>8. QED
    BY <2>5, <2>7 DEF ReadInv
<1>2. CASE ReadLine
  <2> DEFINE line(e) == ConntrackLine(e)
             at(e) == IF e.proto = "tcp" /\ Len(line(e)) > 5 /\ line(e)[6].k = "" THEN 7 ELSE 6
  <2>1. PICK e \in Flows :
          LET proto == ConntrackLine(e)[3].v
          IN IF Len(line(e)) >= 5 /\ proto \in {"tcp", "udp"}
             THEN Loops("fields", e, IF proto = "tcp" /\ Len(line(e)) > 5 /\ line(e)[6].k = "" THEN 7 ELSE 6, NoFields)
             ELSE Reads("line", e, Nil)
    BY <1>2, Zenon DEF ReadLine
  <2>2. ConntrackLine(e)[3].v = e.proto /\ e.proto \in {"tcp", "udp", "icmp"}
    BY ThirdWord DEF Flows
  <2>3. IF Len(line(e)) >= 5 /\ e.proto \in {"tcp", "udp"} THEN Loops("fields", e, at(e), NoFields) ELSE Reads("line", e, Nil)
    BY <2>1, <2>2, Zenon
  <2>4. CASE e.proto = "icmp"
    <3>1. Reads("line", e, Nil)
      BY <2>3, <2>4
    <3>2. reading'.fn = "line" /\ reading'.in = e /\ reading'.out = ExpectLine(e)
      BY <2>4, <3>1, ReturnIs DEF ExpectLine
    <3>3. QED
      BY <3>2 DEF ReadInv, ReadersAreExact
  <2>5. CASE e.proto # "icmp"
    <3>1. Len(line(e)) >= 5 /\ FieldsSoFar(e, at(e), NoFields)
      <4>1. /\ Len(line(e)) = EndAt(e) /\ EndAt(e) \in Nat /\ EndAt(e) > 6
            /\ FieldsSoFar(e, at(e), NoFields)
        BY <2>5, FieldsBegin, Zenon
      <4> HIDE DEF line, at
      <4>2. QED
        BY <4>1
    <3> HIDE DEF line, at
    <3>2. Loops("fields", e, at(e), NoFields)
      BY <2>2, <2>3, <2>5, <3>1
    <3>3. reading'.fn = "fields" /\ reading'.in = e /\ reading'.at = at(e) /\ reading'.got = NoFields
      BY <3>2 DEF Loops
    <3>4. QED
      BY <2>5, <3>1, <3>3, Zenon DEF ReadInv, ReadersAreExact
  <2>6. QED
    BY <2>4, <2>5
<1>3. CASE ReadPasswd
  <2>1. PICK file \in Lines(PasswdLine), uid \in {0, 1} : Reads("user", <<file, uid>>, FindUser(file, uid))
    BY <1>3, Zenon DEF ReadPasswd
  <2>2. FindUser(file, uid) = ExpectUser(file, uid)
    BY UserIs, Zenon
  <2>3. reading'.fn = "user" /\ reading'.in = <<file, uid>> /\ reading'.out = ExpectUser(file, uid)
    BY <2>1, <2>2, ReturnIs
  <2>4. reading'.in[1] = file /\ reading'.in[2] = uid
    BY <2>3
  <2>5. QED
    BY <2>3, <2>4 DEF ReadInv, ReadersAreExact
<1>4. CASE ReadConfig
  <2>1. PICK f \in ConfigFile : Reads("config", f, LoadConfig(f))
    BY <1>4, Zenon DEF ReadConfig
  <2>2. reading'.fn = "config" /\ reading'.in = f /\ reading'.out = LoadConfig(f)
    BY <2>1, ReturnIs
  <2>3. \/ \A k \in DOMAIN Defaults : (reading'.out[k] = "given") = (k \in reading'.in.set)
        \/ reading'.out = Defaults
    BY <2>2, ConfigIs, Zenon
  <2>4. QED
    BY <2>2, <2>3, Zenon DEF ReadInv, ReadersAreExact
<1>5. CASE ReadManager
  <2>1. PICK cs \in Lines(Connection) : Loops("connections", cs, 1, NoAnswers)
    BY <1>5, Zenon DEF ReadManager
  <2>2. reading'.fn = "connections" /\ reading'.in = cs /\ reading'.at = 1 /\ reading'.got = NoAnswers
    BY <2>1 DEF Loops
  <2>3. AskedSoFar(cs, 1, NoAnswers)
    BY AskBegins
  <2>4. QED
    BY <2>2, <2>3, Zenon DEF ReadInv, ReadersAreExact
<1>6. CASE NextField
  <2> DEFINE e == reading.in
             line == ConntrackLine(e)
  <2>1. e \in Flows /\ e.proto # "icmp" /\ FieldsSoFar(e, reading.at, reading.got)
    BY <1>6, Zenon DEF NextField, ReadInv
  <2>2. Len(line) = EndAt(e) /\ line[3].v = e.proto
    BY <2>1, LineIs
  <2>3. CASE reading.at <= Len(line)
    <3>1. Loops("fields", e, reading.at + 1, Field(reading.got, line[reading.at]))
      BY <1>6, <2>3, Zenon DEF NextField
    <3>2. FieldsSoFar(e, reading.at + 1, Field(reading.got, line[reading.at]))
      BY <2>1, <2>2, <2>3, NextFieldKeeps, Zenon
    <3> HIDE DEF e, line
    <3>3. /\ reading'.fn = "fields" /\ reading'.in = e /\ reading'.at = reading.at + 1
          /\ reading'.got = Field(reading.got, line[reading.at])
      BY <3>1 DEF Loops
    <3>4. QED
      BY <2>1, <3>2, <3>3, Zenon DEF ReadInv, ReadersAreExact
  <2>4. CASE ~(reading.at <= Len(line))
    <3>1. Reads("line", e, ParsedFlow(e.proto, reading.got))
      BY <1>6, <2>2, <2>4, Zenon DEF NextField
    <3>2. ParsedFlow(e.proto, reading.got) = ExpectLine(e)
      BY <2>1, <2>2, <2>4, FieldsEnd, Zenon
    <3> HIDE DEF e
    <3>3. reading'.fn = "line" /\ reading'.in = e /\ reading'.out = ExpectLine(e)
      BY <3>1, <3>2, ReturnIs
    <3>4. QED
      BY <3>3 DEF ReadInv, ReadersAreExact
  <2>5. QED
    BY <2>3, <2>4
<1>7. CASE NextConnection
  <2> DEFINE cs == reading.in
  <2>1. cs \in Lines(Connection) /\ AskedSoFar(cs, reading.at, reading.got)
    BY <1>7, Zenon DEF NextConnection, ReadInv
  <2>2. CASE reading.at <= Len(cs)
    <3>1. Loops("connections", cs, reading.at + 1, AskConnection(reading.got, cs[reading.at]))
      BY <1>7, <2>2, Zenon DEF NextConnection
    <3>2. AskedSoFar(cs, reading.at + 1, AskConnection(reading.got, cs[reading.at]))
      BY <2>1, <2>2, AskKeeps, Zenon
    <3> HIDE DEF cs
    <3>3. /\ reading'.fn = "connections" /\ reading'.in = cs /\ reading'.at = reading.at + 1
          /\ reading'.got = AskConnection(reading.got, cs[reading.at])
      BY <3>1 DEF Loops
    <3>4. QED
      BY <2>1, <3>2, <3>3, Zenon DEF ReadInv, ReadersAreExact
  <2>3. CASE ~(reading.at <= Len(cs))
    <3>1. Reads("manager", cs, reading.got)
      BY <1>7, <2>3, Zenon DEF NextConnection
    <3>2. reading.got = ExpectManager(cs)
      BY <2>1, <2>3, AskEnds, Zenon
    <3> HIDE DEF cs
    <3>3. reading'.fn = "manager" /\ reading'.in = cs /\ reading'.out = ExpectManager(cs)
      BY <3>1, <3>2, ReturnIs
    <3>4. QED
      BY <3>3 DEF ReadInv, ReadersAreExact
  <2>4. QED
    BY <2>2, <2>3
<1>8. CASE ManagerFails
  <2>1. reading'.fn = "no manager"
    BY <1>8 DEF ManagerFails, Reads
  <2>2. QED
    BY <2>1 DEF ReadInv, ReadersAreExact
<1>9. CASE UNCHANGED readVars
  BY <1>9, Zenon DEF readVars, ReadInv, ReadersAreExact
<1>10. QED
  BY <1>1, <1>2, <1>3, <1>4, <1>5, <1>6, <1>7, <1>8, <1>9, Zenon DEF ReadNext

\* For any ports, header lengths, counters and number of lines, connections and devices:
\* each reader returns what was written or refuses it (firewall.rs:290-340,
\* conntrack.rs:133-209, procs.rs:123-134, config.rs:79-112, netinfo.rs:226-282).
THEOREM WhatIsReadIsWhatWasWritten == ReadSpec => []ReadersAreExact
<1>1. ReadInit => ReadInv
  BY DEF ReadInit, ReadInv, ReadersAreExact
<1>2. ReadInv /\ [ReadNext]_readVars => ReadInv'
  BY ReadStep
<1>3. ReadInv => ReadersAreExact
  BY Zenon DEF ReadInv
<1>4. QED
  BY <1>1, <1>2, <1>3, PTL DEF ReadSpec
=============================================================================
