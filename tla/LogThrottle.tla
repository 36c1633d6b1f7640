---------------------------- MODULE LogThrottle ----------------------------
(***************************************************************************)
(* The limiter of blocked-packet log lines (LogThrottle::should_log in     *)
(* daemon/src/firewall.rs).  The queue worker calls it for every packet it *)
(* drops, with a monotonic clock; per executable and destination it logs   *)
(* the first block, counts the ones that follow within the window, and     *)
(* reports them with the first block after the window.                     *)
(***************************************************************************)
EXTENDS Integers

CONSTANTS Pairs,      \* (executable, destination) pairs
          Window,     \* LogThrottle::window
          MaxTime,    \* bound: ticks of the clock
          MaxBlocks   \* bound: blocks of a key

ASSUME Numbers == Window \in Nat /\ MaxTime \in Nat /\ MaxBlocks \in Nat

NoEntry == [window_start |-> -1, suppressed |-> 0]

VARIABLES now,       \* Instant::now()
          entries,   \* NoEntry stands for a key that is not in the map
          blocks,    \* packets of each key that were blocked
          covered,   \* those of them that a log line has counted
          lastLine   \* when a line about the key was last logged

logVars == <<now, entries, blocks, covered, lastLine>>

LogInit ==
  /\ now = 0
  /\ entries = [k \in Pairs |-> NoEntry]
  /\ blocks = [k \in Pairs |-> 0] /\ covered = [k \in Pairs |-> 0]
  /\ lastLine = [k \in Pairs |-> -1]

Tick == now < MaxTime /\ now' = now + 1 /\ UNCHANGED <<entries, blocks, covered, lastLine>>

Blocked(k) == blocks[k] < MaxBlocks /\ blocks' = [blocks EXCEPT ![k] = @ + 1]

\* Faulty variant of Line: the count of the entry is not reset.
Line_KeepsCount(k, n) ==
  /\ entries' = [entries EXCEPT ![k].window_start = now]
  /\ covered' = [covered EXCEPT ![k] = @ + n]
  /\ lastLine' = [lastLine EXCEPT ![k] = now]

\* A line that counts n blocks opens a new window.
Line(k, n) ==
  /\ entries' = [entries EXCEPT ![k] = [window_start |-> now, suppressed |-> 0]]
  /\ covered' = [covered EXCEPT ![k] = @ + n]
  /\ lastLine' = [lastLine EXCEPT ![k] = now]

First(k) == entries[k] = NoEntry /\ Blocked(k) /\ Line(k, 1) /\ UNCHANGED now

\* Faulty variant of InWindow: the window ends one tick early.
InWindow_Closed(k) == now <= entries[k].window_start + Window - 2

InWindow(k) == now - entries[k].window_start < Window

Suppress(k) ==
  /\ entries[k] # NoEntry /\ InWindow(k)
  /\ Blocked(k)
  /\ entries' = [entries EXCEPT ![k].suppressed = @ + 1]
  /\ UNCHANGED <<now, covered, lastLine>>

Summary(k) ==
  /\ entries[k] # NoEntry /\ ~InWindow(k)
  /\ Blocked(k) /\ Line(k, entries[k].suppressed + 1)
  /\ UNCHANGED now

LogNext == Tick \/ \E k \in Pairs : First(k) \/ Suppress(k) \/ Summary(k)

LogSpec == LogInit /\ [][LogNext]_logVars

-----------------------------------------------------------------------------
(* Properties *)

Entry == [window_start : Int, suppressed : Nat]

LogTypeOK ==
  /\ now \in Nat
  /\ entries \in [Pairs -> Entry]
  /\ blocks \in [Pairs -> Nat] /\ covered \in [Pairs -> Nat]
  /\ lastLine \in [Pairs -> Int]

\* No block goes uncounted and none is counted twice: a log line has reported
\* it or the entry of its key still holds it.
BlocksAreAccountedFor ==
  \A k \in Pairs : blocks[k] = covered[k] + entries[k].suppressed

\* Two lines about the same executable and destination are a window apart,
\* however often the packet is retried (at now - window_start = window too).
LinesAreApart ==
  [][\A k \in Pairs : covered'[k] # covered[k] =>
       lastLine[k] = -1 \/ now - lastLine[k] >= Window]_logVars

-----------------------------------------------------------------------------
(* The inductive invariant *)

\* The window of an entry began with its last line.
WindowsFollowLines ==
  \A k \in Pairs : /\ entries[k].window_start = lastLine[k]
                   /\ entries[k].window_start = -1 => entries[k] = NoEntry

IInv == LogTypeOK /\ BlocksAreAccountedFor /\ WindowsFollowLines
=============================================================================
