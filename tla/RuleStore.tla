----------------------------- MODULE RuleStore -----------------------------
(***************************************************************************)
(* The daemon's rule store (daemon/src/rules.rs) with the callers that     *)
(* change it: the AddRule and RemoveRule requests of IPC clients and the   *)
(* reaper of expired rules (daemon/src/main.rs), each on a thread of its   *)
(* own.  An operation reads the clock, waits for the store's mutex,        *)
(* changes the rules, writes rules.json.tmp, renames it over rules.json,   *)
(* drops the mutex, publishes its events and only then answers.  The       *)
(* daemon may die between any two of these steps, and a save may fail at   *)
(* any of them, which the code only logs.                                  *)
(***************************************************************************)
EXTENDS Integers, FiniteSets, FiniteSetsExt

CONSTANTS Clients,       \* threads that serve an IPC connection
          Reaper,        \* the thread of reaper_loop
          Main,          \* the thread of main: the save at shutdown
          Nobody,        \* the mutex is free
          Exes,          \* executable paths
          Inputs,        \* the RuleInputs that clients send
          Never,         \* Option::None for a ttl or an expiry
          U64Span,       \* 2^64, scaled down: ttl_secs is below it
          DurationMax,   \* largest magnitude chrono::Duration::seconds takes
          DateMax,       \* last DateTime<Utc> that chrono represents
          MaxTime,       \* bound: ticks of the clock
          MaxId,         \* bound: rules ever added
          MaxFaults,     \* bound: saves that fail
          MaxCrashes     \* bound: deaths of the daemon

Threads == Clients \cup {Reaper, Main}
Actions == {"Block", "Allow"}

ASSUME NeverIsNoTime == Never \notin Int
ASSUME ThreadNames == Reaper \notin Clients /\ Main \notin Clients
                      /\ Reaper # Main /\ Nobody \notin Threads
ASSUME InputsAreRuleInputs ==
  Inputs \subseteq [exe : Exes, action : Actions, persistent : BOOLEAN,
                    ttl : Int \cup {Never}]
ASSUME Numbers == /\ U64Span \in Int /\ DurationMax \in Int /\ DateMax \in Int
                  /\ MaxTime \in Nat /\ MaxId \in Nat
                  /\ MaxFaults \in Nat /\ MaxCrashes \in Nat

VARIABLES now,      \* the wall clock, Utc::now()
          up,       \* the daemon is running
          mem,      \* the store: next_id and the rules
          tmp,      \* rules.json.tmp
          disk,     \* rules.json
          lock,     \* holder of the store's mutex
          th,       \* what each thread is doing
          told,     \* the rules a subscriber has been told of
          shown,    \* ids some client has been shown (history)
          dirty,    \* the last save failed (history)
          lost,     \* the daemon died with an unsaved change (history)
          faults, crashes

storeVars == <<mem, tmp, disk, lock>>
histVars  == <<shown, dirty, lost, faults, crashes>>
vars      == <<now, up, storeVars, th, told, histVars>>

Rule  == [id : Nat, exe : Exes, action : Actions, persistent : BOOLEAN,
          expires : Int \cup {Never}]
Store == [next_id : Nat, rules : SUBSET Rule]

(***************************************************************************)
(* A file that is missing, empty or cut short does not parse and loads as  *)
(* the empty store, so that store stands for all of them.                  *)
(***************************************************************************)
EmptyStore == [next_id |-> 1, rules |-> {}]

(***************************************************************************)
(* A thread's job: where it is (pc), the operation, its input, the clock   *)
(* it read, the id to remove, and the rules it put in or took out.         *)
(***************************************************************************)
Idle == [pc |-> "idle", op |-> "none", in |-> {}, asof |-> 0, id |-> 0, out |-> {}]

Waiting(op, in, asof, id) ==
  [pc |-> "lock", op |-> op, in |-> in, asof |-> asof, id |-> id, out |-> {}]

-----------------------------------------------------------------------------
(* Expiry *)

\* `ttl as i64`
AsI64(n) == IF 2 * n < U64Span THEN n ELSE n - U64Span

\* Duration::seconds panics beyond its range: the request gets no answer.
DurationPanics(ttl) ==
  ttl # Never /\ AsI64(ttl) \notin -DurationMax .. DurationMax

\* now.checked_add_signed(..): None when the date overflows.
ExpiresAt(ttl, t) ==
  IF ttl = Never \/ t + AsI64(ttl) \notin -DateMax .. DateMax
  THEN Never
  ELSE t + AsI64(ttl)

IsExpired(r, t) == r.expires # Never /\ r.expires <= t

Expired(s, t) == {r \in s.rules : IsExpired(r, t)}

\* is_blocked
IsBlocked(s, e, t) ==
  \E r \in s.rules : r.action = "Block" /\ r.exe = e /\ ~IsExpired(r, t)

-----------------------------------------------------------------------------
(* What each operation makes of the store *)

\* add: take the next id, replace the rule for the same exe and action.
Replaced(s, r) == {q \in s.rules : q.exe = r.exe /\ q.action = r.action}
\* Faulty variant of Added: the `retain` of add is missing.
Added_NoReplace(s, r) == [next_id |-> s.next_id + 1, rules |-> s.rules \cup {r}]

Added(s, r) == [next_id |-> s.next_id + 1,
                rules   |-> (s.rules \ Replaced(s, r)) \cup {r}]

Without(s, gone) == [s EXCEPT !.rules = @ \ gone]

\* Faulty variant of Load: next_id is recomputed from the rules alone.
Load_FromRules(s, t) ==
  LET live == s.rules \ Expired(s, t)
  IN  [next_id |-> Max({1} \cup {r.id + 1 : r \in live}), rules |-> live]

\* load: drop what expired meanwhile, never fall behind an id in use.
Load(s, t) ==
  LET live == s.rules \ Expired(s, t)
  IN  [next_id |-> Max({s.next_id} \cup {r.id + 1 : r \in live}), rules |-> live]

-----------------------------------------------------------------------------
Init ==
  /\ now = 0 /\ up = TRUE
  /\ mem = EmptyStore /\ tmp = EmptyStore /\ disk = EmptyStore
  /\ lock = Nobody
  /\ th = [t \in Threads |-> Idle]
  /\ told = {} /\ shown = {}
  /\ dirty = FALSE /\ lost = FALSE
  /\ faults = 0 /\ crashes = 0

Tick == now < MaxTime /\ now' = now + 1
        /\ UNCHANGED <<up, storeVars, th, told, histVars>>

Start(t, job) ==
  /\ up /\ th[t] = Idle
  /\ th' = [th EXCEPT ![t] = job]
  /\ UNCHANGED <<now, up, storeVars, told, histVars>>

\* Adds under way that have not taken an id yet (they count against MaxId).
Adding == {t \in Clients : th[t].op = "add" /\ th[t].pc = "lock"}

(* An operation reads the clock before it asks for the mutex.  A ttl that   *)
(* panics Duration::seconds ends the request before anything has changed.   *)
BeginAdd(c, i) ==
  /\ mem.next_id + Cardinality(Adding) <= MaxId
  /\ ~DurationPanics(i.ttl)
  /\ Start(c, Waiting("add", {i}, now, 0))

BeginRemove(c, n) ==
  Start(c, Waiting("remove", {}, 0, n))

\* Faulty variant of BeginReap: the clock is read once, when the reaper starts.
BeginReap_OldClock ==
  Start(Reaper, Waiting("reap", {}, 0, 0))

BeginReap ==
  Start(Reaper, Waiting("reap", {}, now, 0))

BeginShutdown ==
  Start(Main, Waiting("save", {}, 0, 0))

\* ListRules: one short critical section.
List(c) ==
  /\ up /\ th[c] = Idle /\ lock = Nobody
  /\ shown' = shown \cup {r.id : r \in mem.rules}
  /\ UNCHANGED <<now, up, storeVars, th, told, dirty, lost, faults, crashes>>

-----------------------------------------------------------------------------
(* Under the mutex *)

HasLock(t, what) == up /\ th[t].pc = "lock" /\ th[t].op = what /\ lock = Nobody

\* Faulty variant of Mutate: the mutex is not held across the save.
Mutate_Unguarded(t, store, out) ==
  /\ mem' = store
  /\ th' = [th EXCEPT ![t].pc = "save", ![t].out = out]
  /\ UNCHANGED <<now, up, tmp, disk, lock, told, histVars>>

\* The change is made: the thread keeps the mutex and goes on to save.
Mutate(t, store, out) ==
  /\ mem' = store
  /\ lock' = t
  /\ th' = [th EXCEPT ![t].pc = "save", ![t].out = out]
  /\ UNCHANGED <<now, up, tmp, disk, told, histVars>>

\* There was nothing to change: the mutex is taken and dropped.
NothingToDo(t) ==
  /\ th' = [th EXCEPT ![t] = Idle]
  /\ UNCHANGED <<now, up, storeVars, told, histVars>>

\* Rule { .. } of the input, at the time the operation read the clock.
NewRule(i, n, t) ==
  [id |-> n, exe |-> i.exe, action |-> i.action, persistent |-> i.persistent,
   expires |-> ExpiresAt(i.ttl, t)]

LockAdd(c) ==
  /\ HasLock(c, "add")
  /\ \E i \in th[c].in :
       LET r == NewRule(i, mem.next_id, th[c].asof)
       IN  Mutate(c, Added(mem, r), {r})

LockRemove(c) ==
  /\ HasLock(c, "remove")
  /\ LET gone == {r \in mem.rules : r.id = th[c].id}
     IN  IF gone = {} THEN NothingToDo(c) ELSE Mutate(c, Without(mem, gone), gone)

LockReap ==
  /\ HasLock(Reaper, "reap")
  /\ LET gone == Expired(mem, th[Reaper].asof)
     IN  IF gone = {} THEN NothingToDo(Reaper)
                      ELSE Mutate(Reaper, Without(mem, gone), gone)

LockSave == HasLock(Main, "save") /\ Mutate(Main, mem, {})

-----------------------------------------------------------------------------
(* save_locked *)

\* The tail of a save: the mutex is dropped, the events are still to come.
Unlock(t) ==
  /\ lock' = Nobody
  /\ th' = [th EXCEPT ![t].pc = "publish"]

\* Faulty variant of BeginWrite: rules.json is written in place.
BeginWrite_InPlace(t) ==
  /\ up /\ th[t].pc = "save"
  /\ tmp' = EmptyStore /\ disk' = EmptyStore
  /\ th' = [th EXCEPT ![t].pc = "write"]
  /\ UNCHANGED <<now, up, mem, lock, told, histVars>>

\* fs::write truncates the file before it writes it.
BeginWrite(t) ==
  /\ up /\ th[t].pc = "save"
  /\ tmp' = EmptyStore
  /\ th' = [th EXCEPT ![t].pc = "write"]
  /\ UNCHANGED <<now, up, mem, disk, lock, told, histVars>>

EndWrite(t) ==
  /\ up /\ th[t].pc = "write"
  /\ tmp' = mem
  /\ th' = [th EXCEPT ![t].pc = "rename"]
  /\ UNCHANGED <<now, up, mem, disk, lock, told, histVars>>

Rename(t) ==
  /\ up /\ th[t].pc = "rename"
  /\ disk' = tmp
  /\ dirty' = FALSE
  /\ Unlock(t)
  /\ UNCHANGED <<now, up, mem, tmp, told, shown, lost, faults, crashes>>

\* Faulty variant of SaveFails: an early return that leaves the mutex locked.
SaveFails_KeepsLock(t) ==
  /\ up /\ th[t].pc \in {"save", "write", "rename"}
  /\ faults < MaxFaults /\ faults' = faults + 1
  /\ dirty' = TRUE
  /\ th' = [th EXCEPT ![t].pc = "publish"]
  /\ UNCHANGED <<now, up, mem, tmp, disk, lock, told, shown, lost, crashes>>

(* The directory, the write or the rename fails: it is logged, the change   *)
(* stays in memory, and the caller is answered as if it had been saved.     *)
SaveFails(t) ==
  /\ up /\ th[t].pc \in {"save", "write", "rename"}
  /\ faults < MaxFaults /\ faults' = faults + 1
  /\ dirty' = TRUE
  /\ Unlock(t)
  /\ UNCHANGED <<now, up, mem, tmp, disk, told, shown, lost, crashes>>

-----------------------------------------------------------------------------
(* Back in the request handler, without the mutex *)

IdsOf(rules) == {r.id : r \in rules}

\* Faulty variant of PublishAdded: the event is taken to replace every rule of the executable.
PublishAdded_Twin(c) ==
  /\ up /\ th[c].pc = "publish" /\ th[c].op = "add"
  /\ told' = {q \in told : \A r \in th[c].out : q.exe # r.exe} \cup th[c].out
  /\ shown' = shown \cup IdsOf(th[c].out)
  /\ th' = [th EXCEPT ![c] = Idle]
  /\ UNCHANGED <<now, up, storeVars, dirty, lost, faults, crashes>>

\* RuleAdded then Ok; the subscriber replaces by id, as gui/src/state.rs does.
PublishAdded(c) ==
  /\ up /\ th[c].pc = "publish" /\ th[c].op = "add"
  /\ told' = {q \in told : q.id \notin IdsOf(th[c].out)} \cup th[c].out
  /\ shown' = shown \cup IdsOf(th[c].out)
  /\ th' = [th EXCEPT ![c] = Idle]
  /\ UNCHANGED <<now, up, storeVars, dirty, lost, faults, crashes>>

\* One RuleRemoved per id: the handler of RemoveRule, or the reaper.
PublishRemoved(t) ==
  /\ up /\ th[t].pc = "publish" /\ th[t].op \in {"remove", "reap"}
  /\ told' = {q \in told : q.id \notin IdsOf(th[t].out)}
  /\ shown' = shown \cup IdsOf(th[t].out)
  /\ th' = [th EXCEPT ![t] = Idle]
  /\ UNCHANGED <<now, up, storeVars, dirty, lost, faults, crashes>>

-----------------------------------------------------------------------------
(* The daemon's life *)

\* Every thread, the mutex and the memory are gone; the files stay.
Die ==
  /\ up' = FALSE
  /\ mem' = EmptyStore
  /\ lock' = Nobody
  /\ th' = [t \in Threads |-> Idle]
  /\ lost' = (lost \/ dirty)
  /\ dirty' = FALSE
  /\ crashes' = crashes + 1
  /\ UNCHANGED <<now, tmp, disk, told, shown, faults>>

Crash == up /\ crashes < MaxCrashes /\ Die

\* process::exit at the end of main, whatever the other threads are doing.
Exit == up /\ th[Main].pc = "publish" /\ crashes < MaxCrashes /\ Die

\* load; a subscriber connects again and takes a new snapshot.
Restart ==
  /\ ~up /\ up' = TRUE
  /\ mem' = Load(disk, now)
  /\ told' = mem'.rules
  /\ UNCHANGED <<now, tmp, disk, lock, th, histVars>>

Save(t) == BeginWrite(t) \/ EndWrite(t) \/ Rename(t) \/ SaveFails(t)
Acquire(t) == (t \in Clients /\ (LockAdd(t) \/ LockRemove(t)))
              \/ (t = Reaper /\ LockReap)
              \/ (t = Main /\ LockSave)
Publish(t) == (t \in Clients /\ PublishAdded(t)) \/ PublishRemoved(t)

\* What a connection's thread does, and what every thread does.
ClientStep(c) ==
  \/ \E i \in Inputs : BeginAdd(c, i)
  \/ \E n \in 1 .. MaxId : BeginRemove(c, n)
  \/ List(c)
  \/ LockAdd(c)
  \/ LockRemove(c)
  \/ PublishAdded(c)

ThreadStep(t) == Save(t) \/ PublishRemoved(t)

Next ==
  \/ Tick
  \/ \E c \in Clients : ClientStep(c)
  \/ \E t \in Threads : ThreadStep(t)
  \/ BeginReap
  \/ LockReap
  \/ BeginShutdown
  \/ LockSave
  \/ Crash
  \/ Exit
  \/ Restart

Spec == Init /\ [][Next]_vars

(***************************************************************************)
(* A running thread is scheduled.  The mutex is not fair, so a thread that *)
(* waits for it is only assumed not to lose the race for ever.  The reaper *)
(* wakes every five seconds.  Nobody has to start a daemon that died.      *)
(***************************************************************************)
Fairness ==
  /\ \A t \in Threads : /\ SF_vars(Acquire(t))
                        /\ WF_vars(Save(t))
                        /\ WF_vars(Publish(t))
  /\ WF_vars(BeginReap)

FairSpec == Spec /\ Fairness

-----------------------------------------------------------------------------
(* Properties *)

Job == [pc : {"idle", "lock", "save", "write", "rename", "publish"},
        op : {"none", "add", "remove", "reap", "save"},
        in : SUBSET Inputs, asof : Int, id : Nat, out : SUBSET Rule]

Saving == {"save", "write", "rename"}

\* Every variable keeps its type, and a thread is inside save_locked exactly
\* when it holds the mutex.
TypeOK ==
  /\ now \in Int /\ up \in BOOLEAN
  /\ mem \in Store /\ tmp \in Store /\ disk \in Store
  /\ lock \in Threads \cup {Nobody}
  /\ th \in [Threads -> Job]
  /\ told \in SUBSET Rule /\ shown \in SUBSET Nat
  /\ dirty \in BOOLEAN /\ lost \in BOOLEAN
  /\ faults \in Nat /\ crashes \in Nat
  /\ \A t \in Threads : th[t].pc \in Saving <=> lock = t

WellFormed(s) ==
  /\ \A r \in s.rules : r.id < s.next_id
  /\ \A q, r \in s.rules :
       q # r => q.id # r.id /\ (q.exe # r.exe \/ q.action # r.action)

\* In memory and on disk, an id names one rule, an executable has at most one
\* rule per action (what `retain` in add is for), and ids stay below next_id.
OneRulePerTarget == WellFormed(mem) /\ WellFormed(disk)

Live(s) == s.rules \ Expired(s, now)

\* When no operation holds the mutex and the last save did not fail, a restart
\* would bring back exactly the rules in force, and go on numbering from the
\* same id: every path of rules.rs that changes the store saves it before it
\* lets go of the mutex.
RestartRestoresTheRules ==
  up /\ lock = Nobody /\ ~dirty =>
    /\ Live(disk) = Live(mem)
    /\ Load(disk, now).next_id = mem.next_id

\* An id that a client has been shown never comes to name another rule, not
\* even after a crash, as long as no unsaved change was lost: a RemoveRule
\* with a remembered id cannot remove somebody else's rule.
IdsAreNeverReused ==
  [][up /\ up' /\ ~lost =>
       \A r \in mem'.rules \ mem.rules : r.id \notin shown]_vars

\* A rule in the store has been announced to subscribers, or the thread that
\* added it is still on its way to announce it, however adds, removals and
\* reaping interleave.
EveryRuleAnnounced ==
  up => \A r \in mem.rules :
          r \in told \/ \E c \in Clients : th[c].op = "add" /\ r \in th[c].out

\* No rule outlives the daemon unless it was made persistent or has an expiry
\* (the doc of Rule::persistent, core/src/types.rs:103).
NonPersistentEndsWithDaemon ==
  [][~up /\ up' => \A r \in mem'.rules : r.persistent \/ r.expires # Never]_vars

\* An expired rule does not stay in the store: the reaper takes it out.
ExpiredRulesAreReaped ==
  \A n \in 1 .. MaxId :
    (\E r \in Expired(mem, now) : r.id = n)
      ~> ~(\E r \in Expired(mem, now) : r.id = n)

\* Every request and every pass of the reaper ends, whatever fails meanwhile:
\* the mutex is dropped on every path of save_locked.
OperationsEnd == \A t \in Threads \ {Main} : th[t] # Idle ~> th[t] = Idle

-----------------------------------------------------------------------------
(***************************************************************************)
(* The inductive invariant behind the safety properties above.             *)
(***************************************************************************)

IdsBelow(rules, n) == \A r \in rules : r.id < n

\* A dead daemon holds nothing.
Dead == mem = EmptyStore /\ lock = Nobody /\ ~dirty /\ th = [t \in Threads |-> Idle]

\* What is on disk relative to what is in memory.
FilesFollow ==
  /\ WellFormed(mem) /\ WellFormed(tmp) /\ WellFormed(disk)
  /\ \A t \in Threads : th[t].pc = "rename" => tmp = mem
  /\ up => disk.next_id <= mem.next_id
  /\ up /\ lock = Nobody /\ ~dirty =>
       /\ disk.next_id = mem.next_id
       /\ mem.rules \subseteq disk.rules
       /\ disk.rules \ mem.rules \subseteq Expired(disk, now)
  /\ ~up => Dead

\* Ids that were handed out stay below the next one, in memory and, unless a
\* save failed, on disk.
IdsRemembered ==
  /\ up => \A t \in Threads : IdsBelow(th[t].out, mem.next_id)
  /\ ~dirty => \A t \in Threads :
                  th[t].pc = "publish" => IdsBelow(th[t].out, disk.next_id)
  /\ up /\ ~lost => \A n \in shown : n < mem.next_id
  /\ ~dirty /\ ~lost => \A n \in shown : n < disk.next_id

\* What a thread is about to announce does not contradict the store.
OutAgrees ==
  \A t \in Threads :
    /\ th[t].pc = "lock" => th[t].out = {}
    /\ \A r \in th[t].out : \A q \in mem.rules :
         q.id = r.id => th[t].op = "add" /\ q = r

IInv == TypeOK /\ FilesFollow /\ IdsRemembered /\ OutAgrees /\ EveryRuleAnnounced

-----------------------------------------------------------------------------
(* The store implements BlockList. *)

VerdictAt(s, t) ==
  [e \in Exes |->
     IF ~IsBlocked(s, e, t) THEN "allowed"
     ELSE IF \E r \in s.rules : r.action = "Block" /\ r.exe = e /\ r.expires = Never
          THEN "permanent" ELSE "temporary"]

VerdictOf(s) == VerdictAt(s, now)

BL == INSTANCE BlockList
        WITH running <- up, verdict <- VerdictOf(mem), durable <- VerdictOf(disk)

\* To the rest of the daemon the store is an atomic table of verdicts with an
\* atomic durable copy: no step changes two executables, no crash leaves a
\* half-written table, and only a temporary block lapses with time.
ImplementsBlockList == BL!Spec
=============================================================================
