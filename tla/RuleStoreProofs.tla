-------------------------- MODULE RuleStoreProofs --------------------------
(***************************************************************************)
(* Proofs of the safety properties of RuleStore for every set of clients,  *)
(* executables and inputs, every width of the ttl and every bound.  The    *)
(* argument is one inductive invariant, IInv, whose parts are proved in    *)
(* the order they need each other.                                         *)
(***************************************************************************)
EXTENDS RuleStore, TLAPS

-----------------------------------------------------------------------------
(* Facts about the operators *)

\* A new rule is a Rule, whatever its ttl: ExpiresAt yields a time or Never.
LEMMA NewRuleType ==
  ASSUME NEW i \in Inputs, NEW n \in Nat, NEW t \in Int
  PROVE  /\ NewRule(i, n, t) \in Rule
         /\ NewRule(i, n, t).id = n
         /\ NewRule(i, n, t).exe = i.exe /\ NewRule(i, n, t).action = i.action
<1>1. i \in [exe : Exes, action : Actions, persistent : BOOLEAN, ttl : Int \cup {Never}]
  BY InputsAreRuleInputs
<1>2. ExpiresAt(i.ttl, t) \in Int \cup {Never}
  BY <1>1, Numbers DEF ExpiresAt, AsI64
<1>3. QED BY <1>1, <1>2 DEF NewRule, Rule

\* A well-formed store loads with the number it would have used next: no id in
\* use is above it, so `next_id.max(max_id + 1)` changes nothing.
LEMMA LoadKeepsNextId ==
  ASSUME NEW s \in Store, NEW t \in Int, WellFormed(s)
  PROVE  /\ Load(s, t) = [next_id |-> s.next_id, rules |-> s.rules \ Expired(s, t)]
         /\ Load(s, t) \in Store
         /\ WellFormed(Load(s, t))
<1> DEFINE live == s.rules \ Expired(s, t)
           nums == {s.next_id} \cup {r.id + 1 : r \in live}
<1>1. s.next_id \in Nat /\ live \subseteq s.rules /\ s.rules \in SUBSET Rule
  BY DEF Store
<1>2. \A n \in nums : n \in Nat /\ n <= s.next_id
  BY <1>1 DEF WellFormed, Rule
<1>3. Max(nums) = s.next_id
  <2>1. s.next_id \in nums /\ \A n \in nums : s.next_id >= n
    BY <1>1, <1>2
  <2>2. \A m \in nums : (\A n \in nums : m >= n) => m = s.next_id
    BY <1>1, <1>2
  <2>3. QED BY <2>1, <2>2, Zenon DEF Max
<1>4. Load(s, t) = [next_id |-> s.next_id, rules |-> live]
  BY <1>3 DEF Load
<1>5. QED BY <1>1, <1>4 DEF Store, WellFormed

\* Adding a rule under the next id keeps a store well formed.
LEMMA AddedWellFormed ==
  ASSUME NEW s \in Store, NEW r \in Rule, WellFormed(s), r.id = s.next_id
  PROVE  Added(s, r) \in Store /\ WellFormed(Added(s, r))
<1>1. s.next_id \in Nat /\ s.rules \in SUBSET Rule
  BY DEF Store
<1>2. Added(s, r) \in Store
  BY <1>1 DEF Added, Store, Replaced
<1>3. \A q \in s.rules : q.id < s.next_id /\ q.id \in Nat
  BY <1>1 DEF WellFormed, Rule
<1>4. QED BY <1>1, <1>2, <1>3 DEF Added, WellFormed, Replaced

\* Taking rules out keeps a store well formed.
LEMMA WithoutWellFormed ==
  ASSUME NEW s \in Store, NEW gone, WellFormed(s)
  PROVE  /\ Without(s, gone) = [next_id |-> s.next_id, rules |-> s.rules \ gone]
         /\ Without(s, gone) \in Store /\ WellFormed(Without(s, gone))
<1>1. s = [next_id |-> s.next_id, rules |-> s.rules] /\ s.rules \in SUBSET Rule
  BY DEF Store
<1>2. Without(s, gone) = [next_id |-> s.next_id, rules |-> s.rules \ gone]
  BY <1>1 DEF Without
<1>3. QED BY <1>1, <1>2 DEF Store, WellFormed

LEMMA EmptyStoreWellFormed == EmptyStore \in Store /\ WellFormed(EmptyStore)
BY DEF EmptyStore, Store, WellFormed

LEMMA IdleIsAJob == Idle \in Job /\ Idle.pc = "idle" /\ Idle.out = {} /\ Idle.op = "none"
BY DEF Idle, Job

LEMMA WaitingIsAJob ==
  ASSUME NEW op \in {"add", "remove", "reap", "save"}, NEW in \in SUBSET Inputs,
         NEW asof \in Int, NEW id \in Nat
  PROVE  Waiting(op, in, asof, id) \in Job
BY DEF Waiting, Job

-----------------------------------------------------------------------------
(* Types and the mutex *)

LEMMA InitType == Init => TypeOK
<1> SUFFICES ASSUME Init PROVE TypeOK OBVIOUS
<1>1. Nobody \notin Threads BY ThreadNames DEF Threads
<1>2. th \in [Threads -> Job] /\ \A t \in Threads : th[t].pc \in Saving <=> lock = t
  BY <1>1, IdleIsAJob DEF Init, Saving
<1>3. up \in BOOLEAN /\ dirty \in BOOLEAN /\ lost \in BOOLEAN
  BY DEF Init
<1>4. /\ now \in Int /\ mem \in Store /\ tmp \in Store /\ disk \in Store
      /\ lock \in Threads \cup {Nobody} /\ told \in SUBSET Rule /\ shown \in SUBSET Nat
      /\ faults \in Nat /\ crashes \in Nat
  BY EmptyStoreWellFormed DEF Init
<1>5. QED BY <1>2, <1>3, <1>4 DEF TypeOK

\* Starting an operation gives a thread a job outside the mutex.
LEMMA StartType ==
  ASSUME TypeOK, NEW t \in Threads, NEW job \in Job, job.pc = "lock", Start(t, job)
  PROVE  TypeOK'
<1>1. th[t].pc = "idle" BY IdleIsAJob DEF Start
<1>2. /\ th' \in [Threads -> Job]
      /\ UNCHANGED <<now, up, mem, tmp, disk, lock, told, shown, dirty, lost, faults, crashes>>
  BY DEF TypeOK, Start, storeVars, histVars
<1>3. lock # t BY <1>1 DEF TypeOK, Saving
<1>4. \A u \in Threads : th'[u].pc \in Saving <=> lock' = u
  BY <1>1, <1>2, <1>3 DEF TypeOK, Start, Saving
<1>5. QED BY <1>2, <1>4 DEF TypeOK

LEMMA MutateType ==
  ASSUME TypeOK, NEW t \in Threads, NEW s \in Store, NEW out \in SUBSET Rule,
         lock = Nobody, Mutate(t, s, out)
  PROVE  TypeOK'
<1>1. Nobody \notin Threads BY ThreadNames DEF Threads
<1>2. th' \in [Threads -> Job]
  <2>1. th[t] \in Job BY DEF TypeOK
  <2>2. [th[t] EXCEPT !.pc = "save", !.out = out] \in Job BY <2>1 DEF Job
  <2>3. th' = [th EXCEPT ![t] = [th[t] EXCEPT !.pc = "save", !.out = out]]
    BY DEF Mutate, TypeOK
  <2>4. QED BY <2>2, <2>3 DEF TypeOK
<1>3. \A u \in Threads : th'[u].pc \in Saving <=> lock' = u
  BY <1>1 DEF TypeOK, Mutate, Saving
<1>4. QED BY <1>2, <1>3 DEF TypeOK, Mutate, histVars

LEMMA NothingToDoType ==
  ASSUME TypeOK, NEW t \in Threads, th[t].pc = "lock", NothingToDo(t)
  PROVE  TypeOK'
<1>1. th' \in [Threads -> Job] BY IdleIsAJob DEF TypeOK, NothingToDo
<1>2. lock # t BY DEF TypeOK, Saving
<1>3. \A u \in Threads : th'[u].pc \in Saving <=> lock' = u
  BY <1>2, IdleIsAJob DEF TypeOK, NothingToDo, Saving, storeVars
<1>4. QED BY <1>1, <1>3 DEF TypeOK, NothingToDo, histVars, storeVars

LEMMA NextType == TypeOK /\ WellFormed(disk) /\ [Next]_vars => TypeOK'
<1> SUFFICES ASSUME TypeOK, WellFormed(disk), [Next]_vars PROVE TypeOK' OBVIOUS
<1>t. Clients \subseteq Threads /\ Reaper \in Threads /\ Main \in Threads /\ Nobody \notin Threads
  BY ThreadNames DEF Threads
<1>1. CASE Tick
  BY <1>1 DEF Tick, TypeOK, storeVars, histVars
<1>2. ASSUME NEW c \in Clients, NEW i \in Inputs, BeginAdd(c, i) PROVE TypeOK'
  <2>1. Waiting("add", {i}, now, 0) \in Job BY WaitingIsAJob DEF TypeOK
  <2>2. QED BY <1>2, <2>1, <1>t, StartType DEF BeginAdd, Waiting
<1>3. ASSUME NEW c \in Clients, NEW n \in 1 .. MaxId, BeginRemove(c, n) PROVE TypeOK'
  <2>1. n \in Nat BY Numbers
  <2>2. Waiting("remove", {}, 0, n) \in Job BY <2>1, WaitingIsAJob
  <2>3. QED BY <1>3, <2>2, <1>t, StartType DEF BeginRemove, Waiting
<1>4. CASE BeginReap
  <2>1. Waiting("reap", {}, now, 0) \in Job BY WaitingIsAJob DEF TypeOK
  <2>2. QED BY <1>4, <2>1, <1>t, StartType DEF BeginReap, Waiting
<1>5. CASE BeginShutdown
  <2>1. Waiting("save", {}, 0, 0) \in Job BY WaitingIsAJob
  <2>2. QED BY <1>5, <2>1, <1>t, StartType DEF BeginShutdown, Waiting
<1>6. ASSUME NEW c \in Clients, List(c) PROVE TypeOK'
  <2>1. {r.id : r \in mem.rules} \in SUBSET Nat BY DEF TypeOK, Store, Rule
  <2>2. QED BY <1>6, <2>1 DEF List, TypeOK, storeVars
<1>7. ASSUME NEW c \in Clients, LockAdd(c) PROVE TypeOK'
  <2>1. PICK i \in th[c].in :
          LET r == NewRule(i, mem.next_id, th[c].asof) IN Mutate(c, Added(mem, r), {r})
    BY <1>7 DEF LockAdd
  <2>2. i \in Inputs /\ th[c].asof \in Int /\ mem.next_id \in Nat
    BY <1>t DEF TypeOK, Job, Store
  <2>3. NewRule(i, mem.next_id, th[c].asof) \in Rule BY <2>2, NewRuleType
  <2>4. Added(mem, NewRule(i, mem.next_id, th[c].asof)) \in Store
    BY <2>2, <2>3 DEF Added, Store, TypeOK, Replaced
  <2>5. QED BY <1>7, <1>t, <2>1, <2>3, <2>4, MutateType DEF LockAdd, HasLock
<1>8. ASSUME NEW c \in Clients, LockRemove(c) PROVE TypeOK'
  <2> DEFINE gone == {r \in mem.rules : r.id = th[c].id}
  <2>1. Without(mem, gone) \in Store /\ gone \in SUBSET Rule
    BY DEF Without, TypeOK, Store
  <2>2. CASE gone = {}
    BY <1>8, <2>2, <1>t, NothingToDoType DEF LockRemove, HasLock
  <2>3. CASE gone # {}
    BY <1>8, <2>1, <2>3, <1>t, MutateType DEF LockRemove, HasLock
  <2>4. QED BY <2>2, <2>3
<1>9. CASE LockReap
  <2> DEFINE gone == Expired(mem, th[Reaper].asof)
  <2>1. Without(mem, gone) \in Store /\ gone \in SUBSET Rule
    BY DEF Without, TypeOK, Store, Expired
  <2>2. CASE gone = {}
    BY <1>9, <2>2, <1>t, NothingToDoType DEF LockReap, HasLock
  <2>3. CASE gone # {}
    BY <1>9, <2>1, <2>3, <1>t, MutateType DEF LockReap, HasLock
  <2>4. QED BY <2>2, <2>3
<1>10. CASE LockSave
  <2>1. mem \in Store /\ {} \in SUBSET Rule BY DEF TypeOK
  <2>2. QED BY <1>10, <2>1, <1>t, MutateType DEF LockSave, HasLock
<1>11. ASSUME NEW t \in Threads, Save(t) PROVE TypeOK'
  <2>1. CASE BeginWrite(t)
    BY <2>1, EmptyStoreWellFormed DEF BeginWrite, TypeOK, Job, Saving, histVars
  <2>2. CASE EndWrite(t)
    BY <2>2 DEF EndWrite, TypeOK, Job, Saving, histVars
  <2>3. ASSUME Unlock(t), th[t].pc \in Saving
        PROVE  /\ lock' \in Threads \cup {Nobody} /\ th' \in [Threads -> Job]
               /\ \A u \in Threads : th'[u].pc \in Saving <=> lock' = u
    BY <2>3, <1>t DEF Unlock, TypeOK, Job, Saving
  <2>4. CASE Rename(t)
    BY <2>3, <2>4 DEF Rename, TypeOK, Saving
  <2>5. CASE SaveFails(t)
    BY <2>3, <2>5 DEF SaveFails, TypeOK, Saving
  <2>6. QED BY <1>11, <2>1, <2>2, <2>4, <2>5 DEF Save
<1>12. ASSUME NEW t \in Threads, PublishAdded(t) \/ PublishRemoved(t) PROVE TypeOK'
  <2>1. th[t].pc = "publish" /\ th' = [th EXCEPT ![t] = Idle] /\ lock' = lock
    BY <1>12 DEF PublishAdded, PublishRemoved, storeVars
  <2>2. th' \in [Threads -> Job] /\ \A u \in Threads : th'[u].pc \in Saving <=> lock' = u
    BY <2>1, IdleIsAJob DEF TypeOK, Saving
  <2>3. th[t].out \in SUBSET Rule /\ IdsOf(th[t].out) \in SUBSET Nat
    BY DEF TypeOK, Job, IdsOf, Rule
  <2>4. told' \in SUBSET Rule /\ shown' \in SUBSET Nat
    BY <1>12, <2>3 DEF PublishAdded, PublishRemoved, TypeOK
  <2>5. QED BY <1>12, <2>2, <2>4 DEF PublishAdded, PublishRemoved, TypeOK, storeVars
<1>13. CASE Die
  <2>1. \A u \in Threads : th'[u].pc \in Saving <=> lock' = u
    BY <1>13, <1>t, IdleIsAJob DEF Die, Saving
  <2>2. up' \in BOOLEAN /\ dirty' \in BOOLEAN /\ lost' \in BOOLEAN
    BY <1>13 DEF Die
  <2>3. mem' \in Store /\ th' \in [Threads -> Job] /\ lock' \in Threads \cup {Nobody}
    BY <1>13, EmptyStoreWellFormed, IdleIsAJob DEF Die
  <2>4. QED BY <1>13, <2>1, <2>2, <2>3 DEF Die, TypeOK
<1>14. CASE Restart
  <2>1. Load(disk, now) \in Store /\ Load(disk, now).rules \in SUBSET Rule
    BY LoadKeepsNextId DEF TypeOK, Store
  <2>2. QED BY <1>14, <2>1 DEF Restart, TypeOK, histVars
<1>15. CASE UNCHANGED vars
  BY <1>15 DEF TypeOK, vars, storeVars, histVars
<1>16. ASSUME NEW c \in Clients, ClientStep(c) PROVE TypeOK'
  BY <1>2, <1>3, <1>6, <1>7, <1>8, <1>12, <1>16, <1>t DEF ClientStep
<1>17. ASSUME NEW t \in Threads, ThreadStep(t) PROVE TypeOK'
  BY <1>11, <1>12, <1>17 DEF ThreadStep
<1>18. QED
  BY <1>1, <1>4, <1>5, <1>9, <1>10, <1>13, <1>14, <1>15, <1>16, <1>17 DEF Next, Crash, Exit

-----------------------------------------------------------------------------
(* The kinds of step *)

\* A thread takes up an operation, or finds that there is nothing to change.
LocalStep(t) ==
  /\ up /\ th[t].op # "add"
  /\ \E j \in Job : /\ j.out = {} /\ j.pc \in {"idle", "lock"} /\ j.asof \in {0, now}
                    /\ th' = [th EXCEPT ![t] = j]
  /\ UNCHANGED <<now, up, mem, tmp, disk, lock, told, shown, dirty, lost>>

\* A thread adds one rule under the next id.
AddStep(t) ==
  /\ up /\ lock = Nobody /\ t \in Clients /\ th[t].op = "add" /\ th[t].pc = "lock"
  /\ \E r \in Rule : r.id = mem.next_id /\ Mutate(t, Added(mem, r), {r})

\* A thread takes rules out: those of one id, what has expired, or none at shutdown.
DropStep(t) ==
  /\ up /\ lock = Nobody /\ th[t].op # "add"
  /\ \E gone \in SUBSET Rule :
       /\ gone \subseteq mem.rules /\ Mutate(t, Without(mem, gone), gone)
       /\ \/ \E n \in Nat : \A r \in gone : r.id = n
          \/ \A r \in gone : IsExpired(r, th[t].asof)

LEMMA StepKinds ==
  ASSUME TypeOK, Next
  PROVE  \/ Tick
         \/ \E c \in Clients : List(c)
         \/ \E t \in Threads : \/ LocalStep(t) \/ AddStep(t) \/ DropStep(t)
                               \/ BeginWrite(t) \/ EndWrite(t) \/ Rename(t) \/ SaveFails(t)
                               \/ t \in Clients /\ PublishAdded(t)
                               \/ PublishRemoved(t)
         \/ up /\ Die
         \/ Restart
<1>t. Clients \subseteq Threads /\ Reaper \in Threads /\ Main \in Threads
  BY DEF Threads
<1>1. ASSUME NEW t \in Threads, NEW op \in {"add", "remove", "reap", "save"},
             NEW in \in SUBSET Inputs, NEW asof \in {0, now}, NEW id \in Nat,
             Start(t, Waiting(op, in, asof, id))
      PROVE  LocalStep(t)
  <2>1. Waiting(op, in, asof, id) \in Job BY WaitingIsAJob DEF TypeOK
  <2>2. /\ Waiting(op, in, asof, id).out = {} /\ Waiting(op, in, asof, id).pc = "lock"
        /\ Waiting(op, in, asof, id).asof \in {0, now}
    BY DEF Waiting
  <2>3. QED BY <1>1, <2>1, <2>2, IdleIsAJob DEF Start, LocalStep, storeVars, histVars
<1>2. ASSUME NEW t \in Threads, up, th[t].op # "add", NothingToDo(t)
      PROVE  LocalStep(t)
  BY <1>2, IdleIsAJob DEF Idle, NothingToDo, LocalStep, storeVars, histVars
<1>3. ASSUME NEW c \in Clients, NEW i \in Inputs, BeginAdd(c, i) PROVE LocalStep(c)
  <2>1. Start(c, Waiting("add", {i}, now, 0)) BY <1>3 DEF BeginAdd
  <2>2. now \in Int BY DEF TypeOK
  <2>3. QED BY <1>1, <1>t, <2>1, <2>2
<1>4. ASSUME NEW c \in Clients, NEW n \in 1 .. MaxId, BeginRemove(c, n) PROVE LocalStep(c)
  <2>1. n \in Nat BY Numbers
  <2>2. QED BY <1>1, <1>4, <1>t, <2>1 DEF BeginRemove
<1>5. ASSUME BeginReap PROVE LocalStep(Reaper)
  <2>1. now \in Int BY DEF TypeOK
  <2>2. QED BY <1>1, <1>5, <1>t, <2>1 DEF BeginReap
<1>6. ASSUME BeginShutdown PROVE LocalStep(Main)
  BY <1>1, <1>6, <1>t DEF BeginShutdown
<1>7. ASSUME NEW c \in Clients, LockAdd(c) PROVE AddStep(c)
  <2>1. PICK i \in th[c].in :
          LET r == NewRule(i, mem.next_id, th[c].asof) IN Mutate(c, Added(mem, r), {r})
    BY <1>7 DEF LockAdd
  <2>2. i \in Inputs /\ th[c].asof \in Int /\ mem.next_id \in Nat
    BY <1>t DEF TypeOK, Job, Store
  <2>3. NewRule(i, mem.next_id, th[c].asof) \in Rule
        /\ NewRule(i, mem.next_id, th[c].asof).id = mem.next_id
    BY <2>2, NewRuleType
  <2>4. QED BY <1>7, <2>1, <2>3 DEF LockAdd, HasLock, AddStep
<1>8. ASSUME NEW c \in Clients, LockRemove(c) PROVE LocalStep(c) \/ DropStep(c)
  <2> DEFINE gone == {r \in mem.rules : r.id = th[c].id}
  <2>1. /\ gone \subseteq mem.rules /\ gone \in SUBSET Rule
        /\ th[c].id \in Nat /\ \A r \in gone : r.id = th[c].id
    BY <1>t DEF TypeOK, Store, Job
  <2>2. QED BY <1>2, <1>8, <1>t, <2>1 DEF LockRemove, HasLock, DropStep
<1>9. ASSUME LockReap PROVE LocalStep(Reaper) \/ DropStep(Reaper)
  <2> DEFINE gone == Expired(mem, th[Reaper].asof)
  <2>1. /\ gone \subseteq mem.rules /\ gone \in SUBSET Rule
        /\ \A r \in gone : IsExpired(r, th[Reaper].asof)
    BY DEF TypeOK, Store, Expired
  <2>2. QED BY <1>2, <1>9, <1>t, <2>1 DEF LockReap, HasLock, DropStep
<1>10. ASSUME LockSave PROVE DropStep(Main)
  <2>1. Without(mem, {}) = mem BY DEF TypeOK, Store, Without
  <2>2. QED BY <1>10, <2>1 DEF LockSave, HasLock, DropStep
<1>11. ASSUME NEW c \in Clients, ClientStep(c)
       PROVE  LocalStep(c) \/ AddStep(c) \/ DropStep(c) \/ List(c) \/ PublishAdded(c)
  BY <1>3, <1>4, <1>7, <1>8, <1>11 DEF ClientStep
<1>12. CASE \E c \in Clients : ClientStep(c)
  BY <1>11, <1>12, <1>t
<1>13. CASE BeginReap \/ BeginShutdown \/ LockReap \/ LockSave
  BY <1>5, <1>6, <1>9, <1>10, <1>13, <1>t
<1>14. CASE \E t \in Threads : ThreadStep(t)
  BY <1>14 DEF ThreadStep, Save
<1>15. CASE Tick \/ Crash \/ Exit \/ Restart
  BY <1>15 DEF Crash, Exit
<1>16. QED BY <1>12, <1>13, <1>14, <1>15 DEF Next

-----------------------------------------------------------------------------
(* The files follow the memory *)

\* What happens to the files when the store and the files are left alone and
\* thread t does not enter the rename.
LEMMA FilesUntouched ==
  ASSUME FilesFollow, up, NEW t \in Threads, th'[t].pc # "rename",
         \A u \in Threads \ {t} : th'[u] = th[u],
         UNCHANGED <<now, up, mem, tmp, disk, lock, dirty>>
  PROVE  FilesFollow'
BY DEF FilesFollow, WellFormed, Expired, IsExpired, Dead

LEMMA FilesMutate ==
  ASSUME TypeOK, FilesFollow, up, NEW t \in Threads, NEW s \in Store, NEW out,
         WellFormed(s), mem.next_id <= s.next_id, lock = Nobody, Mutate(t, s, out)
  PROVE  FilesFollow'
<1>1. Nobody \notin Threads BY ThreadNames DEF Threads
<1>2. /\ mem' = s /\ lock' = t /\ up' = up
      /\ UNCHANGED <<tmp, disk>>
      /\ \A u \in Threads \ {t} : th'[u] = th[u]
      /\ th'[t].pc = "save"
  BY DEF Mutate, TypeOK, Job
<1>3. \A u \in Threads : th'[u].pc # "rename"
  BY <1>1, <1>2 DEF TypeOK, Saving
<1>4. disk.next_id <= s.next_id
  <2>1. disk.next_id \in Nat /\ mem.next_id \in Nat /\ s.next_id \in Nat BY DEF TypeOK, Store
  <2>2. QED BY <2>1 DEF FilesFollow
<1>5. WellFormed(mem)' /\ WellFormed(tmp)' /\ WellFormed(disk)'
  BY <1>2 DEF FilesFollow, WellFormed
<1>6. QED BY <1>1, <1>2, <1>3, <1>4, <1>5 DEF FilesFollow

LEMMA FilesStep == TypeOK /\ FilesFollow /\ [Next]_vars => FilesFollow'
<1> SUFFICES ASSUME TypeOK, FilesFollow, [Next]_vars PROVE FilesFollow' OBVIOUS
<1>t. Nobody \notin Threads BY ThreadNames DEF Threads
<1>w. WellFormed(mem) /\ WellFormed(tmp) /\ WellFormed(disk) BY DEF FilesFollow
<1>1. CASE Tick
  <2>1. /\ now \in Int /\ now' = now + 1
        /\ UNCHANGED <<up, mem, tmp, disk, lock, th, dirty>>
    BY <1>1 DEF Tick, TypeOK, storeVars, histVars
  <2>2. \A r \in disk.rules : IsExpired(r, now) => IsExpired(r, now')
    BY <2>1, NeverIsNoTime DEF TypeOK, Store, Rule, IsExpired
  <2>3. Expired(disk, now) \subseteq Expired(disk, now)'
    BY <2>1, <2>2 DEF Expired
  <2>4. QED BY <2>1, <2>3 DEF FilesFollow, WellFormed, Dead
<1>2. ASSUME NEW c \in Clients, List(c) PROVE FilesFollow'
  BY <1>2 DEF List, FilesFollow, storeVars, WellFormed, Expired, Dead
<1>3. ASSUME NEW t \in Threads, LocalStep(t) PROVE FilesFollow'
  <2>1. /\ th'[t].pc # "rename" /\ \A u \in Threads \ {t} : th'[u] = th[u]
        /\ up /\ UNCHANGED <<now, up, mem, tmp, disk, lock, dirty>>
    BY <1>3 DEF LocalStep, TypeOK
  <2>2. QED BY <2>1, FilesUntouched
<1>4. ASSUME NEW t \in Threads, AddStep(t) PROVE FilesFollow'
  <2>1. PICK r \in Rule : r.id = mem.next_id /\ Mutate(t, Added(mem, r), {r})
    BY <1>4 DEF AddStep
  <2>2. Added(mem, r) \in Store /\ WellFormed(Added(mem, r))
    BY <2>1, <1>w, AddedWellFormed DEF TypeOK
  <2>3. mem.next_id <= Added(mem, r).next_id
    BY DEF Added, TypeOK, Store
  <2>4. QED BY <1>4, <2>1, <2>2, <2>3, FilesMutate DEF AddStep
<1>5. ASSUME NEW t \in Threads, DropStep(t) PROVE FilesFollow'
  <2>1. PICK gone \in SUBSET Rule : Mutate(t, Without(mem, gone), gone)
    BY <1>5 DEF DropStep
  <2>2. Without(mem, gone) \in Store /\ WellFormed(Without(mem, gone))
        /\ mem.next_id <= Without(mem, gone).next_id
    BY <1>w, WithoutWellFormed DEF TypeOK, Store
  <2>3. QED BY <1>5, <2>1, <2>2, FilesMutate DEF DropStep
<1>6. ASSUME NEW t \in Threads, BeginWrite(t) PROVE FilesFollow'
  <2>1. \A u \in Threads : th'[u].pc # "rename"
    BY <1>6 DEF BeginWrite, TypeOK, Saving, Job
  <2>2. tmp' = EmptyStore /\ up /\ UNCHANGED <<now, up, mem, disk, lock, dirty>>
    BY <1>6 DEF BeginWrite, histVars
  <2>3. WellFormed(mem)' /\ WellFormed(tmp)' /\ WellFormed(disk)'
    BY <2>2, <1>w, EmptyStoreWellFormed DEF WellFormed
  <2>4. QED BY <2>1, <2>2, <2>3 DEF FilesFollow, Expired
<1>7. ASSUME NEW t \in Threads, EndWrite(t) PROVE FilesFollow'
  <2>1. tmp' = mem /\ up /\ UNCHANGED <<now, up, mem, disk, lock, dirty>>
    BY <1>7 DEF EndWrite, histVars
  <2>2. WellFormed(mem)' /\ WellFormed(tmp)' /\ WellFormed(disk)'
    BY <2>1, <1>w DEF WellFormed
  <2>3. QED BY <2>1, <2>2 DEF FilesFollow, Expired
<1>8. ASSUME NEW t \in Threads, Rename(t) PROVE FilesFollow'
  <2>1. tmp = mem BY <1>8 DEF Rename, FilesFollow
  <2>2. disk' = mem /\ up /\ lock' = Nobody /\ UNCHANGED <<now, up, mem, tmp>>
    BY <1>8, <2>1 DEF Rename, Unlock
  <2>3. \A u \in Threads : th'[u].pc # "rename"
    BY <1>8 DEF Rename, Unlock, TypeOK, Saving, Job
  <2>4. WellFormed(mem)' /\ WellFormed(tmp)' /\ WellFormed(disk)'
    BY <2>2, <1>w DEF WellFormed
  <2>5. mem.next_id \in Nat BY DEF TypeOK, Store
  <2>6. QED BY <2>2, <2>3, <2>4, <2>5 DEF FilesFollow
<1>9. ASSUME NEW t \in Threads, SaveFails(t) PROVE FilesFollow'
  <2>1. up /\ dirty' /\ UNCHANGED <<now, up, mem, tmp, disk>>
    BY <1>9 DEF SaveFails
  <2>2. \A u \in Threads : th'[u].pc # "rename"
    BY <1>9 DEF SaveFails, Unlock, TypeOK, Saving, Job
  <2>3. WellFormed(mem)' /\ WellFormed(tmp)' /\ WellFormed(disk)'
    BY <2>1, <1>w DEF WellFormed
  <2>4. QED BY <2>1, <2>2, <2>3 DEF FilesFollow
<1>10. ASSUME NEW t \in Threads, PublishAdded(t) \/ PublishRemoved(t) PROVE FilesFollow'
  <2>1. /\ th'[t].pc # "rename" /\ \A u \in Threads \ {t} : th'[u] = th[u]
        /\ up /\ UNCHANGED <<now, up, mem, tmp, disk, lock, dirty>>
    BY <1>10, IdleIsAJob DEF PublishAdded, PublishRemoved, TypeOK, storeVars
  <2>2. QED BY <2>1, FilesUntouched
<1>11. CASE Die
  <2>1. WellFormed(mem)' /\ WellFormed(tmp)' /\ WellFormed(disk)'
    BY <1>11, <1>w, EmptyStoreWellFormed DEF Die, WellFormed
  <2>2. ~up' /\ Dead' BY <1>11 DEF Die, Dead
  <2>3. \A u \in Threads : th'[u].pc # "rename" BY <1>11, IdleIsAJob DEF Die
  <2>4. QED BY <2>1, <2>2, <2>3 DEF FilesFollow
<1>12. CASE Restart
  <2>1. /\ mem' = [next_id |-> disk.next_id, rules |-> disk.rules \ Expired(disk, now)]
        /\ WellFormed(Load(disk, now)) /\ mem' = Load(disk, now)
    BY <1>12, <1>w, LoadKeepsNextId DEF Restart, TypeOK
  <2>2. UNCHANGED <<now, tmp, disk, lock, th, dirty>> /\ up'
    BY <1>12 DEF Restart, histVars
  <2>3. \A u \in Threads : th'[u].pc # "rename"
    BY <1>12, <2>2, IdleIsAJob DEF Restart, FilesFollow, Dead
  <2>4. WellFormed(mem)' /\ WellFormed(tmp)' /\ WellFormed(disk)'
    BY <2>1, <2>2, <1>w DEF WellFormed
  <2>5. disk.next_id \in Nat BY DEF TypeOK, Store
  <2>6. disk'.rules \ mem'.rules \subseteq Expired(disk, now)'
    BY <2>1, <2>2 DEF Expired
  <2>7. QED BY <2>1, <2>2, <2>3, <2>4, <2>5, <2>6 DEF FilesFollow
<1>13. CASE UNCHANGED vars
  BY <1>13 DEF vars, storeVars, histVars, FilesFollow, WellFormed, Expired, Dead
<1>14. QED
  BY <1>1, <1>2, <1>3, <1>4, <1>5, <1>6, <1>7, <1>8, <1>9, <1>10, <1>11, <1>12, <1>13,
     StepKinds

-----------------------------------------------------------------------------
(* Ids are remembered *)

LEMMA IdsMutate ==
  ASSUME TypeOK, IdsRemembered, up, NEW t \in Threads, NEW s \in Store, NEW out \in SUBSET Rule,
         mem.next_id <= s.next_id, IdsBelow(out, s.next_id), Mutate(t, s, out)
  PROVE  IdsRemembered'
<1>1. mem' = s /\ UNCHANGED <<up, disk, dirty, lost, shown>> BY DEF Mutate, histVars
<1>2. th'[t].out = out /\ th'[t].pc = "save" /\ \A u \in Threads \ {t} : th'[u] = th[u]
  BY DEF Mutate, TypeOK, Job
<1>3. mem.next_id \in Nat /\ s.next_id \in Nat /\ disk.next_id \in Nat BY DEF TypeOK, Store
<1>4. \A u \in Threads : IdsBelow(th'[u].out, s.next_id)
  <2>1. ASSUME NEW u \in Threads \ {t} PROVE IdsBelow(th[u].out, s.next_id)
    <3>1. IdsBelow(th[u].out, mem.next_id) /\ th[u].out \in SUBSET Rule
      BY DEF IdsRemembered, TypeOK, Job
    <3>2. QED BY <1>3, <3>1 DEF IdsBelow, Rule
  <2>2. QED BY <1>2, <2>1
<1>5. ~lost => \A n \in shown : n < s.next_id
  BY <1>3 DEF IdsRemembered, TypeOK
<1>6. ~dirty => \A u \in Threads : th'[u].pc = "publish" => IdsBelow(th'[u].out, disk.next_id)
  BY <1>2 DEF IdsRemembered
<1>7. QED BY <1>1, <1>4, <1>5, <1>6 DEF IdsRemembered, IdsBelow

LEMMA IdsStep == TypeOK /\ FilesFollow /\ IdsRemembered /\ [Next]_vars => IdsRemembered'
<1> SUFFICES ASSUME TypeOK, FilesFollow, IdsRemembered, [Next]_vars PROVE IdsRemembered'
  OBVIOUS
<1>n. mem.next_id \in Nat /\ disk.next_id \in Nat BY DEF TypeOK, Store
<1>1. CASE Tick \/ UNCHANGED vars
  BY <1>1 DEF Tick, vars, storeVars, histVars, IdsRemembered, IdsBelow
<1>2. ASSUME NEW c \in Clients, List(c) PROVE IdsRemembered'
  <2>1. /\ up /\ lock = Nobody /\ shown' = shown \cup {r.id : r \in mem.rules}
        /\ UNCHANGED <<up, mem, disk, th, dirty, lost>>
    BY <1>2 DEF List, storeVars
  <2>2. \A n \in {r.id : r \in mem.rules} : n < mem.next_id
    BY DEF FilesFollow, WellFormed
  <2>3. ~dirty => disk.next_id = mem.next_id BY <2>1 DEF FilesFollow
  <2>4. QED BY <2>1, <2>2, <2>3 DEF IdsRemembered, IdsBelow
<1>3. ASSUME NEW t \in Threads, LocalStep(t) PROVE IdsRemembered'
  <2>1. /\ th'[t].out = {} /\ \A u \in Threads \ {t} : th'[u] = th[u]
        /\ UNCHANGED <<up, mem, disk, dirty, lost, shown>>
    BY <1>3 DEF LocalStep, TypeOK
  <2>2. QED BY <2>1 DEF IdsRemembered, IdsBelow
<1>4. ASSUME NEW t \in Threads, AddStep(t) PROVE IdsRemembered'
  <2>1. PICK r \in Rule : r.id = mem.next_id /\ Mutate(t, Added(mem, r), {r})
    BY <1>4 DEF AddStep
  <2>2. Added(mem, r) \in Store /\ Added(mem, r).next_id = mem.next_id + 1
    BY <2>1, AddedWellFormed DEF FilesFollow, TypeOK, Added
  <2>3. mem.next_id <= Added(mem, r).next_id /\ IdsBelow({r}, Added(mem, r).next_id)
    BY <1>n, <2>1, <2>2 DEF IdsBelow
  <2>4. up BY <1>4 DEF AddStep
  <2>5. QED BY <2>1, <2>2, <2>3, <2>4, IdsMutate
<1>5. ASSUME NEW t \in Threads, DropStep(t) PROVE IdsRemembered'
  <2>1. PICK gone \in SUBSET Rule : gone \subseteq mem.rules /\ Mutate(t, Without(mem, gone), gone)
    BY <1>5 DEF DropStep
  <2>2. Without(mem, gone) \in Store /\ Without(mem, gone).next_id = mem.next_id
    BY WithoutWellFormed DEF FilesFollow, TypeOK
  <2>3. IdsBelow(gone, mem.next_id) BY <2>1 DEF FilesFollow, WellFormed, IdsBelow
  <2>4. up BY <1>5 DEF DropStep
  <2>5. QED BY <1>n, <2>1, <2>2, <2>3, <2>4, IdsMutate
<1>6. ASSUME NEW t \in Threads, BeginWrite(t) \/ EndWrite(t) PROVE IdsRemembered'
  <2>1. /\ th'[t].pc # "publish" /\ th'[t].out = th[t].out
        /\ \A u \in Threads \ {t} : th'[u] = th[u]
        /\ UNCHANGED <<up, mem, disk, dirty, lost, shown>>
    BY <1>6 DEF BeginWrite, EndWrite, TypeOK, Job, histVars
  <2>2. QED BY <2>1 DEF IdsRemembered, IdsBelow
<1>7. ASSUME NEW t \in Threads, Rename(t) PROVE IdsRemembered'
  <2>1. up /\ disk' = mem /\ UNCHANGED <<up, mem, lost, shown>>
    BY <1>7 DEF Rename, FilesFollow
  <2>2. \A u \in Threads : th'[u].out = th[u].out
    BY <1>7 DEF Rename, Unlock, TypeOK, Job
  <2>3. QED BY <2>1, <2>2 DEF IdsRemembered, IdsBelow
<1>8. ASSUME NEW t \in Threads, SaveFails(t) PROVE IdsRemembered'
  <2>1. dirty' /\ UNCHANGED <<up, mem, lost, shown>>
    BY <1>8 DEF SaveFails
  <2>2. \A u \in Threads : th'[u].out = th[u].out
    BY <1>8 DEF SaveFails, Unlock, TypeOK, Job
  <2>3. QED BY <2>1, <2>2 DEF IdsRemembered, IdsBelow
<1>9. ASSUME NEW t \in Threads, PublishAdded(t) \/ PublishRemoved(t) PROVE IdsRemembered'
  <2>1. /\ up /\ th[t].pc = "publish" /\ th'[t].out = {}
        /\ \A u \in Threads \ {t} : th'[u] = th[u]
        /\ UNCHANGED <<up, mem, disk, dirty, lost>>
        /\ shown' = shown \cup IdsOf(th[t].out)
    BY <1>9, IdleIsAJob DEF PublishAdded, PublishRemoved, TypeOK, storeVars
  <2>2. \A n \in IdsOf(th[t].out) : n < mem.next_id /\ (~dirty => n < disk.next_id)
    BY <2>1 DEF IdsRemembered, IdsBelow, IdsOf
  <2>3. QED BY <2>1, <2>2 DEF IdsRemembered, IdsBelow
<1>10. CASE up /\ Die
  <2>1. /\ ~up' /\ lost' = (lost \/ dirty) /\ UNCHANGED <<disk, shown>>
        /\ \A u \in Threads : th'[u].pc # "publish"
    BY <1>10, IdleIsAJob DEF Die
  <2>2. QED BY <2>1 DEF IdsRemembered
<1>11. CASE Restart
  <2>1. /\ UNCHANGED <<disk, shown, lost, dirty, th>>
        /\ th = [u \in Threads |-> Idle] /\ ~dirty
    BY <1>11 DEF Restart, histVars, FilesFollow, Dead
  <2>2. mem'.next_id = disk.next_id
    <3>1. disk \in Store /\ now \in Int /\ WellFormed(disk) BY DEF TypeOK, FilesFollow
    <3>2. Load(disk, now) = [next_id |-> disk.next_id, rules |-> disk.rules \ Expired(disk, now)]
      BY <3>1, LoadKeepsNextId
    <3>3. QED BY <1>11, <3>2 DEF Restart
  <2>3. \A u \in Threads : th'[u].out = {} BY <2>1, IdleIsAJob
  <2>4. QED BY <2>1, <2>2, <2>3 DEF IdsRemembered, IdsBelow
<1>12. QED
  BY <1>1, <1>2, <1>3, <1>4, <1>5, <1>6, <1>7, <1>8, <1>9, <1>10, <1>11, StepKinds

\* The step on which IdsAreNeverReused rests: only an add brings in a rule.
LEMMA NewIdsAreFresh ==
  ASSUME TypeOK, FilesFollow, IdsRemembered, [Next]_vars, up, up', ~lost,
         NEW r \in mem'.rules \ mem.rules
  PROVE  r.id \notin shown
<1>1. CASE \E t \in Threads : AddStep(t)
  <2>1. PICK t \in Threads, q \in Rule : q.id = mem.next_id /\ Mutate(t, Added(mem, q), {q})
    BY <1>1 DEF AddStep
  <2>2. r = q BY <2>1 DEF Mutate, Added
  <2>3. \A n \in shown : n < mem.next_id BY DEF IdsRemembered
  <2>4. mem.next_id \in Nat /\ shown \subseteq Nat BY DEF TypeOK, Store
  <2>5. QED BY <2>1, <2>2, <2>3, <2>4
<1>2. CASE \E t \in Threads : DropStep(t)
  <2>1. PICK t \in Threads, gone \in SUBSET Rule : Mutate(t, Without(mem, gone), gone)
    BY <1>2 DEF DropStep
  <2>2. mem'.rules = mem.rules \ gone
    BY <2>1, WithoutWellFormed DEF Mutate, FilesFollow, TypeOK
  <2>3. QED BY <2>2
<1>3. CASE UNCHANGED mem
  BY <1>3
<1>4. ~Die /\ ~Restart BY DEF Die, Restart
<1>5. ASSUME NEW t \in Threads,
             \/ LocalStep(t) \/ BeginWrite(t) \/ EndWrite(t) \/ Rename(t) \/ SaveFails(t)
             \/ PublishAdded(t) \/ PublishRemoved(t)
      PROVE  UNCHANGED mem
  BY <1>5 DEF LocalStep, BeginWrite, EndWrite, Rename, SaveFails, PublishAdded,
              PublishRemoved, storeVars
<1>6. CASE Tick \/ (\E c \in Clients : List(c)) \/ UNCHANGED vars
  <2>1. UNCHANGED mem BY <1>6 DEF Tick, List, vars, storeVars
  <2>2. QED BY <2>1
<1>7. QED BY <1>1, <1>2, <1>3, <1>4, <1>5, <1>6, StepKinds

-----------------------------------------------------------------------------
(* Announcements agree with the store *)

\* Both invariants survive a step that leaves the store and what subscribers
\* know alone, and changes no thread that has an added rule to announce.
LEMMA AnnounceUntouched ==
  ASSUME TypeOK, OutAgrees, EveryRuleAnnounced, UNCHANGED <<up, mem, told>>,
         NEW t \in Threads, \A u \in Threads \ {t} : th'[u] = th[u],
         \/ th[t].op # "add" /\ th'[t].out = {}
         \/ /\ th'[t].out = th[t].out /\ th'[t].op = th[t].op
            /\ th'[t].pc # "lock" \/ th'[t] = th[t]
  PROVE  OutAgrees' /\ EveryRuleAnnounced'
<1>1. \A u \in Threads : \/ th'[u].out = {} /\ th[u].op # "add"
                         \/ /\ th'[u].out = th[u].out /\ th'[u].op = th[u].op
                            /\ th'[u].pc # "lock" \/ th'[u] = th[u]
  OBVIOUS
<1>2. OutAgrees' BY <1>1 DEF OutAgrees
<1>3. Clients \subseteq Threads BY DEF Threads
<1>4. EveryRuleAnnounced' BY <1>1, <1>3 DEF EveryRuleAnnounced
<1>5. QED BY <1>2, <1>4

LEMMA AnnounceStep ==
  TypeOK /\ FilesFollow /\ IdsRemembered /\ OutAgrees /\ EveryRuleAnnounced /\ [Next]_vars
    => OutAgrees' /\ EveryRuleAnnounced'
<1> SUFFICES ASSUME TypeOK, FilesFollow, IdsRemembered, OutAgrees, EveryRuleAnnounced,
                    [Next]_vars
             PROVE  OutAgrees' /\ EveryRuleAnnounced'
  OBVIOUS
<1>t. Clients \subseteq Threads BY DEF Threads
<1>1. CASE Tick \/ UNCHANGED vars \/ \E c \in Clients : List(c)
  <2>1. UNCHANGED <<up, mem, told, th>>
    BY <1>1 DEF Tick, List, vars, storeVars
  <2>2. QED BY <2>1 DEF OutAgrees, EveryRuleAnnounced
<1>2. ASSUME NEW t \in Threads,
             \/ LocalStep(t) \/ BeginWrite(t) \/ EndWrite(t) \/ Rename(t) \/ SaveFails(t)
      PROVE  OutAgrees' /\ EveryRuleAnnounced'
  <2>1. UNCHANGED <<up, mem, told>> /\ \A u \in Threads \ {t} : th'[u] = th[u]
    BY <1>2 DEF LocalStep, BeginWrite, EndWrite, Rename, SaveFails, Unlock, TypeOK
  <2>2. \/ th[t].op # "add" /\ th'[t].out = {}
        \/ th'[t].out = th[t].out /\ th'[t].op = th[t].op /\ th'[t].pc # "lock"
    BY <1>2 DEF LocalStep, BeginWrite, EndWrite, Rename, SaveFails, Unlock, TypeOK, Job
  <2>3. QED BY <2>1, <2>2, AnnounceUntouched
<1>3. ASSUME NEW t \in Threads, AddStep(t) PROVE OutAgrees' /\ EveryRuleAnnounced'
  <2>1. PICK r \in Rule : r.id = mem.next_id /\ Mutate(t, Added(mem, r), {r})
    BY <1>3 DEF AddStep
  <2>2. /\ up /\ t \in Clients /\ th[t].op = "add"
        /\ th'[t].out = {r} /\ th'[t].op = "add" /\ th'[t].pc = "save"
        /\ \A u \in Threads \ {t} : th'[u] = th[u]
        /\ UNCHANGED <<up, told>>
    BY <1>3, <2>1 DEF AddStep, Mutate, TypeOK, Job
  <2>3. mem'.rules = (mem.rules \ Replaced(mem, r)) \cup {r}
    BY <2>1 DEF Mutate, Added
  <2>4. \A u \in Threads : \A q \in th[u].out : q.id # r.id
    BY <2>1, <2>2 DEF IdsRemembered, IdsBelow, TypeOK, Store, Job, Rule
  <2>5. \A q \in mem.rules : q.id # r.id
    BY <2>1 DEF FilesFollow, WellFormed, TypeOK, Store, Rule
  <2>6. OutAgrees' BY <2>2, <2>3, <2>4, <2>5 DEF OutAgrees
  <2>7. ASSUME NEW q \in mem.rules
        PROVE  q \in told' \/ \E c \in Clients : th'[c].op = "add" /\ q \in th'[c].out
    <3>1. CASE q \in told BY <2>2, <3>1
    <3>2. CASE q \notin told
      <4>1. PICK c \in Clients : th[c].op = "add" /\ q \in th[c].out
        BY <2>2, <3>2 DEF EveryRuleAnnounced
      <4>2. CASE c # t BY <2>2, <4>1, <4>2, <1>t
      <4>3. CASE c = t
        <5>1. th[t].out = {} BY <1>3 DEF AddStep, OutAgrees
        <5>2. QED BY <4>1, <4>3, <5>1
      <4>4. QED BY <4>2, <4>3
    <3>3. QED BY <3>1, <3>2
  <2>8. EveryRuleAnnounced' BY <2>2, <2>3, <2>7 DEF EveryRuleAnnounced
  <2>9. QED BY <2>6, <2>8
<1>4. ASSUME NEW t \in Threads, DropStep(t) PROVE OutAgrees' /\ EveryRuleAnnounced'
  <2>1. PICK gone \in SUBSET Rule : gone \subseteq mem.rules /\ Mutate(t, Without(mem, gone), gone)
    BY <1>4 DEF DropStep
  <2>2. /\ up /\ th[t].op # "add" /\ th'[t].out = gone /\ th'[t].pc = "save"
        /\ \A u \in Threads \ {t} : th'[u] = th[u]
        /\ UNCHANGED <<up, told>>
    BY <1>4, <2>1 DEF DropStep, Mutate, TypeOK, Job
  <2>3. mem'.rules = mem.rules \ gone
    BY <2>1, WithoutWellFormed DEF Mutate, FilesFollow, TypeOK
  <2>4. \A r \in gone : \A q \in mem.rules \ gone : q.id # r.id
    BY <2>1 DEF FilesFollow, WellFormed
  <2>5. OutAgrees' BY <2>2, <2>3, <2>4 DEF OutAgrees
  <2>6. EveryRuleAnnounced' BY <2>2, <2>3, <1>t DEF EveryRuleAnnounced
  <2>7. QED BY <2>5, <2>6
<1>5. ASSUME NEW c \in Clients, PublishAdded(c) PROVE OutAgrees' /\ EveryRuleAnnounced'
  <2>1. /\ up /\ th[c].op = "add" /\ th'[c].out = {}
        /\ told' = {q \in told : q.id \notin IdsOf(th[c].out)} \cup th[c].out
        /\ \A u \in Threads \ {c} : th'[u] = th[u]
        /\ UNCHANGED <<up, mem>>
    BY <1>5, <1>t, IdleIsAJob DEF PublishAdded, TypeOK, storeVars
  <2>2. OutAgrees' BY <2>1, <1>t DEF OutAgrees
  <2>3. \A q \in mem.rules : q.id \in IdsOf(th[c].out) => q \in th[c].out
    BY <1>t DEF OutAgrees, IdsOf
  <2>4. EveryRuleAnnounced'
    <3>1. ASSUME NEW q \in mem.rules, q \notin told'
          PROVE  \E d \in Clients : th'[d].op = "add" /\ q \in th'[d].out
      <4>1. q \notin told /\ q \notin th[c].out
        BY <2>1, <2>3, <3>1
      <4>2. PICK d \in Clients : th[d].op = "add" /\ q \in th[d].out
        BY <2>1, <4>1 DEF EveryRuleAnnounced
      <4>3. QED BY <1>t, <2>1, <4>1, <4>2
    <3>2. QED BY <2>1, <3>1 DEF EveryRuleAnnounced
  <2>5. QED BY <2>2, <2>4
<1>6. ASSUME NEW t \in Threads, PublishRemoved(t) PROVE OutAgrees' /\ EveryRuleAnnounced'
  <2>1. /\ up /\ th[t].op # "add" /\ th'[t].out = {}
        /\ told' = {q \in told : q.id \notin IdsOf(th[t].out)}
        /\ \A u \in Threads \ {t} : th'[u] = th[u]
        /\ UNCHANGED <<up, mem>>
    BY <1>6, IdleIsAJob DEF PublishRemoved, TypeOK, storeVars
  <2>2. OutAgrees' BY <2>1 DEF OutAgrees
  <2>3. \A q \in mem.rules : q.id \notin IdsOf(th[t].out)
    BY <2>1 DEF OutAgrees, IdsOf
  <2>4. EveryRuleAnnounced'
    BY <2>1, <2>3, <1>t DEF EveryRuleAnnounced
  <2>5. QED BY <2>2, <2>4
<1>7. CASE up /\ Die
  <2>1. mem'.rules = {} /\ ~up' BY <1>7 DEF Die, EmptyStore
  <2>2. \A u \in Threads : th'[u].out = {} BY <1>7, IdleIsAJob DEF Die
  <2>3. QED BY <2>1, <2>2 DEF OutAgrees, EveryRuleAnnounced
<1>8. CASE Restart
  <2>1. \A u \in Threads : th'[u].out = {}
    BY <1>8, IdleIsAJob DEF Restart, FilesFollow, Dead
  <2>2. told' = mem'.rules BY <1>8 DEF Restart
  <2>3. QED BY <2>1, <2>2 DEF OutAgrees, EveryRuleAnnounced
<1>9. QED BY <1>1, <1>2, <1>3, <1>4, <1>5, <1>6, <1>7, <1>8, StepKinds

-----------------------------------------------------------------------------
(* The theorems *)

LEMMA InitIInv == Init => IInv
<1> SUFFICES ASSUME Init PROVE IInv OBVIOUS
<1>1. TypeOK BY InitType
<1>2. /\ mem = EmptyStore /\ tmp = EmptyStore /\ disk = EmptyStore /\ up /\ shown = {}
      /\ \A t \in Threads : th[t].pc = "idle" /\ th[t].out = {}
  BY IdleIsAJob DEF Init
<1>3. mem.rules = {} /\ mem.next_id \in Nat BY <1>2, EmptyStoreWellFormed DEF EmptyStore, Store
<1>4. FilesFollow BY <1>2, <1>3, EmptyStoreWellFormed DEF FilesFollow
<1>5. IdsRemembered BY <1>2 DEF IdsRemembered, IdsBelow
<1>6. OutAgrees /\ EveryRuleAnnounced BY <1>2, <1>3 DEF OutAgrees, EveryRuleAnnounced
<1>7. QED BY <1>1, <1>4, <1>5, <1>6 DEF IInv

LEMMA StepIInv == IInv /\ [Next]_vars => IInv'
<1> SUFFICES ASSUME IInv, [Next]_vars PROVE IInv' OBVIOUS
<1>1. TypeOK' BY NextType DEF IInv, FilesFollow
<1>2. FilesFollow' BY FilesStep DEF IInv
<1>3. IdsRemembered' BY IdsStep DEF IInv
<1>4. OutAgrees' /\ EveryRuleAnnounced' BY AnnounceStep DEF IInv
<1>5. QED BY <1>1, <1>2, <1>3, <1>4 DEF IInv

\* The inductive invariant holds throughout: types, mutex discipline, the
\* relation of the files to the memory, fresh ids and pending announcements.
THEOREM Invariance == Spec => []IInv
BY InitIInv, StepIInv, PTL DEF Spec

\* Types and the mutex: a thread is in save_locked exactly when it holds it.
THEOREM TypeCorrect == Spec => []TypeOK
<1>1. IInv => TypeOK BY DEF IInv
<1>2. QED BY <1>1, Invariance, PTL

\* `add` keeps one rule per executable and action and one rule per id, in
\* memory and on disk, for any interleaving, failure and crash.
THEOREM OneRule == Spec => []OneRulePerTarget
<1>1. IInv => OneRulePerTarget BY DEF IInv, FilesFollow, OneRulePerTarget
<1>2. QED BY <1>1, Invariance, PTL

\* save_locked before the mutex is dropped, on every path that changes the
\* store: a restart between two operations brings the same rules back.
THEOREM RestartTransparent == Spec => []RestartRestoresTheRules
<1>1. IInv => RestartRestoresTheRules
  <2> SUFFICES ASSUME IInv, up, lock = Nobody, ~dirty
               PROVE  Live(disk) = Live(mem) /\ Load(disk, now).next_id = mem.next_id
    BY DEF RestartRestoresTheRules
  <2>1. /\ disk.next_id = mem.next_id /\ mem.rules \subseteq disk.rules
        /\ disk.rules \ mem.rules \subseteq Expired(disk, now)
        /\ disk \in Store /\ mem \in Store /\ WellFormed(disk)
    BY DEF IInv, FilesFollow, TypeOK
  <2>2. Live(disk) = Live(mem) BY <2>1 DEF Live, Expired
  <2>3. Load(disk, now).next_id = disk.next_id
    <3>1. now \in Int BY DEF IInv, TypeOK
    <3>2. Load(disk, now) = [next_id |-> disk.next_id, rules |-> disk.rules \ Expired(disk, now)]
      BY <2>1, <3>1, LoadKeepsNextId
    <3>3. QED BY <3>2
  <2>4. QED BY <2>1, <2>2, <2>3
<1>2. QED BY <1>1, Invariance, PTL

\* Every rule in the store has been announced to subscribers or is about to be
\* by the thread that added it, whatever the order of the publish calls.
THEOREM AllAnnounced == Spec => []EveryRuleAnnounced
<1>1. IInv => EveryRuleAnnounced BY DEF IInv
<1>2. QED BY <1>1, Invariance, PTL

\* next_id is saved with every change and load never falls behind it, so an id
\* that a client has seen never names a later rule.
THEOREM IdsFresh == Spec => IdsAreNeverReused
<1>1. IInv /\ [Next]_vars =>
        [up /\ up' /\ ~lost => \A r \in mem'.rules \ mem.rules : r.id \notin shown]_vars
  BY NewIdsAreFresh DEF IInv
<1>2. QED BY <1>1, Invariance, PTL DEF Spec, IdsAreNeverReused

-----------------------------------------------------------------------------
(* The store implements BlockList *)

\* The Block rules of an executable that are in force.
InForce(s, e, t) ==
  {r \in s.rules : r.action = "Block" /\ r.exe = e /\ ~IsExpired(r, t)}

LEMMA VerdictType ==
  ASSUME NEW s, NEW t
  PROVE  VerdictAt(s, t) \in [Exes -> BL!Verdicts]
BY DEF VerdictAt, BL!Verdicts

\* The verdict on an executable is a matter of its rules in force alone.
LEMMA SameVerdict ==
  ASSUME NEW s, NEW r, NEW t, NEW e \in Exes, InForce(s, e, t) = InForce(r, e, t)
  PROVE  VerdictAt(s, t)[e] = VerdictAt(r, t)[e]
<1>1. ASSUME NEW q \in {s, r}
      PROVE  /\ IsBlocked(q, e, t) <=> InForce(q, e, t) # {}
             /\ (\E p \in q.rules : p.action = "Block" /\ p.exe = e /\ p.expires = Never)
                  <=> \E p \in InForce(q, e, t) : p.expires = Never
  BY DEF IsBlocked, InForce, IsExpired
<1>2. QED
  BY <1>1 DEF VerdictAt

\* Verdicts of stores that differ in the rules of one executable.
LEMMA OneVerdict ==
  ASSUME NEW s, NEW r, NEW t, NEW e \in Exes,
         \A d \in Exes \ {e} : InForce(s, d, t) = InForce(r, d, t)
  PROVE  /\ VerdictAt(r, t)[e] \in BL!Verdicts
         /\ VerdictAt(r, t) = [VerdictAt(s, t) EXCEPT ![e] = VerdictAt(r, t)[e]]
<1>1. VerdictAt(s, t) \in [Exes -> BL!Verdicts] /\ VerdictAt(r, t) \in [Exes -> BL!Verdicts]
  BY VerdictType
<1>2. \A d \in Exes \ {e} : VerdictAt(r, t)[d] = VerdictAt(s, t)[d]
  BY SameVerdict
<1>3. QED
  BY <1>1, <1>2

LEMMA SameVerdicts ==
  ASSUME NEW s, NEW r, NEW t, \A d \in Exes : InForce(s, d, t) = InForce(r, d, t)
  PROVE  VerdictAt(r, t) = VerdictAt(s, t)
<1>1. VerdictAt(s, t) \in [Exes -> BL!Verdicts] /\ VerdictAt(r, t) \in [Exes -> BL!Verdicts]
  BY VerdictType
<1>2. \A d \in Exes : VerdictAt(r, t)[d] = VerdictAt(s, t)[d]
  BY SameVerdict
<1>3. QED
  BY <1>1, <1>2

\* Time can only end a temporary block: a rule without expiry is in force for good.
LEMMA TimeLapses ==
  ASSUME NEW s \in Store, NEW t \in Int
  PROVE  BL!LapsedFrom(VerdictAt(s, t), VerdictAt(s, t + 1))
<1> SUFFICES ASSUME NEW e \in Exes
             PROVE  \/ VerdictAt(s, t + 1)[e] = VerdictAt(s, t)[e]
                    \/ VerdictAt(s, t)[e] = "temporary" /\ VerdictAt(s, t + 1)[e] = "allowed"
  BY DEF BL!LapsedFrom
<1>1. \A r \in s.rules : IsExpired(r, t) => IsExpired(r, t + 1)
  BY NeverIsNoTime DEF Store, Rule, IsExpired
<1>2. IsBlocked(s, e, t + 1) => IsBlocked(s, e, t)
  BY <1>1 DEF IsBlocked
<1>3. \A r \in s.rules : r.action = "Block" /\ r.exe = e /\ r.expires = Never
                          => IsBlocked(s, e, t + 1)
  BY DEF IsBlocked, IsExpired
<1>4. QED
  BY <1>2, <1>3 DEF VerdictAt

LEMMA EmptyAllows == ASSUME NEW t PROVE VerdictAt(EmptyStore, t) = BL!Open
BY DEF VerdictAt, IsBlocked, EmptyStore, BL!Open

\* The clock that an operation has read is not ahead of the clock.
ClockRead == 0 <= now /\ \A t \in Threads : th[t].asof <= now

LEMMA ClockStep == TypeOK /\ ClockRead /\ [Next]_vars => ClockRead'
<1> SUFFICES ASSUME TypeOK, ClockRead, [Next]_vars PROVE ClockRead' OBVIOUS
<1>1. CASE UNCHANGED vars
  BY <1>1 DEF vars, ClockRead
<1>2. CASE Next
  <2>i. Idle \in Job /\ Idle.asof = 0
    BY IdleIsAJob DEF Idle
  <2>1. CASE Tick
    BY <2>1 DEF Tick, ClockRead, TypeOK, Job
  <2>2. ASSUME NEW c \in Clients, List(c) PROVE ClockRead'
    BY <2>2 DEF List, ClockRead
  <2>3. ASSUME NEW t \in Threads, LocalStep(t) PROVE ClockRead'
    BY <2>3 DEF LocalStep, ClockRead, TypeOK
  <2>4. ASSUME NEW t \in Threads, NEW s, NEW out, Mutate(t, s, out) PROVE ClockRead'
    BY <2>4 DEF Mutate, ClockRead, TypeOK, Job
  <2>5. ASSUME NEW t \in Threads, AddStep(t) \/ DropStep(t) PROVE ClockRead'
    BY <2>4, <2>5 DEF AddStep, DropStep
  <2>6. ASSUME NEW t \in Threads, BeginWrite(t) \/ EndWrite(t) \/ Rename(t) \/ SaveFails(t)
        PROVE  ClockRead'
    BY <2>6 DEF BeginWrite, EndWrite, Rename, SaveFails, Unlock, ClockRead, TypeOK, Job
  <2>7. ASSUME NEW t \in Threads, PublishAdded(t) \/ PublishRemoved(t) PROVE ClockRead'
    BY <2>i, <2>7 DEF PublishAdded, PublishRemoved, ClockRead, TypeOK
  <2>8. CASE up /\ Die
    BY <2>i, <2>8 DEF Die, ClockRead
  <2>9. CASE Restart
    BY <2>9 DEF Restart, ClockRead
  <2>10. QED
    BY <1>2, <2>1, <2>2, <2>3, <2>5, <2>6, <2>7, <2>8, <2>9, StepKinds
<1>3. QED BY <1>1, <1>2

\* Taking rules out concerns one executable, or rules that had expired anyway.
LEMMA DropVerdict ==
  ASSUME IInv, ClockRead, NEW t \in Threads, DropStep(t)
  PROVE  \/ VerdictAt(mem', now) = VerdictAt(mem, now)
         \/ \E e \in Exes, v \in BL!Verdicts :
              VerdictAt(mem', now) = [VerdictAt(mem, now) EXCEPT ![e] = v]
<1>1. PICK gone \in SUBSET Rule :
        /\ gone \subseteq mem.rules /\ mem' = Without(mem, gone)
        /\ \/ \E n \in Nat : \A r \in gone : r.id = n
           \/ \A r \in gone : IsExpired(r, th[t].asof)
  BY DEF DropStep, Mutate
<1>2. mem \in Store /\ WellFormed(mem) /\ now \in Int /\ th[t].asof \in Int /\ th[t].asof <= now
  BY DEF IInv, TypeOK, FilesFollow, ClockRead, Job
<1>3. mem'.rules = mem.rules \ gone
  BY <1>1, <1>2, WithoutWellFormed
<1>4. CASE \A r \in gone : IsExpired(r, th[t].asof)
  <2>1. \A r \in gone : IsExpired(r, now)
    BY <1>2, <1>4, NeverIsNoTime DEF IsExpired, Rule
  <2>2. \A e \in Exes : InForce(mem, e, now) = InForce(mem', e, now)
    BY <1>3, <2>1 DEF InForce
  <2>3. QED
    BY <2>2, SameVerdicts
<1>5. CASE \E n \in Nat : \A r \in gone : r.id = n
  <2>1. CASE gone = {}
    BY <1>4, <2>1
  <2>2. CASE gone # {}
    <3>1. PICK q \in gone : TRUE
      BY <2>2
    <3>2. \A r \in gone : r = q
      BY <1>1, <1>2, <1>5 DEF WellFormed
    <3>3. PICK e \in Exes : e = q.exe
      BY DEF Rule
    <3>4. \A d \in Exes \ {e} : InForce(mem, d, now) = InForce(mem', d, now)
      BY <1>3, <3>2, <3>3 DEF InForce
    <3>5. /\ VerdictAt(mem', now)[e] \in BL!Verdicts
          /\ VerdictAt(mem', now) = [VerdictAt(mem, now) EXCEPT ![e] = VerdictAt(mem', now)[e]]
      BY <3>4, OneVerdict
    <3>6. QED
      BY <3>5, Zenon
  <2>3. QED BY <2>1, <2>2
<1>6. QED BY <1>1, <1>4, <1>5

LEMMA AddVerdict ==
  ASSUME IInv, NEW t \in Threads, AddStep(t)
  PROVE  \E e \in Exes, v \in BL!Verdicts :
           VerdictAt(mem', now) = [VerdictAt(mem, now) EXCEPT ![e] = v]
<1>1. PICK r \in Rule : mem' = Added(mem, r)
  BY DEF AddStep, Mutate
<1>2. PICK e \in Exes : e = r.exe
  BY DEF Rule
<1>3. \A d \in Exes \ {e} : InForce(mem, d, now) = InForce(mem', d, now)
  BY <1>1, <1>2 DEF InForce, Added, Replaced
<1>4. /\ VerdictAt(mem', now)[e] \in BL!Verdicts
      /\ VerdictAt(mem', now) = [VerdictAt(mem, now) EXCEPT ![e] = VerdictAt(mem', now)[e]]
  BY <1>3, OneVerdict
<1>5. QED
  BY <1>4, Zenon

\* Each step of the store is a step of the table of verdicts, or none.
LEMMA MapsToBlockList ==
  ASSUME IInv, ClockRead, [Next]_vars
  PROVE  [BL!Next]_<<up, VerdictOf(mem), VerdictOf(disk)>>
<1> USE DEF VerdictOf
<1> DEFINE Same == UNCHANGED <<up, VerdictOf(mem), VerdictOf(disk)>>
<1>1. ASSUME UNCHANGED <<up, now, mem, disk>> PROVE Same
  BY <1>1
<1>2. CASE UNCHANGED vars
  BY <1>1, <1>2 DEF vars, storeVars
<1>3. CASE Next
  <2>1. CASE Tick
    <3>1. /\ now' = now + 1 /\ now \in Int /\ mem \in Store /\ disk \in Store
          /\ UNCHANGED <<up, mem, disk>>
      BY <2>1 DEF Tick, storeVars, IInv, TypeOK
    <3>2. /\ BL!LapsedFrom(VerdictAt(mem, now), VerdictAt(mem, now + 1))
          /\ BL!LapsedFrom(VerdictAt(disk, now), VerdictAt(disk, now + 1))
      BY <3>1, TimeLapses
    <3>3. BL!Lapse
      BY <3>1, <3>2, VerdictType DEF BL!Lapse
    <3>4. QED BY <3>3 DEF BL!Next
  <2>2. ASSUME NEW c \in Clients, List(c) PROVE Same
    BY <1>1, <2>2 DEF List, storeVars
  <2>3. ASSUME NEW t \in Threads, LocalStep(t) PROVE Same
    BY <1>1, <2>3 DEF LocalStep
  <2>4. ASSUME NEW t \in Threads, AddStep(t) \/ DropStep(t)
        PROVE  BL!Next \/ Same
    <3>1. up /\ UNCHANGED <<now, up, disk>>
      BY <2>4 DEF AddStep, DropStep, Mutate
    <3>2. \/ VerdictAt(mem', now) = VerdictAt(mem, now)
          \/ \E e \in Exes, v \in BL!Verdicts :
               VerdictAt(mem', now) = [VerdictAt(mem, now) EXCEPT ![e] = v]
      BY <2>4, AddVerdict, DropVerdict, Zenon
    <3>3. ASSUME NEW e \in Exes, NEW v \in BL!Verdicts,
                 VerdictAt(mem', now) = [VerdictAt(mem, now) EXCEPT ![e] = v]
          PROVE  BL!SetVerdict(e, v)
      BY <3>1, <3>3 DEF BL!SetVerdict
    <3>4. CASE VerdictAt(mem', now) = VerdictAt(mem, now)
      BY <3>1, <3>4
    <3>5. QED BY <3>2, <3>3, <3>4, Zenon DEF BL!Next
  <2>5. ASSUME NEW t \in Threads, BeginWrite(t) \/ EndWrite(t) \/ SaveFails(t) PROVE Same
    BY <1>1, <2>5 DEF BeginWrite, EndWrite, SaveFails
  <2>6. ASSUME NEW t \in Threads, Rename(t) PROVE BL!Next
    <3>1. up /\ disk' = mem /\ UNCHANGED <<now, up, mem>>
      BY <2>6 DEF Rename, IInv, FilesFollow
    <3>2. BL!Flush BY <3>1 DEF BL!Flush
    <3>3. QED BY <3>2 DEF BL!Next
  <2>7. ASSUME NEW t \in Threads, PublishAdded(t) \/ PublishRemoved(t) PROVE Same
    BY <1>1, <2>7 DEF PublishAdded, PublishRemoved, storeVars
  <2>8. CASE up /\ Die
    <3>1. up /\ up' = FALSE /\ mem' = EmptyStore /\ UNCHANGED <<now, disk>>
      BY <2>8 DEF Die
    <3>2. BL!Die BY <3>1, EmptyAllows DEF BL!Die
    <3>3. QED BY <3>2 DEF BL!Next
  <2>9. CASE Restart
    <3>1. ~up /\ up' = TRUE /\ mem' = Load(disk, now) /\ UNCHANGED <<now, disk>>
      BY <2>9 DEF Restart
    <3>2. \A e \in Exes : InForce(disk, e, now) = InForce(mem', e, now)
      BY <3>1 DEF Load, InForce, Expired
    <3>3. VerdictAt(mem', now) = VerdictAt(disk, now)
      BY <3>2, SameVerdicts
    <3>4. BL!Restart BY <3>1, <3>3 DEF BL!Restart
    <3>5. QED BY <3>4 DEF BL!Next
  <2>10. BL!Next \/ Same
    BY <1>3, <2>1, <2>2, <2>3, <2>4, <2>5, <2>6, <2>7, <2>8, <2>9, StepKinds DEF IInv
  <2>11. QED BY <2>10
<1>4. QED BY <1>2, <1>3

\* To the rest of the daemon the store is an atomic table of verdicts with an atomic
\* durable copy, whatever threads, failures, crashes and clocks do (rules.rs).
THEOREM Refinement == Spec => ImplementsBlockList
<1>1. Init => BL!Init
  BY EmptyAllows DEF Init, BL!Init, VerdictOf
<1>2. Init => ClockRead
  BY DEF Init, ClockRead, Idle
<1>3. IInv /\ ClockRead /\ [Next]_vars => [BL!Next]_<<up, VerdictOf(mem), VerdictOf(disk)>>
  BY MapsToBlockList
<1>4. IInv => TypeOK
  BY DEF IInv
<1>5. QED
  BY <1>1, <1>2, <1>3, <1>4, ClockStep, Invariance, PTL
     DEF Spec, ImplementsBlockList, BL!Spec, BL!vars
=============================================================================
